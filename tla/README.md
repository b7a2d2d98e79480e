# flashrom in TLA+

flashrom reads, writes, verifies and erases flash chips. The chip sits behind a *programmer*: a
chipset, a PCI card, a USB or serial adapter. This directory holds TLA+ modules of the parts of
flashrom where the order of things matters, configurations that have TLC check them on small
instances, and theorems that TLAPS proves for all instances. `PROJECT.json` maps every definition to
the lines it models, names what each run checks, and lists the hazards of the code with the
properties that watch them.

How to run: `tlc -config X.cfg MCx` for a run, `tlapm XProofs.tla` for proofs.

## 1. The system

flashrom is one process with one thread. There are no callbacks from another thread and no
persistence: what is hard about it is the *other party*, a chip or a device that works on its own,
at its own pace, may ignore what it is told without a word, and may fail half way, while the host
has to be able to say in the end what is on the chip. A mistake is a board that does not boot.

| part | state | operations | talks to |
|---|---|---|---|
| command line program (`cli_classic.c`, probing in `flashrom.c`) | the options, `flashes[]` with the chips found | option loop, `probe_flash()`, choice of the one chip, ways out | life cycle, write engine, layout |
| programmer life cycle (`flashrom.c`, `programmer.c`, `pcidev.c`, `hwaccess.c`) | `shutdown_fn[]`, `registered_programmers[]`, I/O permissions, registers of the hardware | `programmer_init()`, `register_shutdown()`, `rpci_write_*`, `rmmio_val*`, `programmer_shutdown()` | every programmer registers with it |
| programmers' `init()` (`nic3com.c`, `atahpt.c`, ... `internal.c`, `ichspi.c`) | registers they change | their init and shutdown functions | life cycle |
| ROM layout (`layout.c`) | `rom_entries[]`, `include_args[]` | `-l`, `-i`, `handle_romentries()` | write engine, through `newcontents` |
| write engine (`flashrom.c`) | `oldcontents`, `newcontents`, `curcontents`, the walk over erasers and blocks | `doit()` and everything below it | chip functions through `flash->chip->read/write/unlock` and `block_erasers[]` |
| SPI chip functions (`spi25.c`, `spi.c`) | loop position, command list | read, program in pages, bytes or AAI, erase | SPI controller, chip |
| SPI status register (`spi25_statusreg.c`) | the status read, polls, enable command | `spi_disable_blockprotect_*()`, `spi_write_status_register()` | SPI controller, chip |
| parallel chips with JEDEC commands (`jedec.c`, `m29f400bt.c`, `en29lv640b.c`, `sst28sf040.c`) | position, retries, toggle bit read last | write by byte, word or page, erase, `toggle_ready_jedec()` | bus, chip |
| parallel chips with Intel's (`82802ab.c`, `sst49lfxxxc.c`; unlock functions of these and `stm50flw0x0x.c`, `pm49fl00x.c`, `w39.c`, `sst_fwhub.c`) | position, lock registers | write, erase, wait for the status register, unlock | bus, chip |
| SFDP (`sfdp.c`) | a chip entry built from the chip's own tables | probe | SPI, write engine |
| Intel SPI controllers (`ichspi.c`) | menu of opcodes, lock, address limit, flags of a cycle | pairing of prefix and opcode, reprogramming of the menu, a cycle; hardware sequencing | registers, a controller that works on its own |
| other SPI controllers (`sb600spi.c`, `mcp6x_spi.c`, `it87spi.c`, `it85spi.c`, `wbsio_spi.c`) | FIFO, pins, registers | one command; mapped reads and writes | registers; one FIFO is shared with another user |
| external SPI programmers (`dediprog.c`, `buspirate_spi.c`, `ft2232_spi.c`, `linux_spi.c`, `bitbang_spi.c` with `rayer_spi.c`, `pony_spi.c` and others) | modes of the device, its buffers | init, one command, bulk transfers, shutdown | USB, serial line, GPIO |
| serprog (`serprog.c`) | bytes being combined, use of the device's buffer, operations in flight | synchronisation, queries, chip access, delays, SPI commands, shutdown | a serial line or socket, a device with a protocol |
| mainboard support (`internal.c`, `board_enable.c`, `chipset_enable.c`, `dmi.c`, `cbtable.c`, `it87spi.c`) | tables, what is known of the board, `is_laptop`, `superios[]` | `internal_init()`: matching, laptop check, chipset and board enables | life cycle, registers of chipset and Super I/O |
| dummy programmer (`dummyflasher.c`) | an emulated chip | the chip's commands | SPI chip functions |
| chip table (`flashchips.c`) | data | `selfcheck()` | everything |

The call chain of a write: the program parses options, `programmer_init()` runs the driver's
`init()`, which registers shutdown functions and buses; each entry of the chip table is probed on
each bus; with exactly one chip, `doit()` unlocks it, reads it, merges the image under the layout,
erases and writes block by block with the erase functions in turn until one works, verifies, and
shuts the programmer down.

What makes each part correct, and which behaviours are hard:

* **Engine.** Only erased bytes are programmed; the verdict (exit code and message) is true whatever
  the chip does; a retry decides from what is on the chip and not from an old copy. Hard: an erase
  or write that fails half way, a reread that fails, a chip that lies.
* **Layout.** The bytes taken from the image are exactly the union of the regions asked for. Hard:
  overlapping and inverted regions, one that ends at the largest unsigned int, full arrays.
* **Life cycle.** After shutdown the hardware is as it was found, and an access is not used after it
  is closed. Hard: failures in the middle of `init()`, overlapping reversible writes, a full
  `shutdown_fn[]`.
* **Program.** Nothing is written unless exactly one chip fits and the command line is consistent;
  one shutdown on every way out; a true exit status.
* **Chip functions.** Every command reaches a chip that can take it; a call touches only its range;
  0 means done; a chip that is said to be unlocked is. Hard: the chip is busy while the host goes
  on, a failing command in a sequence, pages, odd lengths, a register that must be written twice.
* **SPI controllers and programmers.** The chip sees the bytes that were asked for, once and in
  order, and the caller gets the answer to its own command; what cannot be sent is refused before
  anything is sent; the device is left as it was found. Hard: controllers that send only what is on
  a menu, cycles that end late, a FIFO with another user, a device found in any mode, transfers cut
  up at boundaries.
* **serprog.** Everything the callers ask reaches the chip, once and in order; a read returns its
  own answer; the device's buffers are not overrun; a session is opened only in step with the
  device. Hard: combining, streaming, late answers, refusals, a line that breaks, a device in the
  middle of something.
* **Mainboard.** The code of a board runs on that board only, untested code and code on a laptop
  only if forced; it drives its own lines and no other. Hard: four sources of what the board is
  (user, coreboot, DMI, PCI cards), any of them missing or wrong; rows of a table that overlap; code
  that runs early and changes what a later check sees; Super I/O chips that stay in configuration
  mode.

## 2. The modules

`X.tla` models a component, `MCX.tla` gives it small constants, `XProofs.tla` holds its theorems
(those of `Layout` are in `CliProofs`, those of the modules behind an `=` sign in the proofs of what
is before it).

| module | models | abstract specification it implements |
|---|---|---|
| `FlashUpdate` | what one `doit()` promises | - |
| `EraseWrite` | the write engine | `FlashUpdate` |
| `Layout` | `layout.c` | (computes the union `EraseWrite` uses) |
| `Lifecycle`, `Programmers`, `Chipsets` | init, shutdown, reversible writes; the calls of the PCI drivers; those of `internal_init()` with each chipset enable | - |
| `Cli` | `cli_classic.c`, probing | - |
| `ChipCall` | what the engine expects of one call of a chip function | - |
| `SpiChips` = `Spi25` + `StatusRegister` | `spi25.c`, `spi.c`; `spi25_statusreg.c` | `ChipCall` |
| `ParallelChips` = `ParallelCommands` + `ParallelLocks` | the writes and erases of parallel chips; their unlock functions | `ChipCall` |
| `Ich` = `IchSpi` + `IchHwseq` | `ichspi.c`: software and hardware sequencing | `ChipCall` (hardware sequencing) |
| `SpiProgrammers` = `SpiMasters` + `SpiAdapters` + `BulkIo` + `SerprogSync` + `Serprog` | one command of eleven masters; six external programmers from init to shutdown; three with reads and writes of their own; the opening of a serprog session; the session | `ChipCall` (`BulkIo`) |
| `Mainboard` = `Internal` + `BoardEnables` (with `SuperIo`) | `internal_init()` and the matching it calls; the code of the board enables and Super I/O probes | - |

The modules fit together along the code's own function pointers. `EraseWrite` treats the chip's
functions as calls that may fail, do a part, or lie; `ChipCall` says the same from the callee's
side, and `Spi25`, `ParallelCommands`, `IchHwseq` and `BulkIo` are shown to implement it.
`EraseWrite!HandleRomentries` is the union that `Layout` shows the loop of `handle_romentries()` to
compute. `Cli` knows `doit()` by its result and by its shutting the programmer down. `Lifecycle` is
driven by the call lists of `Programmers`, one per driver, and of `Chipsets`, `internal_init()` with
each enable. `Spi25` sends commands; `SpiMasters`, `IchSpi` and the SPI operation of `Serprog` say
what becomes of a command on the way to the chip, and their commands are those the chip functions
send.

The five modules after an `=` sign are put together from parts that flashrom uses one at a time: a
behaviour is about one part, a variable says which (`work`, `part`, `mode`, `side`), and the
variables of the others rest. Each part has a module of its own, so that it can be read, and proved
about, alone.

### EraseWrite and FlashUpdate

One behaviour is one `doit()`. `pc` names the call that comes next; `job` holds the operation, `-n`,
`--force` and what `chip_safety_check()` looks at; `oldcontents`, `newcontents`, `curcontents` are
the buffers; `k`, `usable`, `blk`, `starthere` are the loop variables of `erase_and_write_flash()`,
`walk_eraseregions()` and `erase_and_write_block_helper()`. Each call that reaches the chip
(`ReadOld`, `EraseFn`, `CheckErasedRange`, `ChipWrite`, `Reread`, `Recheck`, `VerifyRange`) is one
action, and so is each decision between two of them (`TryEraser`, `BlockHelper`, `BlockDone`, ...),
so a failure can fall between any two. A byte is 0xff, 0x00 or another value: what `need_erase()`
and `get_next_write()` tell apart. `Behaves` is the chip: up to `MaxFaults` times it reports an
error after any part of the effect, or claims a write it did not do (`lied`). The granularity is a
constant, 256 in the code (the helper always passes `write_gran_256bytes`).

`FlashUpdate` has a flash, a goal and an outcome: `verified`, `success`, `untouched`, `emergency`,
each allowed only if it is true. The mapping is at the end of `EraseWrite`.

### Layout

`RegisterIncludeArg`, `ReadRomlayout`, `ProcessIncludeArg` and `HandleRomentries` are one iteration
each of the loops in the functions of these names. `start` is an unsigned int of width `UINT_MAX +
1`, so that `start = entry->end + 1` wraps.

### Lifecycle, Programmers and Chipsets

A driver is a sequence of calls: permissions, opening of an access, reversible writes, saving of a
register, plain writes, registrations, and checks that may fail or leave the process. A register is
a *set of cells*, so writes of 8, 16 and 32 bits overlap. `shutdown_fn` is the stack; a function in
it writes old values, closes accesses or restores what was saved. `Programmers` lists, from the
source, what eleven drivers call in which order.

`Chipsets` does so for `internal_init()` around each enable of `chipset_enable.c`, with the
initialisation of `ichspi.c`, `sb600spi.c` and `mcp6x_spi.c` it leads to, and for the two ITE
enables. An enable is the *set* of the lists its code can go through: configuration locked or not,
strapped to LPC or SPI, a second device present or missing, a write that is not needed. A fatal
failure is a check. Registers written without `rpci_write_*()` and the like are left changed, in the
model as in the code (the index ports of the Super I/O, the decode registers of OSB4 and SB400, the
MSRs of CS5536): the property is about those that are saved.

### Cli

`argv` is consumed option by option as in the `getopt_long()` loop, so the checks that look at
earlier options see what the user's order gives. Then come the steps of `main()`:
`programmer_init()`, `probe_flash()` for each interface and entry of the table, the choice, the
forced read, `check_max_decode()`, `doit()`, `out_shutdown` and `out`.

### Spi25 and StatusRegister

Host and chip are separate: the host sends one command per step, and the chip finishes an operation
in a step of its own (`ChipFinishes`, `ArrayDone`), whenever it likes. A busy or not enabled chip
ignores commands, as the code's own waits and WRENs imply. A byte is one bit wide: programming
clears. A command may fail, with or without having reached the chip. When RDSR fails the code tests
a byte it has not initialised: the model takes either value (`blind`). In `StatusRegister` the
register is a set of bits, the wait is bounded as in the code, and the chip may outlast it.

### ParallelCommands and ParallelLocks

One bus cycle is one step. Each write and erase function is a sequence of cycles, which
`ParallelCommands` keeps in `cycles`, then a wait, then the check, if it has one. With JEDEC
commands the wait reads the toggle bit as the code does, twice, and may reach its limit (`late`).
With Intel's the chip shows its status until the host has told it to show its contents again
(`shows`), and the wait has no limit. A page load ends when a byte is late, even if only the host
was held up, and a program or erase operation may silently not work (`Fail`). Functions that check
nothing (`Unchecked`) are allowed to hide that, no other is.

`ParallelLocks` runs the unlock function of each chip of the table that has one: the registers it
writes, those it reads back, and the two functions for chips whose lock bits a command clears all at
once. Each register starts as it likes (write lock, lock down, read lock), whatever the others hold:
`LockContents` gives the contents a run looks at, and the proofs are for all. Sixteen chips stand for
the shapes of the lock map the table has. That a function comes by at each block it is for is an
assumption on the map, `StopsAssumption`, which TLC evaluates for the sixteen.

### IchSpi, IchHwseq and Ich

The controller and the chip are one process, the host another. `Call`, `IgnorePreop`,
`ReprogramForPreop`, `PairPreop` and `Return` are `ich_spi_send_multicommand()`, which looks at two
commands at a time: if the first is a prefix, it is remembered with the opcode of the second and
goes with it. `Refuse` and `Accept` are the checks of `ich_spi_send_command()` in their order: the
opcode on the menu, or guessed and put there if the menu is not locked (`Reprogrammed`), types,
lengths, address limit. `ScipTimeout`, `Start`, `PollTimeout`, `CycleError` and `CycleDone` are
`ich9_run_opcode()`: the wait for the controller, the cycle, the wait for its end; each wait may
time out while the controller goes on. `chip` records what arrives, with the call it belongs to.
`torn` marks what the code does not guard against: the menu rewritten under a cycle that was given
up. With `told = FALSE`, `IchHwseq` marks the same for a call that begins while an earlier cycle is
in progress, whose end is then taken for its own. `Ich` adds the choice between the two modes.

### SpiMasters, SpiAdapters, BulkIo

`SpiMasters` gives every master the same command of `writecnt` and `readcnt` bytes and lets it do
with it what its `send_command()` does: refuse, fill registers, a FIFO or a packet, move bits, read
back. Only identities of bytes matter. A step of the USB or serial transfer may fail. In `sb600`
another user may read the FIFO between two steps (`other`), which the code detects by the pointer.

`SpiAdapters` is a list of steps per driver, from init over one use to shutdown, any of which may
fail. The Bus Pirate has modes (terminal, raw bitbang, SPI, still taking data) and is found in any
of them; a Dediprog has power that somebody has to take back. Of `pony_spi.c`'s three programmers
SI-Prog and serbang are asked (`PonyInit`: the clock is wired back, and toggled ten times) and AJAWe
is taken on trust (`AjaweInit`): the only one that may be registered with nothing there, and
`UsableIsReady` says so. With an empty `type=` its string is freed twice, and the C library may stop
the program (`FreedTwice`) or not.

`BulkIo` cuts a range at the boundaries the code cuts it at, does the middle by bulk transfer or by
memory access and the rest by SPI commands. `announced` is the count of packets the device was told.
Of 65536 packets, which is a chip of 16 MB written at once, it is told that there are none, as the
count has 16 bits (`MaxCount`), and the driver sends them all the same. What the device does with
them is not known here: `BulkSurplus` lets it transfer them, take them for nothing, or not take part.
`swallowed` records the second, and `told <- ~swallowed` says that the call promises then only what
lies outside its range.
The 256 bytes of a granule are 2, so that a range has a head, a middle and a tail at 8 bytes.

### Serprog

Two processes and a FIFO each way. Host: `serprog_chip_writeb()`, `_readb()`, `_readn()`,
`serprog_delay()`, `serprog_spi_send_command()`, `serprog_shutdown()`, each reduced to the
operations `todo` it puts on the line, with `sp_stream_buffer_op()` collecting answers by its own
counts. Device: takes a command, answers ACK or NAK, keeps its operation buffer, and performs it on
`O_EXEC`. The value written is the number of the write, so a read reveals which writes came before
it. The link may vanish; then the process exits (pc `"died"`), as the code does.

### SerprogSync

Before a session, the device may still be taking parameters of a command of an earlier run (`eats`),
and the line may hold old answers. `sp_synchronize()` sends NOPs, drains, and tries SYNCNOP until it
has read NAK ACK where it looks for them; each answer may come before or after the host stops
waiting for it (`lates`). A byte on the line carries the command it answers, which the host cannot
see and the properties can. Then come the queries of `serprog_init()` with what is done when they
are refused.

### Internal

The steps of `internal_init()` in its order, `pc` naming the next: parameters, permissions,
`cb_parse_table()`, `dmi_init()`, board code of phase P1, `probe_superio()`, phase P2, the laptop
check, `chipset_flash_enable()` row by row, the ITE Super I/O, `board_flash_enable()`. `machine` is
the computer (PCI devices with their cards, DMI strings, chassis, coreboot table, Super I/O chips),
`param` what the user wrote. The two tables are constants: their rows have the fields of the code's,
and the functions that search them are operators. What an enable does to registers is left to
`Lifecycle` and `Chipsets`; here it is recorded in `ran` and `enabled`. Strings of DMI are sequences
of tokens, so that a pattern may match in the middle.

### SuperIo and BoardEnables

Code is a list of steps that touch hardware, made from what the function writes: a key to a
configuration port, the selection of a logical device, a read-modify-write of a register, a check
that ends the function. A Super I/O listens only in configuration mode and to the device selected
last, by whoever that was; a register is the set of its bits. `BoardEnables` has every enable whose
effect is a GPIO line or a bit of a bridge, on the chipsets and Super I/Os of its boards. `Needs`
says which lines have to end up how, from what the enable is called and documented for;
`OnlyItsLines` that nothing else has changed.

## 3. The runs

A run that passes is exhaustive at its bounds. Each of its properties has a mutant: a plausible bug
in one definition, which the property refutes.

| run | question | bounds and why they are enough |
|---|---|---|
| `engine` | only erased bytes programmed, the copy right wherever it is used, retry with another eraser, `doit()` returns, it implements `FlashUpdate` (so the outcome and message are true) | 6 bytes, 3 granules of 2 (a granule can be blank, half, full; a write range can begin, end and have a gap), 4 table slots: two blocks, one without function, whole chip, empty; 17 requests that cover every operation, `--force`, `-n`, test status and missing functions; 2 faults, so a failing retry after a failing try |
| `small_blocks` | `-E` with blocks below 256 bytes | violation, see findings |
| `layout` | union, only what was asked, loop ends | chip of 4 bytes, `UINT_MAX` 7 so that regions leave the chip and wrap, up to 3 lines of 7 kinds, 3 array places with a fourth that must be refused |
| `lifecycle` | registers as found after shutdown, an access outlives its use, everything released, the saved value is the original | the real call lists of the drivers that register in order and of `internal_init()` with each chipset or Super I/O enable, with a failure at each place; and every order of 2 to 4 calls of five kinds on two overlapping cells (enough for a wrong order to show), behind a prefix that leaves 3 of the 8 places of `shutdown_fn[]`, so that it overflows. One bit per register: old or new |
| `every_driver` | the drivers that do not | violation, see findings |
| `cli` | one chip, as asked, exit status, one shutdown | all sequences of up to 3 of 7 options and 13 special ones; a table of 6 entries with the real order at its end (the generic SFDP entry, the opaque chip, which is not generic, the generic vendor entries), 8 sets of interfaces with up to three buses, `MAX_CHIPS` 3 |
| `spi_chips` | commands taken, range and contents, unprotected when 0, other bits kept, unlocks where it can, return | 2 pages of 4 bytes, chunks of 2, 3 (does not divide a page), 8 (larger) and unlimited, every start and length, 2 failures; status register of 5 bits: two protection bits, lock, pin, another; masks with and without the lock and pin, one that leaves out a lock the chip goes by; all enable commands; 2 polls, 1 failure |
| `spi_programmers` | the chip gets what was asked for and the caller its answer; an adapter is used when ready and left as found; a session opens in step; the calls of a session are done once and in order; bulk transfers implement `ChipCall`; all ends | `SpiMasters`: 15 commands on both sides of each limit (4+8 bytes of the FIFO, 16 of a large buffer), bytes of 5 bits, 2 foreign accesses. `SpiAdapters`: 4 zeros for the 20 that open raw mode, up to 5 swallowed bytes. `BulkIo`: 8 bytes, 4 granules, 2 packets, page sizes below, at and above the granule; `MaxCount` 4, so that a write of the whole chip has one packet more than can be announced. `SerprogSync`: 9 devices, 2 NOPs and 2 tries for 8, 4 reads for 10, up to 5 bytes eaten, 2 late answers: each more than one try makes up for. `Serprog`: every sequence of 4 calls; 5 devices with buffers of a few operations; 1 refusal; 3 addresses for a run, a gap and a return |
| `parallel_chips` | the chip listens, retries suffice, every block open, the call does its job and returns | 6 bytes, 2 pages or blocks, 2 tries instead of 16, 3 polls instead of 2^28, 3 operations that fail: more than the tries; 16 chips; on each, all lock registers alike but one, of any two values; where there are at most eight, each after a reset, open or locked down, in any combination |
| `mainboard` | only the right board's code, one chipset, no laptop and no untested code unless forced, no Super I/O lost; each enable drives its lines only, and leaves configuration mode | 14 rows of the board table (nine are the code's own: boards that share PCI IDs and differ by card, name or DMI, and both P2 kinds; five the table could get: a P1 row, an untested P2 row, two of one name, an untested one with a name) and 9 of the chipsets (each result an enable can have), on 9 sets of PCI devices; every chassis answer, coreboot with a right, wrong, or missing record, none to two Super I/Os, every parameter. The enables on the chipset and Super I/O of their boards, and some on others; registers all zeros, all ones, or as the code has to find them; 2 polls for 5000 |
| `untested_board` | what the manual says of untested boards | violation, see findings |
| `ich` | the chip sees what was asked for, with its prefix; reads are own; nothing refused that could be done; a call does its job and returns | every two of 18 multicommands: opcodes on the menu, known, guessed, the block erase that shares its opcode with EWSR; addresses on both sides of the limit; too long; an open menu and 3 locked ones; any cycle late, failed, or given up. Hardware sequencing: every call on 8 bytes in two partitions with blocks of 2 and 4, transfers of 3 |

Deadlock is checked where `Done` is a step; the modules with a chip or a device of their own end
when the call has returned and the other party has nothing left to do, and their configurations say
`CHECK_DEADLOCK FALSE`; that a call returns is there a property of its own (`CallsReturn`, `AllEnd`,
`ImplementsAndReturns`, `Returns`).

### Fairness

There is one thread that does not wait for anything but the calls it makes, and these return. So the
host's steps are weakly fair wherever liveness is asked for. Of the other party only this is
assumed:

* `SpiChips`: the chip finishes a program or erase command (`WF(ArrayDone)`). The code polls without
  a limit, so `CallsReturn` needs it; that is a hazard of its own. Of a write to the status register
  nothing is assumed: that wait is bounded.
* `ParallelChips`: a page that is loaded starts, and a chip with Intel commands finishes, well or
  not, since the wait for its status has no limit. Of a chip with a toggle bit nothing is assumed.
* `SpiProgrammers`: the two devices with a protocol answer each command they get (the code blocks in
  `read()`); a line that breaks wakes the host. No failure has to happen. What still may not end is
  named: a foreign access of the FIFO between its reset and the wait for it (`CommandOver`), and two
  states of the Bus Pirate (`AdapterOver`).
* `Ich`: nothing. Each wait has a time-out, which is a step of the host, and the controller may
  never finish.
* `Cli`, `Mainboard`, `Lifecycle`: no run asks for liveness. Their loops are bounded.
* Proofs need no fairness.

## 4. The theorems

Each is stated for every value of the constants that satisfies the module's named assumption.

**`EraseWriteProofs`**: `Typing`, `CopyRight`, `WritesSafe`, `EachEraserTried`. The invariant `IInv` has, besides types
(the block the walk is at belongs to the eraser in use) and `CopyIsRightAhead`, two parts that make
it inductive. `StartsRight`: the buffers the engine starts from are what `doit()` has read, or the
zeros with which `-E` pretends that everything needs an erase. `BlankAhead`: while a block is
written, the copy says of all that is still to be written in it that it is erased. "Ahead" depends
on `pc`: from `starthere` on within a block, from the next block on after a failure, everything
before a new eraser is tried, because the reread comes in between. `WritesSafe` follows: what the
copy calls erased and is ahead is erased on the chip. For `EachEraserTried`, `RetryInv` says that
`usable` counts the erasers whose turn has not come, and that each whose turn is over has had a
fault of its own: so a write is given up after as many faults as the chip has usable erasers, or
when the read between two of them fails.

Its second part is `VerdictsTrue`, the refinement of `FlashUpdate`: what `doit()` says in the
end is true of the chip. `VerdictInv` says that nothing is touched before the engine starts
(`Untouched`), that behind the walk everything is as wanted unless the chip has lied about a write
(`BehindIsRight`), and that an erase, which has no verification after it, never depends on a write.
The lies are caught by the verification, so they spoil no verdict. It takes one assumption,
`WholeGranules`: no block is cut by a granule of 256 bytes. Without it a block is left as it was and
called erased; that is the finding `small_blocks`, and the chip it is about is the one of the table
that lacks it.

**`SpiChipsProofs`**, in three parts. Of `Spi25`: `CallObeyed` and `CallRefines`, the refinement of
`ChipCall` by every call of a chip function. The inductive invariant `CallInv` has six parts:
`CallTypes`; `OnTheWay`, that what is still to be sent is one of the groups of commands the
functions make up, all within a page of the job; `Walk`, where the loop is between the start and the
end; `Confined`, that no byte outside the call has changed; `ChipReady`, that at the points where a
command goes out the chip is neither busy nor in the wrong mode, unless a command was lost or a wait
was blind; and `DoneSoFar`, that what the loop has passed is as asked, again unless a loss explains
it. The last is what makes "0 means all of it" follow. It needs the arithmetic of the chunks
(`ChunkFacts`: no chunk crosses a page, whatever the page and chunk sizes).

Of `StatusRegister`: `Typing`, `Unprotected`, `MasksOnly`, and both together as `ProtectionGone`.
What is written derives from what was read first (`Derived`), and at the points where the function
tests the register the chip is idle and the status is the register, unless RDSR has failed
(`Settled`). `Unlocked` says that it succeeds where it can: `UnlockInv` adds what a write without a
failure has done to the register at each `pc`. The proof attempt showed that this depends on the
table: a chip that locks its protection bits by a bit of its register must have that bit in the
mask (`DescribedRight`). The run has chips that do and chips that do not.

Of both: `ChipsSafe`, for the composition the run checks.

**`ParallelChipsProofs`**, also in three parts. Of `ParallelCommands`: `Listens`, `Suffice` and
`CallRefines`. The inductive invariant `CommandInv` has seven parts: `CommandTypes`; `Walk`, where
the loop is; `OnTheWay`, that what is still to be sent is the end of the command at hand; `Confined`,
that nothing the chip is about to do touches another byte than the command's; `WaitsFor`, when the
chip may be busy and show its status; `OnTrack`, that what the chip has heard of the command is what
the host has sent of it, unless a byte was late, a cycle was not seen or an operation has failed; and
`DoneSoFar`, that what the loop has passed is as asked. That the chip cannot take one command for
another is `CommandsApart`, and what it makes of each code is `Hearing`. For `Suffice`, the tries a
byte or page has cost are counted by the failures.

Of `ParallelLocks`: `LocksInv` says that each block the function has passed is open, or that the
function does not look at it, or that `ret` or `need_unlock` has counted it. `NextStop` is where
`StopsAssumption` is used: no block lies between two stops. Of both: `ChipsSafe`, and `ChipsRefine`,
the refinement of `ChipCall` by the composition.

**`IchProofs`**, in three parts. Of `IchHwseq`: the inductive invariant `HwInv`. `HwWalk` says where
the call is, `HwConfined` that a cycle in progress concerns only bytes of the call, `HwChunk` that,
if no earlier cycle was in the way, a cycle in progress is the one for the chunk the host waits for
and that "done" without "error" means this chunk is done, and `HwPassed` that what the loop has
passed has been read, or is as it should be. The numbers are those of any chip: sizes of the
partitions, of their blocks and of a transfer (`BlockFacts`, `ChunkFacts`).

Of `IchSpi`: the inductive invariant `SwInv`. `Seen(n, j)` says that the chip has received the first
j commands of call n, in their order, once, and no other of that call. The parts of the invariant:
`SwTable`, that on a menu that is not locked the type of each opcode is the one any call guesses for
it; `SwWalk`, what is left of the call; `SwHeld`, that a prefix that is kept back is the last
command passed and marked at the opcode of the next one, and that nothing is marked between calls;
`SwSeen`, that the chip has seen what the host has passed (but for the prefix kept back), and, while
the host waits, that the cycle in progress is `Pending`, about to send the prefix or the command at
hand, or has sent it and holds the answer to it; `SwChip`, the same of a cycle of an earlier call,
unless the menu was rewritten under it; `SwReason`, why a call has failed. That an answer is to its
own command holds even then: the host starts a cycle only when there is none, and the menu is not
rewritten until it has ended or was given up.

Of both, for the composition: `CommandsReachTheChip`, `AnswersAreOwn`, `NothingRefused`, and
`HwCallRefines`, the refinement of `ChipCall` by a call in hardware sequencing.

**`InternalProofs`**: `Typing`, `LaptopForced`, `UntestedForced`, `BoardIsRight`, `ChipsetOnce`,
`AllFound`, and `UntestedForced`, `BoardIsRight`, `ChipsetOnce` together as `CodeIsRight`. The invariant has four parts besides types: `EarlyParts`,
that nothing has run before its turn; `LaptopKnown`, that until the laptop check `is_laptop` is what
the chassis says unless a row of an earlier phase that matches has changed it; `ChipsetPending`,
that as long as the loop goes on looking each enable that ran has said NOT_DONE_YET; and that each
board code that ran was allowed to (`MayRun`). The lemma on the least row says that the search
returns a row that matches. So these hold whatever the tables contain. `AllFound` needs three places
in `superios[]`, as the code has: four probes of two ports find four times only if each chip is found
twice, and the place of each finding in the list (`FourProbes`) shows that the fourth is then one of
the two that are there already.

**`CliProofs`**: `Typing`, `StatusTrue`, `OneChip`, `AsAsked`. `WayInv` follows the ways out of
`main()`: the status is 0 on those only where the operation asked for was done, and the programmer
is on exactly between its init and its shutdown. `ProbeInv` says of each answering entry that the
probing has passed that it is in `flashes[]`, or is a generic one on an interface where another was
found before, or `flashes[]` is full; as two chips fit there, exactly one found means exactly one
that could be. `AskedInv` relates the option variables to the options parsed so far.

Its second part is about `Layout`: `LayoutTyping`, `UnionTaken`, `AskedTaken`. The loop invariant:
below `start`, `newcontents` is the merge; from `start` on it is the image. The lemma
`NothingSkipped` shows that no included byte lies between two steps of the loop. For `AskedTaken`,
`ArgsInv` says that the entries included so far are the first of each name among the arguments
looked at so far.

Its third part is about `Lifecycle`: `LifeTyping`, `AccessLasts`, `OriginalSafe`, `Restored`,
`Released`. The invariant says that
an access opened is closed by no function above a function that needs it (this uses `InOrder`, that
a driver registers the closing first and saves a register, if it does at all, before it writes it
plainly; atahpt and drkaiser are the finding), and that for each cell the oldest undo that writes it
holds the original value. Popping the newest keeps this, so the registers are as before when the
stack is empty. `Released` does without the order: `RegisteredRun` says of each function `init()`
has registered that it is still in the stack, or has run, and then what it closes is closed and what
it resets is reset, which no undo that runs later changes (`UndosApart`).

**`SpiProgrammersProofs`**, in four parts. Of `BulkIo`: `BulkImplements`, the refinement of
`ChipCall`. `BulkInv` has five parts: `BulkTypes`; `BulkAtUnit`, that in the aligned middle of the
range the call is a whole number of units from its beginning; `BulkCounted`, that the device has been
told of as many packets as are still to come, if they fit their count (`BulkFits`), so that only a
call of more can find it at none (`BulkSurplus`); `BulkPassed`, that the bytes passed are in the
buffer, or programmed, unless a packet was swallowed; and `BulkVerdict`, that 0 means the end was
reached without a loss, and that an error has a loss, or the driver's own limit, for its reason. The
arithmetic of the middle (`Quotient`: what lies within a unit above a multiple of it) holds for
units of any size.

Of `SerprogSync`: `SerprogSessionOpens`. `SyncInv` has five parts besides types: `SyncLooking`, that
a device that is looked for has been sent nothing but NOPs, so nothing on the line says "version 1";
`SyncFirst`, that the query for the version is the last thing that was sent before its answer is
believed, and that only this answer, as its last two bytes, says so: whoever reads it has therefore
read all there was; `SyncInStep`, that from then on there is one command or its whole reply on the
line and the device takes no more parameters; `SyncOwed`, that what the device is to be told and set
up with has been done or is still among the queries; and `SyncClean`, how a device answers that is
there, idle and in time, at each `syncpc`. It needs `Scans > Nops`: the ACKs of the NOPs must all be
passed before the scan ends.

Of `SpiMasters`: `CommandsIntact`, for every master, every length of command and answer, and bytes
of any number of bits. `TransfersIntact` speaks of the end of a command; `MastersInv` says of each
master what is where before that. `Ft2232Inv`, `DediprogInv`, `BuspirateInv`, `It87Inv` and
`WbsioInv` have one or two places to speak of. `It85Inv` counts the bytes shifted. `BitbangInv`
writes the count of bits as `q` bytes and `r` bits and says of both what has arrived, of the byte
under way each bit by itself; `ByteOfBits` puts them together when the eighth has come, and what is
read grows by a bit at a time (`BitJoins`), because a byte is its own right shift by 0 and each
shift by one more halves it (`Shifts`). Shifts and sums of bits are recursive functions, and their
induction goes over lists of the partial results (`Halves`, `Doubles`), with the least number for
which none would exist (`Climb`). `Sb600Inv` cannot say that the FIFO holds what the driver
believes: another user may move its pointer at any time. It says that this is so *if* the pointer is
where the driver expects it, that the pointer is off by at most `other` accesses (`Drifted`), and
that fewer than eight are not the same as none (`Drifting`); `sb600_spi_send_command()` looks at
the pointer after each part, so what it goes on with is right.

Of `SpiAdapters`: `AdaptersStayInStep`, with `AdaptersInv`. Neither half of `AdaptersInStep` is
inductive: that a registered programmer is ready follows from what the earlier steps of its `init()`
have done, and that a device is left as it was found from the way its `shutdown()` went. For the
dediprog, ft2232, linux_spi, SI-Prog and AJAWe adapters, `PlainInv` says of every entry of the list that is
passed what it has achieved (`PastEntry`), and in shutdown what it has undone (`Undone`). The Bus
Pirate's list says less: what the device does with a byte depends on its mode, which the driver can
only guess from what it reads. `PirateInv` therefore ties what is on the line to the mode: before
anything else is looked for, and whenever shutdown may begin, a `BBIO` on the line that nobody has
read means that the device is in raw bitbang mode and takes nothing for data (`Truthful`); a `BBIO`
on the line is followed by its `1`, so that reading both leaves no half of it; and nothing has said
`SPI` before the device was asked for it. While the noise of a terminal may still be in front of
"irate", or of "SPI", it is only what comes after that word that counts (`NoneAfter`). From the
answer to the request for SPI on, `PirateInit` gives the mode and the settings place by place. The
proof holds for every number of zeros that takes a terminal to bitbang mode, and for a device that
is found in any mode, with any amount of data still to take. The lemmas about `WaitForString` take the least
place at which the string stands (`WellFoundedInduction`).

**`SerprogProofs`**: `SerprogDelivers`. `Delivered` compares what the callers asked for with what has
become of it, wherever that is now: in the bytes the driver holds for a combined write, in its list,
on the line, in the device's operation buffer, or done. `SerprogInv` therefore follows each thing on
this way (`OnTheWay`). What it has besides types and the parts of `Delivered` itself:

* `HostFits`: bytes are held only while writes are being combined.
* `TodoEnds`, by `TodoShape`, the form of the driver's list at every moment: a command comes after a
  flush and before its ACK, data after one of the two, no operation for the buffer and no `O_EXEC`
  comes after something that is waited for, and a read is always waited for.
* `Flow`: the driver waits for a command's answer only when all streamed operations have been answered
  and nothing is held or stored; an `O_EXEC` in the list has a flush behind it; and a NAK that is not
  read yet is on the line.
* `Pipeline`, where on the way the operation buffer is executed: there is an `O_EXEC` between an
  operation and a read that comes after it (`Settled`), no operation is stored behind a read
  (`NoneBehind`), and when `sp_opbuf_usage` is 0 the buffer will be empty (`Drained`).
* `Accounted`, unless a NAK is on the line: what has been read, what is on the line and what the
  commands on their way will bring are together what the caller is owed, given everything that was
  issued before.
* `AckAlone`: a command that is waited for is alone on the line, or its reply is.

What a stream does to the chip is a concatenation over its commands (`AllEffects`). What the proof
needs of that are three facts for sequences of any length, `FlatMapConcat`, `FlatMapFirst` and
`FlatMapNone`. They are proved from the definition of `FlattenSeq` with the natural numbers being
well-founded: the least prefix for which a fact failed is looked at (`LeastIndex`, `Climb`). The last content of an address
(`Content`) is that of the greatest index that writes it. `SessionInv` carries it all over to the
composition: the other programmers leave the session alone.

Assumptions, each where the code gives it:

* `EraserAssumption`: the blocks of a chip add up; `selfcheck_eraseblocks()`.
* `WholeGranules` in `EraseWriteProofs`: see above; all chips of the table but one.
* `CliAssumption`: two chips fit `flashes[]` (the code has places for three), and no argument of an
  option is the mark for "no argument". Generic entries may stand anywhere in the table.
* `InOrder` in `Lifecycle`: see above; checked for each driver by the runs. `Tidy`: only shutdown
  functions close something and `release_io_perms()` nothing but the port I/O, and they reset what
  the driver has set; part of `LifecycleAssumption`, so evaluated for each driver and each order.
* `LayoutAssumption`: regions begin within the chip or right behind it. For one that begins further
  on, the second `memcpy()` of `handle_romentries()` is given more bytes than the buffers have, and
  what happens then is not modelled. Where regions end is free.
* `StatusRegisterAssumption`: the masks in the table fit the chip.
* `Spi25Assumption`, `JedecAssumption`: the engine writes multiples of 256 bytes, pages have 128 or
  256, AAI writes have two bytes at least and end at an even address, the page of a chip with AAI is
  even, erases are whole blocks; in `ParallelCommands`, the
  engine has erased what the write has to set (`Prepared`).
* `InternalAssumption`: the tables are tables: phases, test states and results are those of the
  code's types.
* `SerprogAssumption`: the operation buffer holds the largest single operation; `serprog_init()`
  assumes 300 bytes if the device does not say. `SyncAssumption`: more bytes are scanned than NOPs
  were sent and SYNCNOP is tried at least once, as in the code; a device refuses neither NOP nor the
  query for the interface version (the protocol has no NAK for them); and what is left on the line
  from an earlier session does not look like the answer to that query. Without the last the driver
  believes it, as nothing tells it from one.
* `CallsAssumption`: what the calls of the chip functions and the menus are made of: the opcodes of
  the program's own menu are opcodes; a prefix opcode (WREN, EWSR) that another command follows is a
  whole command, while the last of a call may have an address, as the block erase with 0x50 has
  (`spi_block_erase_50()`: 0x50 is EWSR), which is sent alone; of a call's commands only the first
  may be one of two prefixes in a row; an opcode of which the type must be guessed is guessed alike
  wherever it is used (a call for which no type fits is refused, and is no exception); and no command
  has 256 bytes of data or more, as `run_opcode()` takes their number as a byte (`Carried`) and would
  send fewer. Without the last but one, `reprogram_opcode_on_the_fly()` would leave a type on the
  menu that refuses the next call.
* `Aligned`, for `NothingRefused` only: the upper partition begins at a multiple of its blocks' size.
  `ich_hwseq_probe()` reports a layout without a look at this, and `ich_hwseq_block_erase()` refuses
  the blocks if it is not so.
* `MastersAssumption`: a command has at least its opcode; the numbers that stand for bytes fit a
  byte; and another user of the FIFO of the SB600 comes by at most seven times in one command.
  The pointer has three bits: eight times look like none to the driver, whose check
  (`compare_internal_fifo_pointer()`) says no more either.
* `BulkAssumption`, `PartitionsAssumption`, `LockAssumption`: the chip is a multiple of a packet, of
  any size; partitions are whole blocks; a chip's lock blocks begin within it, and their registers
  have the bits that registers of its kind have, in any combination.
* `StopsAssumption`: from each address where an unlock function comes by it goes on to the next one,
  with no block it is for in between; a fact of the lock map and the strides in the code.

Not proved, only checked: liveness, which stays with TLC; and `ItsLines` and
`LeavesConfigurationMode` of `BoardEnables`, which are about the given programs of the boards, each
of them run from every state. They hold for a board wired as the table of boards says, and not for
any other (on a board with a Winbond chip, `it8707f_write_enable()` opens it with the key that both
makers use and does not close it), so that a theorem would have to assume that table row by row. The
type invariants of `EraseWrite`, `Layout`, `Lifecycle`, `Cli`, `StatusRegister` and `Internal` are
proved and no run repeats them.

## 5. Findings

Three runs state what the repository says of the code and are violated:

1. `small_blocks` (bug): a chip with erase blocks below 256 bytes (SST28SF040A) is not erased by
   `-E`, which returns 0.
2. `every_driver` (bug): atahpt and drkaiser make a reversible write before they register the
   closing of the access, so the undo runs on freed data.
3. `untested_board` (documentation): the manual tells the user to try a board with untested code
   without parameters first; `internal_init()` then fails, and nothing can be probed.

Seen while modelling, with no run of their own, because they concern what the properties leave out,
or excuse in so many words:

* Engine and program: the manual says that the copy of the contents is updated along with each
  write, which it is not until the block is done (`CopyIsRightAhead` shows that the engine is right
  nevertheless); the result of `unlock()` is ignored (`flashrom.c:1834`); `read_romlayout()` reads
  on for ever after a read error; `physmap()` leaves the process.
* SPI chips: the last byte of an AAI write of odd length is lost with return 0, which no present
  caller asks for; if the command that starts an AAI write fails, the chip may be left in AAI mode
  (a FIXME there says so); `spi_block_erase_50()` and `spi_block_erase_81()` send no WREN.
* Dediprog: `dediprog_spi_bulk_write()` refuses a chunk size other than 256 before it looks whether
  there is anything to write, so that a write to a chip of another page size writes everything and
  then reports an error, although the comment of its caller says that all is then written as residue
  (`Refused` in `BulkIo`). A bulk of 65536 packets is announced as 0 (`BulkSurplus`). The LEDs are
  switched before the firmware's version is known. Shutdown keeps the USB device if the voltage
  cannot be switched off.
* Bus Pirate: shutdown sends one 0x00 and waits for an answer for ever if the device has gone back
  to its terminal or takes the byte for data.
* Others: `ft2232_spi.c` has no shutdown function; `pony_spi.c` leaves the port open on a failure,
  frees its argument twice if it is empty, and does not look whether an AJAWe is there; `mcp6x_spi.c` takes the clock to be low when it is
  granted the bus, and waits for that without a limit; the reset loop of `sb600spi.c` waits for
  pointer 0 without another reset, and interference is seen only modulo 8; `it87spi.c` writes the
  opcode register for a page while the WREN may still be going out; `wbsio_spi.c` has no form for a
  command of 1 + 3 bytes (RDID).
* serprog: an old "NAK ACK NAK ACK" on the line, while the device still takes parameters, makes
  `serprog_init()` wait for ever (kept out of `Stale`); `tcflush()` does nothing for `ip=`;
  `sp_stream_buffer_op()` sends before it tests the device's serial buffer; the operation buffer is
  checked after the byte has joined the combined write, so with a buffer of 13 bytes 14 are sent.
* ICH: the menu is rewritten without a look at the cycle in progress (`torn`); hardware sequencing
  starts without that look, too, so that a late "done" is taken for the next (`told`); the address
  limit is not applied to guessed opcodes of the type without an address; a failing guess behind a
  prefix would write `opcode[-4]` (no caller gets there); the SFDP read, with five bytes to write,
  fits no form and is refused.
* Mainboard: a coreboot table without a mainboard record leaves `lb_vendor` unset although a comment
  in `cbtable.c` says otherwise, and `mainboard=` then compares with a null pointer (`Internal` ends
  in `"crashed"`); the untested code of phase P2 is refused without a word to the caller, which does
  not look at the result; the ITE probe's key opens SMSC chips, which its exit does not close;
  `it87spi_probe()` leaves configuration mode open if `it87spiport` is wrong; `intel_ich_gpio_set()`
  reads `base + 30` and `base + 40`, decimal, where it means 0x30 and 0x40; `it8712f_gpio31_raise()`
  raises line 32; the GPIO functions do not check that there is an I/O base, nor all of them that
  the device they look up is there; `winbond_gpio_set()` works at its fixed port.
* Parallel chips: the small blocks of M50FLW040A/B, M50FW002, M50LPW116 and LHF00L04 are not all
  unlocked (`gap`); `unlock_28f004s5()` returns while the chip still clears its bits; a write by the
  byte that succeeds at the last of 16 tries is reported failed.

## 6. What is not modelled

* `flashchips.c` as a whole, printing, logging, `print_wiki.c`: data and output. The runs take chips
  of each kind from the table.
* `sfdp.c` and `dummyflasher.c`: planned, see below. The chips of `Spi25` and `StatusRegister` stand
  where the dummy does.
* The delays (`udelay.c`): nothing measures time; a wait may be too short or long enough.
* How the PCI cards access the chip (a register for the address, one for the data), and the printing
  of what is locked.
* `ich_descriptors.c`, the access permissions printed by `handle_access_permissions()` and `util/`:
  printing, and separate programs. VIA's variant of the ICH registers.
* `it85spi.c`'s conversation with the keyboard controller; `serial.c`'s settings of the line.
* The records of the coreboot table: `Internal` takes what they say. Processors other than x86.
* Probe functions of chips: one exchange whose bytes are compared; in `Cli` a probe answers or does
  not.
* The `-V`, `-o`, `-z` options. `read_romlayout()` after a read error (hazard without a property).
* `exit(1)` within chip accesses (serprog, physmap) ends the model as it ends the process; the
  hardware stays as it is then.

## 7. Plan

Done, in this order, the most important first: `EraseWrite` with `FlashUpdate`, `Layout`,
`Lifecycle` with `Programmers` and `Chipsets`, `Cli`, `SpiChips` with `ChipCall`, `Serprog`,
`ParallelChips`, `Internal`; then `SpiProgrammers`, `Mainboard`, `Ich`; the eight modules of proofs (section 4).

Next:

1. `Sfdp`: the tables' parser; its result passes what `selfcheck_eraseblocks()` demands.
2. `SelfCheck`: `selfcheck_eraseblocks()` as the source of `EraserAssumption`.
3. `DummyFlasher` as a second chip; the handshake of `it85spi.c`; the access permissions of
   `ichspi.c` as what lets a cycle fail.
