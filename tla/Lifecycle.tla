----------------------------- MODULE Lifecycle ------------------------------
(***************************************************************************)
(* The life of a programmer: programmer_init() runs the driver's init      *)
(* function, which opens accesses to the device, registers shutdown        *)
(* functions and makes reversible register writes; programmer_shutdown()   *)
(* runs what was registered, last in first out.                            *)
(*                                                                         *)
(* A driver is the sequence of the calls its init function makes. A cell   *)
(* is what a register write touches; two writes overlap if they share one. *)
(***************************************************************************)
EXTENDS Integers, Sequences

CONSTANTS
  Cells,             (* cells of the device's registers                     *)
  Val,               (* their values                                        *)
  Off,               (* the value that disables what a driver enables       *)
  Accesses,          (* ways to the device: port I/O, PCI access, mappings  *)
  SHUTDOWN_MAXFN,    (* length of shutdown_fn[] (32)                        *)
  PROGRAMMERS_MAX,   (* length of registered_programmers[] (4)              *)
  Drivers            (* the init functions                                  *)

Calls == {"rget_io_perms", "pci_init", "pcidev_init", "physmap", "rwrite", "rval",
          "write", "set", "register_shutdown", "register_programmer", "bitbang_spi_init", "check"}

(* access: what the call opens or goes through. cells: what it writes.      *)
(* keep: the driver itself saves what "set" overwrites. For the function    *)
(* "register_shutdown" registers: needs, closes, and the cells it resets.   *)
Call == [call : Calls, access : SUBSET Accesses, cells : SUBSET Cells, keep : BOOLEAN,
         closes : SUBSET Accesses]

CellsOf(d, calls) == UNION {d[n].cells : n \in {m \in DOMAIN d : d[m].call \in calls}}
Reversible(d) == CellsOf(d, {"rwrite", "rval"})
Touched(d) == CellsOf(d, {"rwrite", "rval", "write", "set"})

(* Only shutdown functions close something, release_io_perms() the port I/O *)
(* and nothing else; and they reset what the driver has set, not what is    *)
(* undone automatically.                                                    *)
Tidy(d) ==
  \A n \in DOMAIN d :
    /\ \/ d[n].call = "register_shutdown"
       \/ d[n].call = "rget_io_perms" /\ d[n].closes \subseteq {"io"}
       \/ d[n].closes = {}
    /\ d[n].call = "register_shutdown" => d[n].cells \subseteq Touched(d) \ Reversible(d)

ASSUME LifecycleAssumption ==
  /\ Off \in Val
  /\ SHUTDOWN_MAXFN \in Nat /\ PROGRAMMERS_MAX \in Nat
  /\ Drivers \subseteq Seq(Call)
  /\ \A d \in Drivers : Tidy(d)

VARIABLES
  driver,                       (* the init function of the programmer      *)
  pos,                          (* the call it makes next                   *)
  phase,
  shutdown_fn,                  (* what programmer_shutdown() has to call   *)
  may_register_shutdown,
  registered_programmer_count,
  open,                         (* the accesses that are open               *)
  regs,                         (* the device's registers                   *)
  own,                          (* what the driver will put back itself     *)
  original,                     (* history: the registers before flashrom   *)
  unsaved                       (* history: cells whose undo was refused    *)

lifeVars == <<driver, pos, phase, shutdown_fn, may_register_shutdown,
          registered_programmer_count, open, regs, own, original, unsaved>>

(* shutdown_fn[]: a driver's function, or an undo with the saved data.      *)
ShutdownFn == [undo : BOOLEAN, needs : SUBSET Accesses, closes : SUBSET Accesses,
               cells : SUBSET Cells, data : [Touched(driver) -> Val]]

LifeInit ==
  /\ driver \in Drivers
  /\ pos = 1 /\ phase = "start"
  /\ shutdown_fn = << >> /\ may_register_shutdown = FALSE
  /\ registered_programmer_count = 0
  /\ open = {}
  /\ regs \in [Touched(driver) -> Val]
  /\ own = regs /\ original = regs
  /\ unsaved = {}

-----------------------------------------------------------------------------
(* programmer_init() *)
ProgrammerInit ==
  /\ phase = "start"
  /\ may_register_shutdown' = TRUE
  /\ phase' = "init"
  /\ UNCHANGED <<driver, pos, shutdown_fn, registered_programmer_count, open, regs, own,
                 original, unsaved>>

At(calls) == phase = "init" /\ pos \in DOMAIN driver /\ driver[pos].call \in calls
This == driver[pos]

(* init() returns 1: main() goes on to programmer_shutdown(), which first   *)
(* forbids to register more.                                                *)
InitFails == phase' = "shutdown" /\ may_register_shutdown' = FALSE /\ pos' = pos
Goes == phase' = phase /\ may_register_shutdown' = may_register_shutdown /\ pos' = pos + 1

(* Mutant: what is registered last runs last.                               *)
RegistersLast(fn) ==
  shutdown_fn' = IF Len(shutdown_fn) >= SHUTDOWN_MAXFN THEN shutdown_fn
                                                       ELSE <<fn>> \o shutdown_fn

(* register_shutdown() *)
Refuses == Len(shutdown_fn) >= SHUTDOWN_MAXFN \/ ~may_register_shutdown
Registers(fn) == shutdown_fn' = IF Refuses THEN shutdown_fn ELSE Append(shutdown_fn, fn)

Function(call) == [undo |-> FALSE, needs |-> call.access, closes |-> call.closes,
                   cells |-> call.cells, data |-> regs]
Undo(call) == [undo |-> TRUE, needs |-> call.access, closes |-> {},
               cells |-> call.cells, data |-> regs]

(* rget_io_perms(): no privileges, or release_io_perms() is registered.     *)
RgetIoPerms ==
  /\ At({"rget_io_perms"})
  /\ \/ InitFails /\ UNCHANGED <<open, shutdown_fn>>
     \/ /\ Goes
        /\ open' = open \cup This.access
        /\ Registers(Function(This))
  /\ UNCHANGED <<driver, registered_programmer_count, regs, own, original, unsaved>>

(* pci_init() in internal_init() *)
PciInit ==
  /\ At({"pci_init"})
  /\ Goes
  /\ open' = open \cup This.access
  /\ UNCHANGED <<driver, shutdown_fn, registered_programmer_count, regs, own, original, unsaved>>

(* pcidev_init() and physmap() leave the process if they fail; what was     *)
(* registered is then never run.                                            *)
OpenDevice ==
  /\ At({"pcidev_init", "physmap"})
  /\ \/ /\ phase' = "exited"
        /\ UNCHANGED <<pos, may_register_shutdown, open>>
     \/ Goes /\ open' = open \cup This.access
  /\ UNCHANGED <<driver, shutdown_fn, registered_programmer_count, regs, own, original, unsaved>>

(* The cells some undo that is registered will put back.                    *)
SavedCells == UNION {shutdown_fn[n].cells : n \in {m \in DOMAIN shutdown_fn : shutdown_fn[m].undo}}

Write(cells) ==
  \E data \in [cells -> Val] :
    regs' = [c \in DOMAIN regs |-> IF c \in cells THEN data[c] ELSE regs[c]]

(* register_undo_*_write(): the data is saved before the write; that        *)
(* register_shutdown() may refuse is not looked at.                         *)
Saves ==
  /\ Registers(Undo(This))
  /\ unsaved' = IF Refuses THEN unsaved \cup (This.cells \ SavedCells) ELSE unsaved

(* Mutant: what is saved is the value just written.                         *)
ReversibleWriteSavesLate ==
  /\ At({"rwrite"})
  /\ Goes
  /\ Write(This.cells)
  /\ Registers([Undo(This) EXCEPT !.data = regs'])
  /\ UNCHANGED <<driver, registered_programmer_count, open, own, original, unsaved>>

(* rpci_write_*(), rmmio_write*(), rmmio_le_write*()                        *)
ReversibleWrite ==
  /\ At({"rwrite"})
  /\ Goes
  /\ Saves
  /\ Write(This.cells)
  /\ UNCHANGED <<driver, registered_programmer_count, open, own, original>>

(* rmmio_val*(): only saves.                                                *)
ReversibleVal ==
  /\ At({"rval"})
  /\ Goes
  /\ Saves
  /\ UNCHANGED <<driver, registered_programmer_count, open, regs, own, original>>

(* A plain write: to a register rmmio_val*() has saved, or one the program  *)
(* leaves changed.                                                          *)
PlainWrite ==
  /\ At({"write"})
  /\ Goes
  /\ Write(This.cells)
  /\ UNCHANGED <<driver, shutdown_fn, registered_programmer_count, open, own, original, unsaved>>

(* A write the driver's own shutdown function takes back.                   *)
SetByHand ==
  /\ At({"set"})
  /\ Goes
  /\ own' = [c \in DOMAIN own |->
               IF c \notin This.cells THEN own[c] ELSE IF This.keep THEN regs[c] ELSE Off]
  /\ Write(This.cells)
  /\ UNCHANGED <<driver, shutdown_fn, registered_programmer_count, open, original, unsaved>>

(* if (register_shutdown(...)) return 1;                                    *)
RegisterShutdown ==
  /\ At({"register_shutdown"})
  /\ Registers(Function(This))
  /\ IF Refuses THEN InitFails ELSE Goes
  /\ UNCHANGED <<driver, registered_programmer_count, open, regs, own, original, unsaved>>

(* register_programmer() *)
CountProgrammer ==
  registered_programmer_count' =
    IF registered_programmer_count >= PROGRAMMERS_MAX THEN registered_programmer_count
                                                      ELSE registered_programmer_count + 1

(* register_par_programmer(): its return value is not looked at.            *)
RegisterProgrammer ==
  /\ At({"register_programmer"})
  /\ Goes
  /\ CountProgrammer
  /\ UNCHANGED <<driver, shutdown_fn, open, regs, own, original, unsaved>>

(* bitbang_spi_init(): refuses a master without a callback, or registers.   *)
BitbangSpiInit ==
  /\ At({"bitbang_spi_init"})
  /\ \/ InitFails /\ UNCHANGED registered_programmer_count
     \/ Goes /\ CountProgrammer
  /\ UNCHANGED <<driver, shutdown_fn, open, regs, own, original, unsaved>>

(* A check of the device or of a parameter may make init() return 1.        *)
Check ==
  /\ At({"check"})
  /\ InitFails \/ Goes
  /\ UNCHANGED <<driver, shutdown_fn, registered_programmer_count, open, regs, own, original,
                 unsaved>>

(* init() returns 0; main() probes, and doit() works on the chip.           *)
InitSucceeds ==
  /\ phase = "init" /\ pos > Len(driver)
  /\ phase' = "work"
  /\ UNCHANGED <<driver, pos, shutdown_fn, may_register_shutdown, registered_programmer_count,
                 open, regs, own, original, unsaved>>

(* The work on the chip uses the registers rmmio_val*() has saved for it.   *)
Work ==
  /\ phase = "work"
  /\ Write(CellsOf(driver, {"rval"}))
  /\ phase' = "shutdown" /\ may_register_shutdown' = FALSE
  /\ UNCHANGED <<driver, pos, shutdown_fn, registered_programmer_count, open, own, original,
                 unsaved>>

-----------------------------------------------------------------------------
(* One call of the loop in programmer_shutdown().                           *)

Top == shutdown_fn[Len(shutdown_fn)]
Pops == shutdown_fn' = SubSeq(shutdown_fn, 1, Len(shutdown_fn) - 1)

(* undo_pci_write(), undo_mmio_write(): through an access that was closed   *)
(* nobody knows whether the write arrives.                                  *)
RunUndo ==
  /\ phase = "shutdown" /\ shutdown_fn # << >> /\ Top.undo
  /\ \/ regs' = [c \in DOMAIN regs |-> IF c \in Top.cells THEN Top.data[c] ELSE regs[c]]
     \/ ~(Top.needs \subseteq open) /\ regs' = regs
  /\ Pops
  /\ UNCHANGED <<driver, pos, phase, may_register_shutdown, registered_programmer_count, open,
                 own, original, unsaved>>

(* Mutant: the function does not take back what the driver set by hand.     *)
RunFunctionForgetful ==
  /\ phase = "shutdown" /\ shutdown_fn # << >> /\ ~Top.undo
  /\ open' = open \ Top.closes
  /\ Pops
  /\ UNCHANGED <<driver, pos, phase, may_register_shutdown, registered_programmer_count, regs,
                 own, original, unsaved>>

(* A driver's shutdown function, or release_io_perms().                     *)
RunFunction ==
  /\ phase = "shutdown" /\ shutdown_fn # << >> /\ ~Top.undo
  /\ regs' = [c \in DOMAIN regs |-> IF c \in Top.cells THEN own[c] ELSE regs[c]]
  /\ open' = open \ Top.closes
  /\ Pops
  /\ UNCHANGED <<driver, pos, phase, may_register_shutdown, registered_programmer_count, own,
                 original, unsaved>>

ShutdownReturns ==
  /\ phase = "shutdown" /\ shutdown_fn = << >>
  /\ phase' = "down"
  /\ UNCHANGED <<driver, pos, shutdown_fn, may_register_shutdown, registered_programmer_count,
                 open, regs, own, original, unsaved>>

(* The process ends.                                                        *)
LifeOver == phase \in {"down", "exited"} /\ UNCHANGED lifeVars

LifeStep ==
  \/ ProgrammerInit
  \/ RgetIoPerms \/ PciInit \/ OpenDevice
  \/ ReversibleWrite \/ ReversibleVal \/ PlainWrite \/ SetByHand
  \/ RegisterShutdown \/ RegisterProgrammer \/ BitbangSpiInit \/ Check
  \/ InitSucceeds \/ Work
  \/ RunUndo \/ RunFunction \/ ShutdownReturns

LifeNext == LifeStep \/ LifeOver

LifeSpec == LifeInit /\ [][LifeNext]_lifeVars

LifeTypeOK ==
  /\ driver \in Drivers
  /\ pos \in 1 .. Len(driver) + 1
  /\ phase \in {"start", "init", "work", "shutdown", "down", "exited"}
  /\ shutdown_fn \in Seq(ShutdownFn) /\ Len(shutdown_fn) <= SHUTDOWN_MAXFN
  /\ may_register_shutdown \in BOOLEAN
  /\ registered_programmer_count \in 0 .. PROGRAMMERS_MAX
  /\ open \in SUBSET Accesses
  /\ regs \in [Touched(driver) -> Val] /\ own \in [Touched(driver) -> Val]
  /\ original \in [Touched(driver) -> Val]
  /\ unsaved \in SUBSET Reversible(driver)

(* What a driver has to keep to: it opens an access before it goes through  *)
(* it, registers a function that closes an access before everything whose   *)
(* undo or shutdown function needs that access, saves a register before it  *)
(* writes it plainly, if it saves it at all, and leaves what is undone      *)
(* automatically to the undo.                                               *)
Registering == {"rget_io_perms", "rwrite", "rval", "register_shutdown"}
Opening == {"rget_io_perms", "pci_init", "pcidev_init", "physmap"}

InOrder(d) ==
  /\ \A n \in DOMAIN d : d[n].call \in {"rwrite", "rval", "register_shutdown"} =>
       \A a \in d[n].access : \E m \in 1 .. n - 1 : d[m].call \in Opening /\ a \in d[m].access
  /\ \A n, m \in DOMAIN d :
       /\ n < m /\ d[n].call \in Registering
       /\ d[m].call \in {"rget_io_perms", "register_shutdown"}
       => d[n].access \cap d[m].closes = {}
  /\ \A n \in DOMAIN d : d[n].call = "write" =>
       \A c \in d[n].cells \cap Reversible(d) : \E m \in 1 .. n - 1 :
         d[m].call \in {"rwrite", "rval"} /\ c \in d[m].cells
  /\ \A n \in DOMAIN d : d[n].call \in {"rget_io_perms", "register_shutdown", "set"} =>
       d[n].cells \cap Reversible(d) = {}

(* "rpci_write_* are reversible writes. The original PCI config space       *)
(* register contents will be restored on shutdown." However the writes      *)
(* overlap, wherever init() fails, and whatever the work on the chip did:   *)
(* unless shutdown_fn[] was full. Of drivers that keep to the order.        *)
RestoredOnShutdown ==
  phase = "down" /\ InOrder(driver) =>
    \A c \in Reversible(driver) \ unsaved : regs[c] = original[c]

(* The same without the order. The drivers atahpt and drkaiser write before *)
(* they register the function that closes the PCI access.                   *)
RestoredByEveryDriver ==
  phase = "down" => \A c \in Reversible(driver) \ unsaved : regs[c] = original[c]

(* No shutdown function runs after what it needs has been closed: whatever  *)
(* is still to be called needs only open accesses, and no function that     *)
(* runs earlier closes them.                                                *)
AccessOutlivesUse ==
  InOrder(driver) =>
    \A n \in DOMAIN shutdown_fn :
      /\ shutdown_fn[n].needs \subseteq open
      /\ \A m \in DOMAIN shutdown_fn :
           n < m => shutdown_fn[n].needs \cap shutdown_fn[m].closes = {}

Closes(d) == UNION {d[n].closes : n \in DOMAIN d}

(* What a driver's functions close is closed after every successful init(), *)
(* and what it set by hand is put back.                                     *)
ReleasedOnShutdown ==
  phase = "down" /\ pos > Len(driver) =>
    /\ open \cap Closes(driver) \subseteq {"io"}
    /\ \A c \in CellsOf(driver, {"register_shutdown"}) : regs[c] = own[c]

(* The undos that concern a cell, and what the first of them keeps.         *)
UndosOf(c) == {n \in DOMAIN shutdown_fn : shutdown_fn[n].undo /\ c \in shutdown_fn[n].cells}

(* A cell is as it was, or the first undo registered for it knows how it    *)
(* was.                                                                     *)
Kept(c) ==
  \/ UndosOf(c) = {} /\ regs[c] = original[c]
  \/ \E n \in UndosOf(c) : /\ \A m \in UndosOf(c) : n <= m
                           /\ shutdown_fn[n].data[c] = original[c]

(* At every moment, also while init() or the shutdown is half way: the old  *)
(* value of every register written reversibly is in the device or in the    *)
(* undo that will be the last to write it.                                  *)
OriginalIsKept ==
  InOrder(driver) => \A c \in Reversible(driver) \ unsaved : Kept(c)

(* What the induction needs besides: what was opened is open until the      *)
(* shutdown; the rest of init() registers nothing that closes what is       *)
(* needed; a driver's function resets none of the reversible cells; and the *)
(* writes before pos have been saved.                                       *)
OpenedIsOpen ==
  InOrder(driver) /\ phase \in {"init", "work"} =>
    \A m \in DOMAIN driver :
      m < pos /\ driver[m].call \in Opening => driver[m].access \subseteq open

NothingClosedTooSoon ==
  InOrder(driver) /\ phase = "init" =>
    \A n \in DOMAIN shutdown_fn, m \in DOMAIN driver :
      pos <= m /\ driver[m].call \in {"rget_io_perms", "register_shutdown"}
        => shutdown_fn[n].needs \cap driver[m].closes = {}

CellsApart ==
  InOrder(driver) =>
    \A n \in DOMAIN shutdown_fn :
      ~shutdown_fn[n].undo => shutdown_fn[n].cells \cap Reversible(driver) = {}

WrittenIsSaved ==
  InOrder(driver) /\ phase \in {"init", "work"} =>
    \A m \in DOMAIN driver :
      m < pos /\ driver[m].call \in {"rwrite", "rval"}
        => driver[m].cells \subseteq unsaved \cup SavedCells

Phases ==
  /\ phase = "start" => pos = 1 /\ shutdown_fn = << >>
  /\ phase = "work" => pos > Len(driver)
  /\ phase = "down" => shutdown_fn = << >>

IInv == /\ AccessOutlivesUse /\ OriginalIsKept /\ OpenedIsOpen /\ NothingClosedTooSoon
        /\ CellsApart /\ WrittenIsSaved /\ Phases
=============================================================================
