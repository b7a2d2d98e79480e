--------------------------- MODULE StatusRegister ---------------------------
(***************************************************************************)
(* Removing the block protection of a SPI chip through its status register *)
(* (spi25_statusreg.c): spi_disable_blockprotect_generic() over            *)
(* spi_write_status_register(), which may need WREN or EWSR, waits for the *)
(* chip only so long, and tries the other enable command after a failure.  *)
(* doit() has the chip unlocked before everything else, and ignores what   *)
(* this returns.                                                           *)
(*                                                                         *)
(* A status register is the set of its bits that are 1; a mask is a set.   *)
(***************************************************************************)
EXTENDS Integers, Sequences, FiniteSets

CONSTANTS
  Bits,         (* the bits of the register, the state of a pin included    *)
  Chips,        (* kinds of chips                                           *)
  MaxPolls,     (* 490                                                      *)
  MaxFailures   (* bound: how many commands may fail                        *)

(* The masks and the feature_bits of the table, and how the chip behaves:   *)
(* the commands that enable WRSR, the bits of its register that can be      *)
(* written, and whether a set lock keeps all but itself from being written. *)
ChipType == [bp : SUBSET Bits, lock : SUBSET Bits, wp : SUBSET Bits,
             features : SUBSET {"WREN", "EWSR"},
             accepts : SUBSET {"WREN", "EWSR"},
             writable : SUBSET Bits, locker : SUBSET Bits, locks_softly : BOOLEAN]

ASSUME StatusRegisterAssumption ==
  /\ IsFiniteSet(Bits)
  /\ Chips \subseteq ChipType
  /\ \A c \in Chips :
       /\ c.bp \cup c.lock \cup c.locker \subseteq c.writable
       /\ c.wp \cap c.writable = {} /\ c.bp \cap c.locker = {} /\ c.lock \subseteq c.locker
       /\ IF c.features = {} THEN "EWSR" \in c.accepts ELSE c.features \subseteq c.accepts
  /\ MaxPolls \in Nat
  /\ MaxFailures \in Nat

VARIABLES
  chip,
  protected,   (* the WP# pin of the chip is low                            *)
  reg,         (* the chip: its register, the enable latch, and what it is  *)
  wel, busy,   (* changing the register to (a set of at most one register)  *)
  status,      (* what the function has read                                *)
  writing,     (* the value it writes                                       *)
  opcodes,     (* the enable commands spi_write_status_register() has left  *)
  i,           (* how often the write in progress bit was seen              *)
  after,       (* where the function goes on after the write                *)
  pc, result,
  failures,    (* bound                                                     *)
  was,         (* history: the register when the function was called        *)
  blind        (* history: RDSR failed, so that readarr was not written     *)

device == <<chip, protected, reg, wel, busy>>
host == <<status, writing, opcodes, i, after, pc, result>>
vars == <<device, host, failures, was, blind>>

Init ==
  /\ chip \in Chips /\ protected \in BOOLEAN
  /\ reg \in SUBSET (chip.writable \cup IF protected THEN {} ELSE chip.wp)
  /\ chip.wp \subseteq IF protected THEN Bits \ reg ELSE reg
  /\ wel = FALSE /\ busy = {}
  /\ status = {} /\ writing = {} /\ opcodes = << >> /\ i = 0
  /\ after = "test" /\ pc = "read" /\ result = "none"
  /\ failures = 0 /\ was = reg /\ blind = FALSE

-----------------------------------------------------------------------------
(* The chip *)

(* The bits a WRSR changes.                                                 *)
Open ==
  IF reg \cap chip.locker = {} THEN chip.writable
  ELSE IF protected THEN {}
  ELSE IF chip.locks_softly THEN chip.locker
  ELSE chip.writable

(* WREN, EWSR and WRSR, by a chip that is not busy.                         *)
Enabled(op) ==
  /\ wel' = (wel \/ (busy = {} /\ op \in chip.accepts))
  /\ UNCHANGED <<chip, protected, reg, busy>>

Wrsr ==
  /\ busy' = IF busy = {} /\ wel THEN {(writing \cap Open) \cup (reg \ Open)} ELSE busy
  /\ UNCHANGED <<chip, protected, reg, wel>>

ChipFinishes ==
  /\ busy # {}
  /\ reg' \in busy
  /\ busy' = {} /\ wel' = FALSE
  /\ UNCHANGED <<chip, protected, host, failures, was, blind>>

-----------------------------------------------------------------------------
(* spi_write_status_register() *)

Opcodes(features) ==
  IF "WREN" \notin features THEN <<"EWSR">>
  ELSE IF "EWSR" \notin features THEN <<"WREN">>
  ELSE <<"WREN", "EWSR">>

WriteStatusRegister(value, then) ==
  /\ writing' = value
  /\ opcodes' = Opcodes(chip.features)
  /\ after' = then
  /\ pc' = "enable"

(* spi_write_status_register_flag() has failed with r.                      *)
FlagFails(r) ==
  \/ /\ Len(opcodes) > 1
     /\ opcodes' = Tail(opcodes) /\ pc' = "enable"
     /\ UNCHANGED result
  \/ /\ Len(opcodes) = 1
     /\ pc' = "returned" /\ result' = r
     /\ UNCHANGED opcodes

SendEnable ==
  /\ pc = "enable"
  /\ Enabled(Head(opcodes))
  /\ pc' = "wrsr"
  /\ UNCHANGED <<status, writing, opcodes, i, after, result, failures, was, blind>>

SendWrsr ==
  /\ pc = "wrsr"
  /\ Wrsr
  /\ pc' = "poll" /\ i' = 0
  /\ UNCHANGED <<status, writing, opcodes, after, result, failures, was, blind>>

(* The programmer reports an error, and the chip has got the command or not.*)
SendFails ==
  /\ pc \in {"enable", "wrsr"} /\ failures < MaxFailures
  /\ \/ UNCHANGED device
     \/ pc = "enable" /\ Enabled(Head(opcodes))
     \/ pc = "wrsr" /\ Wrsr
  /\ FlagFails("error")
  /\ failures' = failures + 1
  /\ UNCHANGED <<status, writing, i, after, was, blind>>

(* RDSR shows the bit wip.                                                  *)
Rdsr(wip) ==
  \/ wip = (busy # {}) /\ UNCHANGED <<failures, blind>>
  \/ failures < MaxFailures /\ failures' = failures + 1 /\ blind' = TRUE

PollWip ==
  /\ pc = "poll" /\ Rdsr(TRUE)
  /\ i' = i + 1
  /\ \/ i' > MaxPolls /\ FlagFails("TIMEOUT_ERROR")
     \/ i' <= MaxPolls /\ UNCHANGED <<opcodes, pc, result>>
  /\ UNCHANGED <<status, writing, after, device, was>>

PollReady ==
  /\ pc = "poll" /\ Rdsr(FALSE)
  /\ pc' = IF after = "unprotect" THEN "unprotect" ELSE "read"
  /\ UNCHANGED <<status, writing, opcodes, i, after, result, device, was>>

-----------------------------------------------------------------------------
(* spi_disable_blockprotect_generic() *)

Return(r) ==
  /\ pc' = "returned" /\ result' = r
  /\ UNCHANGED <<writing, opcodes, after>>

ReadStatus ==
  /\ pc = "read"
  /\ \/ status' = reg /\ UNCHANGED <<failures, blind>>
     \/ /\ failures < MaxFailures /\ failures' = failures + 1
        /\ blind' = TRUE
        /\ status' \in SUBSET Bits
  /\ pc' = after
  /\ UNCHANGED <<writing, opcodes, i, after, result, device, was>>

Protection == status \cap chip.bp # {}
RegisterLocked == status \cap chip.lock # {}
HardwareProtected == chip.wp # {} /\ status \cap chip.wp = {}

NotProtected ==
  /\ pc = "test" /\ ~Protection
  /\ Return("0")
  /\ UNCHANGED <<status, i, device, failures, was, blind>>

BailOut ==
  /\ pc = "test" /\ Protection /\ RegisterLocked /\ HardwareProtected
  /\ Return("error")
  /\ UNCHANGED <<status, i, device, failures, was, blind>>

(* Mutant: the lock is cleared along with the protection, and not before.   *)
UnlockRegisterAtOnce ==
  /\ pc = "test" /\ Protection /\ RegisterLocked /\ ~HardwareProtected
  /\ WriteStatusRegister(status \ (chip.bp \cup chip.lock), "verify")
  /\ UNCHANGED <<status, i, result, device, failures, was, blind>>

UnlockRegister ==
  /\ pc = "test" /\ Protection /\ RegisterLocked /\ ~HardwareProtected
  /\ WriteStatusRegister(status \ chip.lock, "unprotect")
  /\ UNCHANGED <<status, i, result, device, failures, was, blind>>

GlobalUnprotect ==
  /\ \/ pc = "test" /\ Protection /\ ~RegisterLocked
     \/ pc = "unprotect"
  /\ WriteStatusRegister(status \ (chip.bp \cup chip.lock), "verify")
  /\ UNCHANGED <<status, i, result, device, failures, was, blind>>

(* Mutant: that the write succeeded is taken for the protection being off.  *)
VerifyNothing ==
  /\ pc = "verify"
  /\ Return("0")
  /\ UNCHANGED <<status, i, device, failures, was, blind>>

Verify ==
  /\ pc = "verify"
  /\ Return(IF Protection THEN "error" ELSE "0")
  /\ UNCHANGED <<status, i, device, failures, was, blind>>

Step ==
  \/ SendEnable \/ SendWrsr \/ SendFails \/ PollWip \/ PollReady
  \/ ReadStatus \/ NotProtected \/ BailOut \/ UnlockRegister \/ GlobalUnprotect \/ Verify

Next == Step \/ ChipFinishes

Spec == Init /\ [][Next]_vars

(* One thread whose calls return. Nothing is assumed of the chip.           *)
FairSpec == Spec /\ WF_vars(Step)

-----------------------------------------------------------------------------
(* Properties *)

TypeOK ==
  /\ chip \in Chips /\ protected \in BOOLEAN
  /\ reg \subseteq Bits /\ wel \in BOOLEAN /\ busy \subseteq SUBSET Bits
  /\ status \subseteq Bits /\ writing \subseteq Bits
  /\ opcodes \in {<< >>, <<"WREN">>, <<"EWSR">>, <<"WREN", "EWSR">>}
  /\ i \in 0 .. MaxPolls + 1
  /\ after \in {"test", "unprotect", "verify"}
  /\ pc \in {"read", "test", "unprotect", "verify", "enable", "wrsr", "poll", "returned"}
  /\ pc \in {"enable", "wrsr", "poll"} => opcodes # << >>
  /\ result \in {"none", "0", "error", "TIMEOUT_ERROR"}
  /\ was \subseteq Bits /\ failures \in 0 .. MaxFailures /\ blind \in BOOLEAN

(* Unless RDSR failed, no block protection bit is set when the function     *)
(* returns 0, and the chip is done with its register.                       *)
UnprotectedIfZero == result = "0" /\ ~blind => reg \cap chip.bp = {} /\ busy = {}

(* Unless RDSR failed, whatever the function does and whenever the chip     *)
(* finishes, the register loses bits of the masks and nothing else changes. *)
OnlyMasksCleared ==
  ~blind => \A r \in {reg} \cup busy : r \subseteq was /\ was \ r \subseteq chip.bp \cup chip.lock

(* When the function says so the protection is gone, and nothing else is,   *)
(* then or at any time.                                                     *)
OnlyProtectionGone == UnprotectedIfZero /\ OnlyMasksCleared

(* A chip that goes by its own lock bits has them in the table's mask.      *)
DescribedRight == chip.locks_softly => chip.locker \subseteq chip.lock

(* Without failures, of all chips that the table describes right only the   *)
(* hardware protected ones and those too slow stay protected.               *)
Unlocks ==
  pc = "returned" /\ failures = 0 /\ DescribedRight =>
    \/ result \in {"0", "TIMEOUT_ERROR"}
    \/ protected /\ was \cap chip.locker # {}

(* The function returns, even if the chip never gets done.                  *)
Termination == <>(pc = "returned")
=============================================================================
