------------------------------- MODULE BulkIo -------------------------------
(***************************************************************************)
(* The SPI masters with read and write functions of their own: Dediprog's  *)
(* bulk transfers over USB, and the chip mapped into memory by the Super   *)
(* I/Os IT8716F and W83627DHG. Each takes the aligned middle of a range in *)
(* its fast way, and what is before and after it by SPI commands.          *)
(***************************************************************************)
EXTENDS Integers, Sequences, FiniteSetsExt

CONSTANTS
  BulkSize,       (* of the chip                                            *)
  Granularity,    (* the write engine asks for multiples of it: 256         *)
  Packet,         (* of a bulk read: 512                                    *)
  MaxCount,       (* packets of a bulk transfer are counted modulo this:    *)
                  (* 65536, as many of 256 bytes as a chip of 16 MB has     *)
  PageSizes,      (* of the chips                                           *)
  BulkContents    (* what the chip and the buffer may hold                  *)

BulkAddr == 0 .. BulkSize - 1

ASSUME BulkAssumption ==
  /\ {BulkSize, Granularity, Packet, MaxCount} \subseteq Nat \ {0} /\ Packet \in {Granularity, 2 * Granularity}
  /\ BulkSize % Packet = 0
  /\ PageSizes \subseteq Nat \ {0} /\ PageSizes # {}
  /\ BulkContents \subseteq [BulkAddr -> {0, 1}] /\ BulkContents # {}

VARIABLES
  bulkjob,        (* [driver, fn, start, len, data, page_size, big]         *)
  bulkpos,        (* the next byte                                          *)
  bulkbuf,        (* what was read                                          *)
  bulkmem,        (* the contents of the chip                               *)
  announced,      (* packets the device still expects, or Unannounced       *)
  bulkresult,     (* "none", "0" or "error"                                 *)
  bulklost,       (* the device did not answer                              *)
  swallowed       (* it took a packet, or sent one, that it had not been    *)
                  (* told of, for nothing                                   *)

bulkVars ==
  <<bulkjob, bulkpos, bulkbuf, bulkmem, announced, bulkresult, bulklost, swallowed>>

Unannounced == -1

BulkJobs ==
  {j \in [driver : {"dediprog", "it87spi", "wbsio"}, fn : {"read", "write"}, start : BulkAddr, len : 1 .. BulkSize,
          data : BulkContents, page_size : PageSizes, big : BOOLEAN] :
     /\ j.start % Granularity = 0 /\ j.len % Granularity = 0 /\ j.start + j.len <= BulkSize
     /\ (j.driver # "it87spi" => ~j.big)}

BulkInit ==
  /\ bulkjob \in BulkJobs
  /\ bulkpos = bulkjob.start /\ bulkbuf = <<>> /\ bulkmem \in BulkContents
  /\ announced = Unannounced /\ bulkresult = "none" /\ bulklost = FALSE /\ swallowed = FALSE

-----------------------------------------------------------------------------
End == bulkjob.start + bulkjob.len
Dediprog == bulkjob.driver = "dediprog"

(* The unit of the fast way; 0 if there is none for this chip. The chip is  *)
(* mapped up to 512 KB by the IT8716F, which writes pages of 256 bytes or   *)
(* less that way; the W83627DHG reads that way.                             *)
Unit ==
  IF bulkjob.fn = "read"
  THEN CASE Dediprog -> Packet
         [] bulkjob.driver = "wbsio" -> 1
         [] OTHER -> IF bulkjob.big THEN 0 ELSE 1
  ELSE CASE Dediprog -> IF bulkjob.page_size = Granularity THEN Granularity ELSE 0
         [] bulkjob.driver = "wbsio" -> 0
         [] OTHER -> IF bulkjob.big \/ bulkjob.page_size > Granularity THEN 0 ELSE bulkjob.page_size

(* What goes by SPI commands before the first aligned unit. A unit is at    *)
(* most twice the granularity, so it is not more than the call is for.      *)
Residue ==
  IF Unit = 0 THEN bulkjob.len
  ELSE IF bulkjob.start % Unit = 0 THEN 0 ELSE Unit - (bulkjob.start % Unit)
BulkLen == IF Unit = 0 THEN 0 ELSE ((bulkjob.len - Residue) \div Unit) * Unit
BulkStart == bulkjob.start + Residue
BulkEnd == BulkStart + BulkLen

(* The chunks of the SPI commands; those that program stay in a page.       *)
ChunkSize ==
  CASE bulkjob.fn = "read" -> IF Dediprog THEN 2 ELSE 1
    [] OTHER -> IF Dediprog THEN Min({2, bulkjob.page_size - (bulkpos % bulkjob.page_size)}) ELSE 1

Effect(S) ==
  bulkmem' = IF bulkjob.fn = "read" THEN bulkmem
             ELSE [a \in BulkAddr |-> IF a \in S /\ bulkjob.data[a] = 0 THEN 0 ELSE bulkmem[a]]
Took(n) ==
  /\ bulkpos' = bulkpos + n
  /\ bulkbuf' = (IF bulkjob.fn = "read"
                 THEN bulkbuf \o [k \in 1 .. n |-> bulkmem[bulkpos + k - 1]] ELSE bulkbuf)

Going == bulkresult = "none" /\ ~bulklost
Lost == Dediprog /\ bulklost' = TRUE /\ UNCHANGED <<bulkpos, bulkbuf, announced>>

(* The registers of the Super I/Os always answer, so only a Dediprog fails. *)
Chunk ==
  LET stop == IF bulkpos < BulkStart THEN BulkStart ELSE End
      n == Min({ChunkSize, stop - bulkpos})
      bytes == bulkpos .. bulkpos + n - 1
  IN /\ Going /\ bulkpos < End /\ ~(BulkStart <= bulkpos /\ bulkpos < BulkEnd)
     /\ \/ Effect(bytes) /\ Took(n) /\ UNCHANGED <<announced, bulklost>>
        \/ Lost /\ \E S \in SUBSET bytes : Effect(S)
     /\ UNCHANGED <<bulkjob, bulkresult, swallowed>>

(* The command that announces the packets, if the range is aligned: their   *)
(* number has 16 bits there, so 65536 of them are announced as none.        *)
BulkCommand ==
  /\ Dediprog /\ Going /\ bulkpos = BulkStart /\ bulkpos < BulkEnd /\ announced = Unannounced
  /\ \/ /\ IF BulkStart % Unit = 0
           THEN announced' = (BulkLen \div Unit) % MaxCount /\ UNCHANGED bulkresult
           ELSE bulkresult' = "error" /\ UNCHANGED announced
        /\ UNCHANGED <<bulkpos, bulkbuf, bulklost>>
     \/ Lost /\ UNCHANGED bulkresult
  /\ UNCHANGED <<bulkjob, bulkmem, swallowed>>

BulkPacket ==
  LET bytes == bulkpos .. bulkpos + Unit - 1
  IN /\ Dediprog /\ Going /\ BulkStart <= bulkpos /\ bulkpos < BulkEnd /\ announced > 0
     /\ \/ Effect(bytes) /\ Took(Unit) /\ announced' = announced - 1 /\ UNCHANGED bulklost
        \/ Lost /\ \E S \in SUBSET bytes : Effect(S)
     /\ UNCHANGED <<bulkjob, bulkresult, swallowed>>

(* The driver goes on with packets that the device was not told of. What it *)
(* does with them nobody knows: it transfers them all the same; it takes    *)
(* them for nothing, or sends anything; or it does not take part, and the   *)
(* transfer times out.                                                      *)
BulkSurplus ==
  /\ Dediprog /\ Going /\ BulkStart <= bulkpos /\ bulkpos < BulkEnd /\ announced = 0
  /\ \/ /\ Effect(bulkpos .. bulkpos + Unit - 1) /\ Took(Unit)
        /\ UNCHANGED <<announced, bulklost, swallowed>>
     \/ /\ bulkpos' = bulkpos + Unit /\ swallowed' = TRUE
        /\ \E bits \in [1 .. Unit -> {0, 1}] :
             bulkbuf' = IF bulkjob.fn = "read" THEN bulkbuf \o bits ELSE bulkbuf
        /\ UNCHANGED <<bulkmem, announced, bulklost>>
     \/ Lost /\ UNCHANGED <<bulkmem, swallowed>>
  /\ UNCHANGED <<bulkjob, bulkresult>>

(* mmio_readn() of it all; a page of writes to the mapped chip, after which *)
(* the status register is polled until the chip is done.                    *)
Mapped ==
  /\ ~Dediprog /\ BulkStart <= bulkpos /\ bulkpos < BulkEnd
  /\ LET n == IF bulkjob.fn = "read" THEN BulkLen ELSE Unit
     IN Effect(bulkpos .. bulkpos + n - 1) /\ Took(n)
  /\ UNCHANGED <<bulkjob, announced, bulklost, bulkresult, swallowed>>

(* dediprog_spi_bulk_write() refuses any chunks but of 256 bytes, also if   *)
(* there are none: a chip with other pages is written to, and it is an error*)
(* all the same.                                                            *)
Refused == Dediprog /\ bulkjob.fn = "write" /\ Unit = 0

(* Mutant: the error is ignored, as those of IT8716F's helpers are.         *)
BulkReturnFine ==
  /\ bulkresult = "none" /\ (bulklost \/ bulkpos >= End)
  /\ bulkresult' = "0"
  /\ UNCHANGED <<bulkjob, bulkpos, bulkbuf, bulkmem, announced, bulklost, swallowed>>
BulkReturn ==
  /\ bulkresult = "none" /\ (bulklost \/ bulkpos >= End)
  /\ bulkresult' = (IF bulklost \/ Refused THEN "error" ELSE "0")
  /\ UNCHANGED <<bulkjob, bulkpos, bulkbuf, bulkmem, announced, bulklost, swallowed>>

BulkHost == Chunk \/ BulkCommand \/ BulkPacket \/ BulkSurplus \/ Mapped \/ BulkReturn
BulkNext == BulkHost \/ (bulkresult # "none" /\ UNCHANGED bulkVars)
BulkSpec == BulkInit /\ [][BulkNext]_bulkVars /\ WF_bulkVars(BulkHost)

-----------------------------------------------------------------------------
MasterCall == INSTANCE ChipCall WITH
  Addr <- BulkAddr, Val <- {0, 1}, fn <- bulkjob.fn, range <- bulkjob.start .. End - 1,
  data <- bulkjob.data, mem <- bulkmem, result <- bulkresult, told <- ~swallowed

(* The bytes read are those of the range, in order; a call fails only if    *)
(* the device did, or is a write by Dediprog to a chip whose pages are not  *)
(* of 256 bytes: that always fails, when all has been written; and only one *)
(* of 65536 packets or more, as a write of a chip of 16 MB at once is, has  *)
(* packets that the device may take for nothing.                            *)
BulkResult ==
  /\ bulkjob.fn = "read" /\ bulkresult = "0" /\ ~swallowed =>
       bulkbuf = [k \in 1 .. bulkjob.len |-> bulkmem[bulkjob.start + k - 1]]
  /\ bulkresult = "error" => bulklost \/ (Refused /\ bulkpos = End)
  /\ swallowed => Dediprog /\ BulkLen >= MaxCount * Unit

(* A call changes only what it is for, and returns 0 only if all of it was  *)
(* done, however the range lies to the units: this part by commands, that   *)
(* part in bulk, none left out and none done twice; what is read is what    *)
(* the chip has, and no call fails for nothing. Where the count of packets  *)
(* does not fit its 16 bits, a device may let a call return 0 with nothing  *)
(* done (told FALSE); then only the first of these is left.                 *)
ImplementsMasterCall == MasterCall!Spec /\ []BulkResult

BulkOver == bulkresult # "none"
=============================================================================
