-------------------------------- MODULE MCIch --------------------------------
EXTENDS Ich

C(op, args, readcnt) == [op |-> op, args |-> args, readcnt |-> readcnt]
Wren == C("WREN", <<>>, 0)

MCOpcodes ==
  DOMAIN PossibleOpcodes
  \cup {"WREN", "EWSR", "WRDI", "CE_60", "RES", "AT25F_RDID", "SFDP", "00"}

(* The multicommands of the SPI chip functions: at an address below and     *)
(* one above the BBAR, with opcodes that are on the menu, that are not but  *)
(* are known, and that are guessed; the block erase with 0x50, the opcode   *)
(* of EWSR; one that does not fit (SFDP), one that is too long, and three that *)
(* nobody sends.                                                            *)
MCCalls ==
  {<<Wren, C("BYTE_PROGRAM", <<0, 1, 0, 7>>, 0)>>,
   <<Wren, C("BE_D8", <<0, 1, 0>>, 0)>>,
   <<Wren, C("BE_D8", <<0, 0, 0>>, 0)>>,
   <<Wren, C("SE", <<0, 1, 0>>, 0)>>,
   <<Wren, C("CE_60", <<>>, 0)>>,
   <<C("EWSR", <<0, 1, 0>>, 0)>>,
   <<C("EWSR", <<>>, 0), C("WRSR", <<0>>, 0)>>,
   <<Wren, C("AAI", <<0, 1, 0, 7, 8>>, 0)>>, <<C("AAI", <<7, 8>>, 0)>>,
   <<C("WRDI", <<>>, 0)>>, <<Wren>>,
   <<C("RDSR", <<>>, 1)>>, <<C("READ", <<0, 1, 0>>, 2)>>,
   <<C("RES", <<0, 0, 0>>, 1)>>, <<C("AT25F_RDID", <<>>, 2)>>,
   <<C("SFDP", <<0, 0, 0, 0>>, 2)>>,
   <<Wren, C("BYTE_PROGRAM", <<0, 1, 0, 7, 7, 7, 7, 7, 7>>, 0)>>,
   <<C("EWSR", <<>>, 0), Wren, C("WRSR", <<0>>, 0)>>}

(* A menu without an eraser, one without prefixes and RDSR, and one on      *)
(* which WREN is an opcode and RES has the wrong type.                      *)
Locked(preop, ops, change) ==
  [preop |-> preop, op |-> [i \in Slots |-> ops[i + 1]],
   type |-> [i \in Slots |->
               IF ops[i + 1] \in DOMAIN change THEN change[ops[i + 1]]
               ELSE IF ops[i + 1] \in DOMAIN PossibleOpcodes THEN PossibleOpcodes[ops[i + 1]] ELSE "write"]]
MCMenus ==
  {Locked(<<"WREN", "EWSR">>, <<"BYTE_PROGRAM", "READ", "00", "RDSR", "00", "WRSR", "RDID", "00">>, <<>>),
   Locked(<<"00", "00">>, <<"WREN", "READ", "BE_D8", "00", "BYTE_PROGRAM", "WRSR", "RDID", "00">>, <<>>),
   Locked(<<"WREN", "00">>, <<"WREN", "READ", "BYTE_PROGRAM", "RDSR", "SE", "RES", "EWSR", "WRSR">>,
          [RES |-> "write"])}

(* Two chips of four bytes, in two partitions with blocks of two sizes.     *)
MCData == {[a \in 0 .. 7 |-> 1], [a \in 0 .. 7 |-> a % 2], [a \in 0 .. 7 |-> 0]}
=============================================================================
