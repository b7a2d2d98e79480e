------------------------------ MODULE Mainboard ------------------------------
(***************************************************************************)
(* The internal programmer on a mainboard: internal_init(), which finds    *)
(* out what the board is and what it may do to it (Internal), and the code *)
(* it then runs for the Super I/O and for the board (BoardEnables), from   *)
(* the probes on. A behaviour is about one of them: side says which. Of a  *)
(* board the first knows the row of the table, the second the hardware.    *)
(***************************************************************************)
EXTENDS Internal, BoardEnables

VARIABLE side     (* "init" or "board"                                      *)

mainboardVars == <<vars, boardVars, side>>

InternalIdle ==
  /\ machine = CHOOSE m \in Machines : TRUE
  /\ param = CHOOSE p \in Params : TRUE
  /\ pc = "returned" /\ ret = 1
  /\ cb = NONE /\ has_dmi_support = FALSE
  /\ is_laptop = 0 /\ laptop_ok = FALSE
  /\ superios = << >> /\ chipset = 1 /\ max_rom_decode = Unlimited
  /\ ran = << >> /\ enabled = << >>
BoardIdle ==
  /\ board = CHOOSE b \in Boards : TRUE
  /\ todo = << >> /\ outcome = 99 /\ conf = {} /\ ldn = [port \in ConfigPorts |-> 0]
  /\ regs = << >> /\ base = NoBase /\ found = << >> /\ tries = 0

MainboardInit ==
  \/ side = "init" /\ Init /\ BoardIdle
  \/ side = "board" /\ InternalIdle /\ BoardInit

MainboardNext ==
  \/ side = "init" /\ Next /\ UNCHANGED <<boardVars, side>>
  \/ side = "board" /\ BoardNext /\ UNCHANGED <<vars, side>>

MainboardSpec == MainboardInit /\ [][MainboardNext]_mainboardVars
=============================================================================
