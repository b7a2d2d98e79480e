---------------------------- MODULE Programmers -----------------------------
(***************************************************************************)
(* The init and shutdown functions of the PCI drivers, as the calls        *)
(* Lifecycle is about.                                                     *)
(*                                                                         *)
(* A register write a driver leaves out when the value is right already is *)
(* a write of that value. A function is given with the call that registers *)
(* it: what it unmaps and cleans up, and what it resets.                   *)
(***************************************************************************)
EXTENDS Sequences

(* A check that may make init() return 1; the other calls are given by      *)
(* what differs from it.                                                    *)
CheckCall == [call |-> "check", access |-> {}, cells |-> {}, keep |-> FALSE, closes |-> {}]

RgetIoPermsCall == [CheckCall EXCEPT !.call = "rget_io_perms", !.access = {"io"}, !.closes = {"io"}]
PcidevInitCall == [CheckCall EXCEPT !.call = "pcidev_init", !.access = {"pci"}]
Physmap(bar) == [CheckCall EXCEPT !.call = "physmap", !.access = {bar}]
Reversibly(access, cells) ==
  [CheckCall EXCEPT !.call = "rwrite", !.access = {access}, !.cells = cells]
SaveOnly(access, cells) ==
  [CheckCall EXCEPT !.call = "rval", !.access = {access}, !.cells = cells]
Plainly(access, cells) ==
  [CheckCall EXCEPT !.call = "write", !.access = {access}, !.cells = cells]
ByHand(access, cells, keep) ==
  [CheckCall EXCEPT !.call = "set", !.access = {access}, !.cells = cells, !.keep = keep]
Shutdown(needs, closes, cells) ==
  [CheckCall EXCEPT !.call = "register_shutdown", !.access = needs, !.cells = cells,
                  !.closes = closes]
RegisterProgrammerCall == [CheckCall EXCEPT !.call = "register_programmer"]
BitbangSpiInitCall == [CheckCall EXCEPT !.call = "bitbang_spi_init"]

Atahpt == <<RgetIoPermsCall, PcidevInitCall,
            Reversibly("pci", {"REG_FLASH_ACCESS"}),
            Shutdown({"pci"}, {"pci"}, {}), RegisterProgrammerCall>>

Drkaiser == <<RgetIoPermsCall, PcidevInitCall,
              Reversibly("pci", {"PCI_MAGIC"}), Physmap("bar"),
              Shutdown({"pci", "bar"}, {"pci", "bar"}, {}), RegisterProgrammerCall>>

Gfxnvidia == <<RgetIoPermsCall, PcidevInitCall, Physmap("bar"),
               Shutdown({"pci", "bar"}, {"pci", "bar"}, {}),
               Reversibly("pci", {"ROM_ACCESS"}), RegisterProgrammerCall>>

(* A card that needs the fixup of INTERNAL_CONFIG.                          *)
Nic3com == <<RgetIoPermsCall, PcidevInitCall,
             ByHand("io", {"INTERNAL_CONFIG"}, TRUE),
             Shutdown({"pci", "io"}, {"pci"}, {"INTERNAL_CONFIG"}), RegisterProgrammerCall>>

Nicintel == <<RgetIoPermsCall, PcidevInitCall, Physmap("bar"), Physmap("control_bar"),
              Shutdown({"pci", "bar", "control_bar"}, {"pci", "bar", "control_bar"}, {}),
              Reversibly("control_bar", {"CSR_FCR"}), RegisterProgrammerCall>>

(* The check reads back whether flash writes are really enabled.            *)
NicintelSpi == <<RgetIoPermsCall, PcidevInitCall, Physmap("bar"),
                 ByHand("bar", {"EECD"}, FALSE), CheckCall,
                 Shutdown({"pci", "bar"}, {"pci", "bar"}, {"EECD"}), BitbangSpiInitCall>>

(* nic3com with the other cards, nicnatsemi, nicrealtek                     *)
Nic == <<RgetIoPermsCall, PcidevInitCall, Shutdown({"pci"}, {"pci"}, {}), RegisterProgrammerCall>>

Satamv == <<RgetIoPermsCall, PcidevInitCall, Physmap("bar"),
            Shutdown({"pci", "bar"}, {"pci", "bar"}, {}),
            Reversibly("bar", {"PCI_BAR2_CONTROL"}), Reversibly("bar", {"GPIO_PORT_CONTROL"}),
            RegisterProgrammerCall>>

Satasii == <<RgetIoPermsCall, PcidevInitCall, Physmap("bar"),
             Shutdown({"pci", "bar"}, {"pci", "bar"}, {}), RegisterProgrammerCall>>

(* The check is that of the parameter rom=.                                 *)
OgpSpi == <<CheckCall, RgetIoPermsCall, PcidevInitCall, Physmap("bar"),
            Shutdown({"pci", "bar"}, {"pci", "bar"}, {}), BitbangSpiInitCall>>
=============================================================================
