---------------------------- MODULE MCLifecycle -----------------------------
(* The drivers as they are, and every order of up to four calls.            *)
EXTENDS Lifecycle, Chipsets

(* The registers the drivers name, the chipsets' by their offset, and those *)
(* of the orders below.                                                     *)
MCCells == {"REG_FLASH_ACCESS", "PCI_MAGIC", "ROM_ACCESS", "INTERNAL_CONFIG", "CSR_FCR", "EECD",
            "PCI_BAR2_CONTROL", "GPIO_PORT_CONTROL", "PREOP", "PR", "BBAR", "RCONF", "NORF",
            "07", "24", "40", "41", "43", "45", "47", "48", "4e", "50", "52", "59", "5b", "5c",
            "64", "65", "6d", "70", "71", "79", "80", "88", "8a", "8c", "90", "92", "c06", "c6f",
            "530", "cd6", "d0", "d8", "d9", "dc", "eb", "low", "high", "pad"}
MCAccesses == {"io", "pci", "bar", "control_bar", "rcrb", "msr"}

MCOrderly == {Gfxnvidia, Nic3com, Nicintel, NicintelSpi, Nic, Satamv, Satasii, OgpSpi}
              \cup {InternalInit(enable) : enable \in Enables}
MCDisorderly == {Atahpt, Drkaiser}
MCDrivers == MCOrderly \cup MCDisorderly

(* Byte and word wide writes that overlap, to a register of two bytes; a    *)
(* function that closes the access, registered anywhere or twice; and       *)
(* saved registers enough to leave room for three functions only.           *)
MCWrites == {Reversibly("pci", {"low"}), Reversibly("pci", {"low", "high"}),
             SaveOnly("pci", {"high"}), Plainly("pci", {"high"}), Shutdown({"pci"}, {"pci"}, {})}
MCPadding == [n \in 1 .. 4 |-> SaveOnly("pci", {"pad"})]
MCOrders == {<<RgetIoPermsCall, PcidevInitCall>> \o MCPadding \o s :
               s \in UNION {[1 .. n -> MCWrites] : n \in 2 .. 4}}

MCAllDrivers == MCDrivers \cup MCOrders
=============================================================================
