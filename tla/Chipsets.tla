------------------------------ MODULE Chipsets ------------------------------
(***************************************************************************)
(* What the chipset enables do to the hardware, and the Super I/O enables  *)
(* that follow them, within internal_init(): each as the set of the call   *)
(* lists its code can go through.                                          *)
(*                                                                         *)
(* A cell is named by the offset of its register; of several registers of  *)
(* one sort that are written together one or two stand for all. An enable  *)
(* that fails without being fatal ends its list early, and internal_init() *)
(* goes on; a fatal failure is a check. Registers that only select what is *)
(* read next, or clear an error by being written, are left out.            *)
(***************************************************************************)
EXTENDS Programmers

Rpci(cell) == Reversibly("pci", {cell})
Port(cell) == Plainly("io", {cell})

(* a, then any of the continuations.                                        *)
Then(a, continuations) == {a \o b : b \in continuations}

-----------------------------------------------------------------------------
(* ALi, RDC, SiS *)
AliM1533 == {<<Rpci("47")>>}
RdcR8610 == {<<Plainly("pci", {"43"})>>}
Sis85c496 == {<<Rpci("d0")>>}

(* Without a southbridge nothing is done.                                   *)
SisMapping == Rpci("40")
Sis501 == {<< >>, <<SisMapping, Port("80"), Port("70")>>}
Sis5511 == {<< >>, <<SisMapping, Port("50")>>}
Sis530 == {<< >>, <<SisMapping, Rpci("45")>>}

-----------------------------------------------------------------------------
(* Intel *)
Piix4 == {<<Rpci("4e")>>}
Ich(bios_cntl) == <<Rpci(bios_cntl)>>
Ich4e == {Ich("4e")}

(* fwh_idsel: garbage is fatal, a number is written (the second word of it  *)
(* with the first), or it is not given.                                     *)
FwhIdsel == {<<CheckCall>>, <<CheckCall, Rpci("d0")>>}
IchDc == {idsel \o Ich("dc") : idsel \in FwhIdsel}

(* The prefetch is turned off only if the writes could be enabled.          *)
Poulsbo == {Ich("d8"), Ich("d8") \o <<Rpci("d9")>>}

(* program_opcodes(), unless the configuration is locked; PREOP stands for  *)
(* OPTYPE and for OPMENU as well.                                           *)
IchProgramOpcodes == <<SaveOnly("rcrb", {"PREOP"}), Plainly("rcrb", {"PREOP"})>>
IchInitOpcodes == {<< >>, IchProgramOpcodes}
IchSetBbar == <<Reversibly("rcrb", {"BBAR"})>>

IchInitSpi7 == {opcodes \o IchSetBbar \o <<RegisterProgrammerCall>> : opcodes \in IchInitOpcodes}

(* The parameters; the opcodes and the five protected ranges, unless the    *)
(* configuration is locked; BBAR, but for an ICH8; hardware sequencing      *)
(* needs a descriptor.                                                      *)
IchInitSpi9 ==
  {<<CheckCall>> \o unlocked \o bbar \o <<CheckCall, RegisterProgrammerCall>> :
     unlocked \in {<< >>, IchProgramOpcodes \o <<Reversibly("rcrb", {"PR"})>>},
     bbar \in {<< >>, IchSetBbar}}

(* Strapped to LPC there is no SPI to initialise.                           *)
Tunnelcreek ==
  Then(Ich("d8") \o <<Rpci("d9"), Physmap("rcrb")>>, {<< >>} \cup IchInitSpi7)

IchDcSpi7 == UNION {Then(dc \o <<Physmap("rcrb")>>, {<< >>} \cup IchInitSpi7) : dc \in IchDc}
IchDcSpi9 == UNION {Then(dc \o <<Physmap("rcrb")>>, IchInitSpi9) : dc \in IchDc}

-----------------------------------------------------------------------------
(* AMD-8111 and VIA *)
Amd8111 == {<<Rpci("43"), Rpci("40")>>}
ViaNoByteMerge == Rpci("71")
Vt823x == {<<Rpci("41"), Rpci("40")>>,
           <<Rpci("41"), Rpci("40"), Rpci("59")>>}

ViaInitSpi == Then(<<Physmap("rcrb"), RegisterProgrammerCall>> \o IchSetBbar, IchInitOpcodes)

(* The device has to be there; the MMIO register is mapped for a check that *)
(* SPI is not disabled, or not needed.                                      *)
VtVx == Then(<<CheckCall>>, Vt823x \cup ViaInitSpi
                            \cup Then(<<Physmap("bar"), CheckCall>>, ViaInitSpi))

(* "NOT_DONE_YET": the south bridge is still to be found.                   *)
ViaPairs == Then(<<ViaNoByteMerge>>, Vt823x \cup Amd8111)

-----------------------------------------------------------------------------
(* AMD Geode and Elan, National, ATI *)
Cs5530 == {<<Rpci("52"), Rpci("5b")>>}
(* Without an access to the MSRs nothing is done.                           *)
Cs5536 == {<< >>, <<Plainly("msr", {"RCONF"}), Plainly("msr", {"NORF"})>>}
Sc1100 == {<<Rpci("52")>>}

(* The protection of four regions, those that have one; the SPI registers   *)
(* are mapped, and SPI is used or not.                                      *)
Sb600ProbeSpi == {<< >>, <<Physmap("bar")>>, <<Physmap("bar"), RegisterProgrammerCall>>}
Sb600 == {protected \o spi \o <<Port("cd6")>> :
            protected \in {<< >>, <<Rpci("50"), Rpci("5c")>>},
            spi \in Sb600ProbeSpi}

Osb4 == {<<Port("c06"), Port("c6f")>>}
Sb400 == {<<CheckCall, Rpci("79"), Rpci("48"), Port("eb"), Port("c6f")>>}
Sc520 == {<<Physmap("bar")>>}

-----------------------------------------------------------------------------
(* NVIDIA, ServerWorks *)
NvidiaCommon == <<Rpci("6d")>>
Nforce2 == {<<Rpci("92")>> \o NvidiaCommon}
(* What is locked is left alone.                                            *)
Ck804 == {unlock \o <<Rpci("88")>> \o NvidiaCommon :
            unlock \in {<< >>, <<Rpci("8a")>>, <<Rpci("8a"), Rpci("8c")>>}}
Mcp55 == {<<Rpci("88"), Rpci("8c"), Rpci("90")>> \o NvidiaCommon}
(* The straps say LPC, SPI, or neither.                                     *)
Mcp6xSpiInit ==
  {<< >>, <<Physmap("bar"), RegisterProgrammerCall, Plainly("bar", {"530"})>>}
Mcp6x7x == Mcp55 \cup Mcp6xSpiInit
Ht1000 == {<<Rpci("41"), Rpci("43")>>}

-----------------------------------------------------------------------------
(* init_superio_ite(); its result is not looked at.                         *)
It8705fWriteEnable == {<< >>, <<Port("24")>>}
(* No segment is for the SPI bus; or writes to it are enabled, if they were *)
(* not, and the port is used as it is, or moved, or the parameter is wrong. *)
It87spiProbe ==
  {<< >>} \cup
  {enabled \o <<Port("07")>> \o port :
     enabled \in {<< >>, <<Port("24")>>},
     port \in {<< >>, <<RegisterProgrammerCall>>,
               <<Port("64"), Port("65"), RegisterProgrammerCall>>}}

Enables == AliM1533 \cup RdcR8610 \cup Sis85c496 \cup Sis501 \cup Sis5511 \cup Sis530
           \cup Piix4 \cup Ich4e \cup IchDc \cup Poulsbo \cup Tunnelcreek \cup IchDcSpi7
           \cup IchDcSpi9 \cup ViaPairs \cup VtVx \cup ViaInitSpi \cup Cs5530 \cup Cs5536
           \cup Sc1100 \cup Amd8111 \cup Sb600 \cup Osb4 \cup Sb400 \cup Sc520 \cup Nforce2
           \cup Ck804 \cup Mcp6x7x \cup Ht1000
           \cup It8705fWriteEnable \cup It87spiProbe

(* internal_init(): its parameters, permissions, the PCI access, which      *)
(* stays open as the mappings do, and the laptop check; the enable; the     *)
(* board enable and the parallel programmer.                                *)
InternalInit(enable) ==
  <<CheckCall, RgetIoPermsCall, Shutdown({}, {}, {}),
    [CheckCall EXCEPT !.call = "pci_init", !.access = {"pci"}], CheckCall>>
  \o enable \o <<CheckCall, RegisterProgrammerCall>>
=============================================================================
