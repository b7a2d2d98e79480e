----------------------------- MODULE MCInternal -----------------------------
(* Rows of the two tables in their order, and the machines they are for.    *)
EXTENDS Internal

Row(first, first_card, second, second_card) ==
  [first |-> first, first_card |-> first_card, second |-> second, second_card |-> second_card,
   dmi_pattern |-> NONE, lb |-> NONE, phase |-> "P3", limit |-> 0, status |-> "OK",
   enable |-> "poke"]
Starts(text) == [text |-> text, start |-> TRUE, end |-> FALSE]
Ends(text) == [text |-> text, start |-> FALSE, end |-> TRUE]
Whole(text) == [text |-> text, start |-> TRUE, end |-> TRUE]

VT6X4 == Row("1106:0691", NONE, "1106:3057", NONE)
DBE6X == Row("1022:2090", NONE, "1022:2080", NONE)
P5GD1 == Row("8086:266a", "1043:80a6", "8086:2668", "1043:814e")
T60 == Row("8086:27a0", "17aa:2015", "8086:27b9", "17aa:2009")

(* abit VA6 and VT6X4, Artec DBE61 and DBE62, ASUS P5GD1 Pro and            *)
(* P5GD1(-VM), Lenovo T60, MSC Q7-TCTC, Tekram P6Pro-A5; and five rows as   *)
(* the table allows them: one for P1, an untested one for P2, two of the    *)
(* same name, an untested one with a name.                                  *)
MCBoards == <<
  [VT6X4 EXCEPT !.dmi_pattern = Ends(<<"VA6">>)],
  [VT6X4 EXCEPT !.lb = "abit:vt6x4"],
  [DBE6X EXCEPT !.lb = "artecgroup:dbe61"],
  [DBE6X EXCEPT !.lb = "artecgroup:dbe62"],
  [P5GD1 EXCEPT !.dmi_pattern = Whole(<<"P5GD1", "PRO">>)],
  [P5GD1 EXCEPT !.status = "NT"],
  [T60 EXCEPT !.dmi_pattern = Starts(<<"ThinkPad">>), !.phase = "P2",
              !.enable = "p2_whitelist_laptop"],
  [Row("8086:8186", "8086:8186", "8086:8800", NONE) EXCEPT
     !.dmi_pattern = Whole(<<"MSC">>), !.phase = "P2", !.enable = "p2_not_a_laptop"],
  [Row("1106:3038", "0925:1234", "1106:0596", "1106:0000") EXCEPT !.limit = 256, !.enable = NONE],
  [P5GD1 EXCEPT !.phase = "P1"],
  [DBE6X EXCEPT !.phase = "P2", !.dmi_pattern = Whole(<<"Notebook">>), !.status = "NT",
                !.enable = "p2_whitelist_laptop"],
  [DBE6X EXCEPT !.lb = "twice", !.limit = 512],
  [DBE6X EXCEPT !.lb = "twice"],
  [VT6X4 EXCEPT !.lb = "untested", !.status = "NT"] >>

Chipset(device, results) == [device |-> device, results |-> results]
MCChipsets == <<
  Chipset("1002:4377", {"OK", "FATAL"}),                       (* sb400     *)
  Chipset("1022:2080", {"OK", "FAILED"}),                      (* cs5536    *)
  Chipset("1022:2090", {"OK", "FAILED"}),
  Chipset("10de:03e0", {"OK", "NONFATAL", "NOT_DONE_YET"}),    (* mcp6x_7x  *)
  Chipset("1106:0691", {"NOT_DONE_YET"}),                      (* byte merge*)
  Chipset("1106:0596", {"OK", "FAILED"}),                      (* amd8111   *)
  Chipset("8086:2640", {"OK", "FAILED"}),                      (* ich_dc    *)
  Chipset("8086:27b9", {"OK", "NONFATAL", "FATAL"}),           (* ich7      *)
  Chipset("8086:8186", {"OK", "FAILED", "NONFATAL"}) >>        (* tunnelcreek *)

PciDevice(device, card) == [device |-> device, card |-> card]
MCPci == {
  {},
  {PciDevice("1106:0691", NONE), PciDevice("1106:3057", NONE), PciDevice("1106:0596", NONE)},
  {PciDevice("1022:2090", NONE), PciDevice("1022:2080", NONE)},
  {PciDevice("8086:266a", "1043:80a6"), PciDevice("8086:2668", "1043:814e"), PciDevice("8086:2640", NONE)},
  {PciDevice("8086:266a", "1043:80a6"), PciDevice("8086:2668", "1043:0000")},
  {PciDevice("8086:27a0", "17aa:2015"), PciDevice("8086:27b9", "17aa:2009")},
  {PciDevice("8086:8186", "8086:8186"), PciDevice("8086:8800", NONE)},
  {PciDevice("1106:3038", "0925:1234"), PciDevice("1106:0596", "1106:0000"), PciDevice("10de:03e0", NONE)},
  {PciDevice("1002:4377", NONE), PciDevice("1022:2090", NONE), PciDevice("1022:2080", NONE)} }

MCDmi == {NONE, {<<"P5GD1", "PRO">>, <<"MSC">>}, {<<"ThinkPad", "T60">>, <<"abit", "VA6">>},
          {<<"P5GD1", "PRO", "2">>, <<"Notebook">>}}
MCChassis == {NONE, "Desktop", "Notebook", "Blade"}
MCCoreboot == {"no table", "no record", "abit:vt6x4", "artecgroup:dbe62", "twice"}
MCSuperio == {<<a, b>> : a \in {NONE}, b \in {NONE, "IT8705F"}}
        \cup {<<"IT8707F", b>> : b \in {"IT8707F", "W83627"}}

MCMachines ==
  {m \in [pci : MCPci, dmi : MCDmi, chassis : MCChassis, coreboot : MCCoreboot,
          superio : {[port \in {0, 1} |-> s[port + 1]] : s \in MCSuperio}] :
     /\ m.dmi = NONE => m.chassis = NONE
     /\ m.superio # [port \in {0, 1} |-> NONE] => m.coreboot = "no table" /\ m.chassis = NONE}

MCParams ==
  {p \in [boardenable : {NONE, "force", "garbage"}, boardmismatch : {NONE, "force"},
          laptop : {NONE, "force_I_want_a_brick", "this_is_not_a_laptop"},
          mainboard : {NONE, "abit:vt6x4", "artecgroup:dbe62", "twice", "untested"}] :
     /\ p.mainboard \in {"abit:vt6x4", "untested"} => p.laptop = NONE
     /\ p.boardenable = "garbage" => p.boardmismatch = NONE /\ p.laptop = NONE /\ p.mainboard = NONE}
=============================================================================
