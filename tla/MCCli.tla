------------------------------- MODULE MCCli --------------------------------
(* A table of six entries on three buses, up to two interfaces, and command *)
(* lines of up to three options.                                            *)
EXTENDS Cli

C(name, bustype, size, probe, generic) ==
  [name |-> name, bustype |-> bustype, size |-> size, probe |-> probe, generic |-> generic]

(* Two chips that answer the same probe, one of them on both buses and too  *)
(* big for one of them; one that cannot be probed; then SFDP's entry, the   *)
(* opaque chip of a programmer and the generic ones, in the order they have *)
(* in flashchips[].                                                         *)
MCflashchips == <<C("A", {"SPI"}, 1, TRUE, FALSE), C("B", {"SPI", "LPC"}, 2, TRUE, FALSE),
                  C("unprobed", {"LPC"}, 1, FALSE, FALSE),
                  C("SFDP", {"SPI"}, 1, TRUE, TRUE), C("Opaque", {"PROG"}, 1, TRUE, FALSE),
                  C("generic", {"SPI"}, 1, TRUE, TRUE)>>

O(opt, arg) == [opt |-> opt, arg |-> arg]
MCOptions == {O("-r", "file"), O("-w", "file"), O("-v", "file"), O("-E", "none"),
              O("-n", "none"), O("-f", "none"), O("-c", "B")}
MCCommandLines ==
  UNION {[1 .. n -> MCOptions] : n \in 0 .. 3} \cup
  {<<O("-L", "none")>>, <<O("-R", "none")>>, <<O("-h", "none"), O("-r", "file")>>,
   <<O("-w", "bad")>>, <<O("other", "none")>>, <<O("-c", "C")>>,
   <<O("-p", "known"), O("-E", "none")>>, <<O("-p", "known"), O("-p", "known")>>,
   <<O("-p", "unknown")>>, <<O("-c", "unprobed"), O("-w", "file"), O("-f", "none")>>,
   <<O("-c", "unprobed"), O("-r", "file"), O("-f", "none")>>,
   <<O("-c", "B"), O("-f", "none"), O("-r", "file"), O("-c", "A")>>,
   <<O("-c", "SFDP"), O("-w", "file"), O("-n", "none"), O("-f", "none")>>}

MCProgrammerSets == {<< >>, <<{"SPI"}>>, <<{"LPC"}>>, <<{"SPI", "LPC"}>>, <<{"SPI"}, {"LPC"}>>,
                     <<{"SPI"}, {"SPI"}>>, <<{"SPI"}, {"PROG"}>>, <<{"SPI", "PROG"}>>}
MCDecodeLimits == {[b \in {"SPI", "LPC", "PROG"} |-> IF b = "LPC" THEN 1 ELSE 2]}
=============================================================================
