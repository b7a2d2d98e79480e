--------------------------- MODULE MCParallelChips ---------------------------
EXTENDS ParallelChips

(* Two pages, or erase blocks, of three bytes.                              *)
MCContents == {[a \in Addr |-> 1], [a \in Addr |-> IF a \in {1, 5} THEN 0 ELSE 1]}
Mixed == [a \in Addr |-> IF a \in {2, 4} THEN 1 ELSE 0]
OnePage == [a \in Addr |-> IF a \in {0, 1, 2} THEN 1 ELSE 0]

Calls(functions, starts, lens, datas) ==
  {k \in [function : functions, start : starts, len : lens, data : datas] : k.start + k.len <= Size}

MCJobs ==
  Calls({"write_jedec_1"}, {0, 1}, {2, 4}, {Mixed})
  \cup Calls(BlindWrites, {0, 2}, {2, 4}, {Mixed})
  \cup Calls({"write_jedec"}, {0, 3}, {3, 6}, {Mixed, OnePage})
  \cup Calls(SectorErases, {0, 3}, {3}, {Mixed})
  \cup Calls(ChipErases, {0, 3}, {3, 6}, {Mixed})

(* Chips of flashchips.c; 16 is 64 KB.                                      *)
LockChip(unlock, size, page, blocks) ==
  [unlock |-> unlock, size |-> size, page |-> page, blocks |-> blocks,
   a_model |-> FALSE, gap |-> FALSE]
Gap(c) == [c EXCEPT !.gap = TRUE]
Every(n, size) == {k * n : k \in 0 .. size \div n - 1}
Quartered(size) == Every(16, size) \cup {size - 8, size - 6, size - 4}
Sectors(size, starts) == Every(16, size) \cup UNION {s .. s + 15 : s \in starts}

MCLockChips ==
  {LockChip("unlock_82802ab", 128, 16, Every(16, 128)),                  (* 82802AB       *)
   Gap(LockChip("unlock_82802ab", 256, 16,
                Every(16, 256) \cup {240 + 2 * k : k \in 0 .. 7})),      (* LHF00L04      *)
   LockChip("unlock_49fl00x", 64, 4, Every(8, 64)),                      (* Pm49FL002     *)
   LockChip("unlock_49fl00x", 128, 16, Every(16, 128)),                  (* Pm49FL004     *)
   LockChip("unlock_49lfxxxc", 128, 1, Quartered(128)),                  (* SST49LF004C   *)
   LockChip("unlock_sst_fwhub", 64, 4, Every(4, 64)),                    (* SST49LF002A/B *)
   LockChip("unlock_sst_fwhub", 96, 16, Every(16, 96)),                  (* SST49LF003A/B *)
   LockChip("unlock_stm50flw0x0x", 128, 16, Every(16, 128)),             (* M50FW040      *)
   Gap(LockChip("unlock_stm50flw0x0x", 64, 16, Quartered(64))),          (* M50FW002      *)
   Gap(LockChip("unlock_stm50flw0x0x", 128, 16, Sectors(128, {0, 16, 112}))),  (* M50FLW040B *)
   LockChip("unlock_stm50flw0x0x", 256, 16, Sectors(256, {0, 16, 240})), (* M50FLW080B    *)
   [LockChip("unlock_stm50flw0x0x", 256, 16, Sectors(256, {0, 224, 240}))
      EXCEPT !.a_model = TRUE],                                          (* M50FLW080A    *)
   LockChip("unlock_w39v040fb", 128, 16, Every(16, 128)),                (* W39V040FB     *)
   LockChip("unlock_w39v080fa", 256, 16, Every(16, 256)),                (* W39V080FA     *)
   LockChip("unlock_28f004s5", 128, 16, Every(16, 128)),                 (* 28F008S3/S5   *)
   LockChip("unlock_lh28f008bjt", 256, 16,
            Every(16, 256) \cup {2 * k : k \in 0 .. 7})}                 (* LH28F008BJT   *)

(* On every chip: all registers alike but one, of any two values. And where *)
(* there are eight registers or fewer: each as after a reset, open or       *)
(* locked down, in any combination.                                         *)
MCLockContents(c) ==
  {[[b \in c.blocks |-> u] EXCEPT ![a] = v] :
     u \in LockValues(c), v \in LockValues(c), a \in c.blocks}
  \cup IF Cardinality(c.blocks) > 8 THEN {}
       ELSE [c.blocks -> LockValues(c) \cap {{}, {"write"}, {"write", "down"}}]
=============================================================================
