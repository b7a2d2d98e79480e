----------------------------- MODULE MCSpiChips -----------------------------
EXTENDS SpiChips

(* A chip of two pages of four bytes, erased in blocks of a page; chunks    *)
(* that do and that do not divide a page, and larger ones.                  *)
MCContents == {[a \in Addr |-> 1], [a \in Addr |-> IF a \in {1, 6} THEN 0 ELSE 1]}
MCProgrammers ==
  {[max_data_read |-> n, max_data_write |-> m, aai |-> b] :
     n \in {3}, m \in {3}, b \in BOOLEAN}
  \cup {[max_data_read |-> n, max_data_write |-> n, aai |-> TRUE] : n \in {0, 2, 8}}

Zeros == [a \in Addr |-> 0]
Mixed == [a \in Addr |-> IF a \in {2, 5} THEN 1 ELSE 0]

Calls(functions, starts, lens, datas) ==
  {k \in [function : functions, start : starts, len : lens, data : datas] : k.start + k.len <= Size}

Jobs1 ==
  Calls({"spi_chip_read", "spi_chip_write_256", "spi_chip_write_1"}, Addr, 1 .. Size, {Mixed})
  \cup Calls({"spi_aai_write"}, {0, 2, 4}, {2, 4, 6, 8}, {Zeros, Mixed})
  \cup Calls({"spi_aai_write"}, {1, 3}, {3, 5, 7}, {Zeros})
  \cup Calls({"spi_block_erase", "spi_block_erase_50"}, {0, 4}, {4}, {Zeros})
  \cup Calls({"spi_chip_erase"}, {0, 4}, {4, 8}, {Zeros})

(* The masks of spi_disable_blockprotect_at25df(), _at25f() and of          *)
(* spi_disable_blockprotect() with two block protection bits, on chips with *)
(* the enable commands of the table; "other" is a bit no mask names.        *)
MCBits == {"bp0", "bp1", "other", "lock", "wpp"}

Kind(lock, wp, locker, soft) ==
  {[bp |-> {"bp0", "bp1"}, lock |-> lock, wp |-> wp, features |-> f, accepts |-> a,
    writable |-> {"bp0", "bp1", "other", "lock"}, locker |-> locker, locks_softly |-> soft] :
     f \in SUBSET {"WREN", "EWSR"}, a \in SUBSET {"WREN", "EWSR"}}

MCChips ==
  {c \in Kind({"lock"}, {"wpp"}, {"lock"}, TRUE) \cup Kind({"lock"}, {}, {"lock"}, FALSE)
          \cup Kind({}, {}, {"lock"}, FALSE) \cup Kind({}, {}, {"lock"}, TRUE) :
     IF c.features = {} THEN "EWSR" \in c.accepts ELSE c.features \subseteq c.accepts}
=============================================================================
