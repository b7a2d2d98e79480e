---------------------------- MODULE MCEraseWrite ----------------------------
(* Small chips for TLC: six bytes, three granules of two bytes.             *)
EXTENDS EraseWrite

CONSTANTS D   (* a byte that is neither 0xff nor 0x00 *)

MCByte == {ERASED, ZERO, D}

(* A region of one big and one of one small block, a known layout without a *)
(* function, the whole chip in one block, and an empty slot of the table.   *)
MCErasers == << [fn |-> TRUE,  bounds |-> <<0, 4, 6>>],
                [fn |-> FALSE, bounds |-> <<0, 2, 4, 6>>],
                [fn |-> TRUE,  bounds |-> <<0, 6>>],
                [fn |-> FALSE, bounds |-> <<0>>] >>

(* Blocks smaller than a granule, as flashchips.c has for the SST28SF040A.  *)
MCSmallBlocks == << [fn |-> TRUE, bounds |-> <<0, 1, 2, 3, 4, 5, 6>>],
                    [fn |-> TRUE, bounds |-> <<0, 6>>] >>

Chip(p, q, r) == [a \in Addr |-> (p \o q \o r)[a + 1]]

Blank == <<ERASED, ERASED>>
Half == <<D, ERASED>>
Full == <<ZERO, D>>

(* Blank, half programmed and full granules in every order.                 *)
MCContents == {Chip(p, q, r) : p, q, r \in {Blank, Half, Full}}

(* The first and the last granule differ from a blank chip, the second not. *)
MCImages == {Chip(Full, Blank, Half), Chip(Blank, <<D, D>>, Full)}

(* No -i; a region that cuts two granules; one byte.                        *)
MCLayouts == {Addr, {1, 2}, {5}}

Job(op, verify) == [op |-> op, verify |-> verify, force |-> FALSE, mayWrite |-> TRUE,
                    bad |-> {}, has |-> {"read", "write"}]

(* Plain requests; reading and verifying; what chip_safety_check() refuses, *)
(* and what --force gets past it.                                           *)
MCPlainJobs == {Job("write", TRUE), Job("write", FALSE), Job("erase", FALSE)}

MCRefused == {[Job("write", TRUE) EXCEPT !.mayWrite = FALSE],
              [Job("erase", FALSE) EXCEPT !.bad = {"erase"}],
              [Job("write", TRUE) EXCEPT !.bad = {"write"}],
              [Job("verify", TRUE) EXCEPT !.bad = {"read"}],
              [Job("write", TRUE) EXCEPT !.has = {"read"}],
              [Job("read", FALSE) EXCEPT !.has = {"write"}]}

MCJobs == MCPlainJobs \cup {Job("read", FALSE), Job("verify", TRUE)}
          \cup MCRefused \cup {[j EXCEPT !.force = TRUE] : j \in MCRefused}

MCEraseJobs == {Job("erase", FALSE)}
=============================================================================
