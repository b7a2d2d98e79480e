-------------------------- MODULE MCSpiProgrammers --------------------------
EXTENDS SpiProgrammers

MCMasters == {"dediprog", "buspirate_v1", "buspirate_v2", "ft2232", "linux_spi",
              "it87spi", "wbsio", "it85spi", "sb600", "mcp6x", "rayer_spi"}

(* Single opcodes, RDID and RDSR, erase commands, reads and programs of     *)
(* several lengths, up to and past what each master takes.                  *)
MCCommands ==
  {[writecnt |-> c[1], readcnt |-> c[2]] :
     c \in {<<1, 0>>, <<1, 2>>, <<1, 3>>, <<2, 0>>, <<4, 0>>, <<4, 1>>, <<4, 4>>, <<4, 8>>, <<4, 12>>,
            <<5, 0>>, <<5, 4>>, <<8, 0>>, <<9, 0>>, <<16, 0>>, <<17, 0>>}}

MCBulkContents ==
  {[a \in BulkAddr |-> 1], [a \in BulkAddr |-> 0], [a \in BulkAddr |-> IF a \in {1, 2, 5} THEN 0 ELSE 1]}

(* Serial devices that write single bytes; that combine up to 1, 2 and 4;   *)
(* operation and serial buffers of a few operations.                        *)
SD(o, s, w, r) == [opbuf |-> o, serbuf |-> s, write_n |-> w, read_n |-> r]
MCSerprogDevices ==
  {SD(12, 6, 0, 0), SD(12, 16, 0, 1), SD(13, 6, 1, 2), SD(17, 4, 2, 2), SD(13, 16, 4, 0)}
MCReads == {[addr |-> 0, len |-> 3]}

(* One of each kind: for SPI, for the others, for both; without a map of    *)
(* buses; without one of the commands that are needed; and one that refuses *)
(* what it need not do.                                                     *)
Limits == {"Q_WRNMAXLEN", "Q_RDNMAXLEN", "Q_PGMNAME", "Q_SERBUF", "Q_OPBUF"}
Buffered == {"O_INIT", "O_DELAY", "R_BYTE", "R_NBYTES", "O_WRITEB", "O_EXEC"}
Spis == {"Q_BUSTYPE", "O_SPIOP", "S_BUSTYPE", "S_PIN_STATE", "S_SPI_FREQ"}
Peer(map, buses_) == [map |-> map, buses |-> buses_, refuses |-> {}, version |-> "version-1"]
Both == Peer(Limits \cup Buffered \cup Spis, {"spi", "nonspi"})
MCSyncDevices ==
  {Both, Peer(Spis, {"spi"}), Peer(Buffered \cup {"Q_BUSTYPE"}, {"nonspi"}),
   Peer(Buffered, {"nonspi"}), Peer(Spis \ {"O_SPIOP"}, {"spi"}),
   Peer((Buffered \ {"O_EXEC"}) \cup {"Q_BUSTYPE"}, {"nonspi"}),
   [Both EXCEPT !.refuses = Limits \cup {"S_SPI_FREQ"}],
   [Both EXCEPT !.refuses = {"O_INIT"}], [Both EXCEPT !.version = "version-2"]}
Earlier(s) == [k \in DOMAIN s |-> [byte |-> s[k], of |-> "earlier"]]
MCStale ==
  {Earlier(s) : s \in {<<>>, <<"NAK">>, <<"ACK">>, <<"NAK", "ACK">>, <<"NAK", "ACK", "NAK">>,
                   <<"other", "NAK", "ACK", "NAK">>}}
=============================================================================
