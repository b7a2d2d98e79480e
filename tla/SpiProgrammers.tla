--------------------------- MODULE SpiProgrammers ---------------------------
(***************************************************************************)
(* The SPI programmers other than Intel's chipsets: one command of each    *)
(* master (SpiMasters), the way from init() to shutdown of the external    *)
(* ones (SpiAdapters), one call of those with read and write functions of  *)
(* their own (BulkIo), and serprog, at whose other end a second program    *)
(* runs: finding it (SerprogSync) and a session with it (Serprog). A       *)
(* behaviour is about one of them: mode says which.                        *)
(***************************************************************************)
EXTENDS SpiMasters, SpiAdapters, BulkIo, Serprog, SerprogSync

VARIABLE mode     (* "command", "adapter", "bulk", "session" or "serprog"   *)

programmerVars == <<vars, adapterVars, bulkVars, syncVars, serprogVars, mode>>

MastersIdle ==
  /\ master = "linux_spi" /\ command = [writecnt |-> 1, readcnt |-> 0]
  /\ pc = "end" /\ i = 0
  /\ cs = FALSE /\ in = <<>> /\ out = 0 /\ chip = <<>>
  /\ regs = <<>> /\ readarr = <<>> /\ result = "none" /\ lost = "nothing" /\ other = 0
AdaptersIdle ==
  /\ adapter = "none" /\ dev = <<>> /\ line = <<>> /\ phase = "end" /\ step = 1
  /\ open = FALSE /\ shutdownfn = FALSE /\ usable = FALSE /\ linkfailed = FALSE
BulkIdle ==
  /\ bulkjob = CHOOSE j \in BulkJobs : TRUE
  /\ bulkpos = bulkjob.start /\ bulkbuf = <<>> /\ bulkmem = [a \in BulkAddr |-> 1]
  /\ announced = Unannounced /\ bulkresult = "none" /\ bulklost = FALSE /\ swallowed = FALSE
SyncIdle ==
  /\ peer = CHOOSE d \in SyncDevices : TRUE
  /\ eats = 0 /\ told = {} /\ ready = {} /\ toPeer = << >> /\ toHost = << >> /\ tcp = FALSE
  /\ tries = 0 /\ scanned = 0 /\ queries = << >> /\ buses = {}
  /\ syncpc = "none" /\ lates = 0 /\ clean = FALSE
SerprogIdle ==
  /\ serprog = CHOOSE d \in SerprogDevices : TRUE
  /\ host = Fresh /\ todo = << >> /\ ops = 0 /\ streamed = 0
  /\ asked = NoCmd /\ got = << >> /\ outcome = "none" /\ spc = "none"
  /\ link = FALSE /\ input = << >> /\ answers = << >>
  /\ opbuf = << >> /\ performed = << >> /\ drivers = FALSE
  /\ issued = << >> /\ naks = {} /\ calls = 0 /\ refusals = 0

ProgrammersInit ==
  \/ mode = "command" /\ Init /\ AdaptersIdle /\ BulkIdle /\ SyncIdle /\ SerprogIdle
  \/ mode = "adapter" /\ MastersIdle /\ AdaptersInit /\ BulkIdle /\ SyncIdle /\ SerprogIdle
  \/ mode = "bulk" /\ MastersIdle /\ AdaptersIdle /\ BulkInit /\ SyncIdle /\ SerprogIdle
  \/ mode = "session" /\ MastersIdle /\ AdaptersIdle /\ BulkIdle /\ SyncInit /\ SerprogIdle
  \/ mode = "serprog" /\ MastersIdle /\ AdaptersIdle /\ BulkIdle /\ SyncIdle /\ SerprogInit

InCommand(A) ==
  mode = "command" /\ A /\ UNCHANGED <<adapterVars, bulkVars, syncVars, serprogVars, mode>>
InAdapter(A) ==
  mode = "adapter" /\ A /\ UNCHANGED <<vars, bulkVars, syncVars, serprogVars, mode>>
InBulk(A) ==
  mode = "bulk" /\ A /\ UNCHANGED <<vars, adapterVars, syncVars, serprogVars, mode>>
InSession(A) ==
  mode = "session" /\ A /\ UNCHANGED <<vars, adapterVars, bulkVars, serprogVars, mode>>
InSerprog(A) ==
  mode = "serprog" /\ A /\ UNCHANGED <<vars, adapterVars, bulkVars, syncVars, mode>>

ProgrammersNext ==
  \/ InCommand(Next) \/ InAdapter(AdaptersNext) \/ InBulk(BulkNext)
  \/ InSession(SyncNext) \/ InSerprog(SerprogNext)
ProgrammersSpec == ProgrammersInit /\ [][ProgrammersNext]_programmerVars

(* One thread. A device answers what it is sent; the serprog driver has no  *)
(* other end to its blocking reads.                                         *)
ProgrammersFairSpec ==
  /\ ProgrammersSpec
  /\ WF_programmerVars(InCommand(Program))
  /\ WF_programmerVars(InAdapter(AdaptersHost))
  /\ WF_programmerVars(InBulk(BulkHost))
  /\ WF_programmerVars(InSession(SyncHost)) /\ WF_programmerVars(InSession(SyncPeer))
  /\ WF_programmerVars(InSerprog(HostStep)) /\ WF_programmerVars(InSerprog(DeviceStep))

(* What was asked for is what the chip got, and what is returned is its     *)
(* answer; and the chip is not left in the middle of a command.             *)
TransfersIntact == CommandIntact /\ NotLeftSelected

(* An adapter is used only when it is ready, and is left as it was found.   *)
AdaptersInStep == UsableIsReady /\ LeftAsFound

(* Each of them comes to its end: the command, the way through init() and   *)
(* shutdown, the call, the search for a device and every call in a session; *)
(* with the exceptions their modules name.                                  *)
Ended ==
  CASE mode = "command" -> CommandOver
    [] mode = "adapter" -> AdapterOver
    [] mode = "bulk" -> BulkOver
    [] mode = "session" -> SyncOver
    [] mode = "serprog" -> SessionIdle
AllEnd ==
  /\ <>Ended
  /\ (mode = "serprog" /\ ~SessionIdle) ~> SessionIdle
=============================================================================
