---------------------------- MODULE SpiAdapters ----------------------------
(***************************************************************************)
(* External SPI programmers from init() to shutdown: a Dediprog SF100 and  *)
(* FT2232 based adapters on USB, a Bus Pirate on a serial line, Linux'     *)
(* spidev, and on the pins of a serial port a "pony" (SI-Prog or serbang)  *)
(* or an AJAWe. A driver is the list of what it does; any of it may fail,  *)
(* and what it leaves is what the next user, and the chip, will find.      *)
(***************************************************************************)
EXTENDS Integers, Sequences

CONSTANTS
  Zeros,        (* the number of 0x00 after which a Bus Pirate's terminal   *)
                (* goes to raw bitbang mode: 20                             *)
  MaxSwallow    (* bytes a Bus Pirate may still take for data at most       *)

ASSUME AdaptersAssumption == Zeros \in Nat \ {0} /\ MaxSwallow \in Nat

VARIABLES
  adapter,      (* which of them                                            *)
  dev,          (* the device: its mode, whether the chip has power, ...    *)
  line,         (* what a Bus Pirate has sent and nobody has read           *)
  phase,        (* "init", "use", "shutdown", "end"                         *)
  step,         (* the next entry of the list                               *)
  open,         (* the device is open                                       *)
  shutdownfn,   (* the shutdown function is registered                      *)
  usable,       (* the SPI programmer is registered                         *)
  linkfailed    (* a message was lost                                       *)

adapterVars == <<adapter, dev, line, phase, step, open, shutdownfn, usable, linkfailed>>

(* What a step does, with what, and what follows if it fails: "return",     *)
(* "close" before that, or "ignore".                                        *)
S(op, arg, onfail) == [op |-> op, arg |-> arg, onfail |-> onfail]
Just(op) == S(op, "none", "return")
Send(byte) == S("send", byte, "return")
Wait(key) == S("wait", key, "return")
Expect(token) == S("expect", token, "return")
Ask(what) == S("ask", what, "return")
Replicate(n, s) == [k \in 1 .. n |-> s]

(* Mutant: the voltage is set before the engine is started.                 *)
DediprogInitVoltageLate ==
  <<Just("parameters"), Just("open"), S("ask", "set_configuration", "close"),
    S("ask", "claim", "close"), Just("register_shutdown"), S("ask", "leds", "ignore"),
    Ask("A"), Ask("A"), Ask("devicestring"), Ask("C"), Just("register_master"),
    Ask("voltage"), S("ask", "leds", "ignore")>>
DediprogInit ==
  <<Just("parameters"), Just("open"), S("ask", "set_configuration", "close"),
    S("ask", "claim", "close"), Just("register_shutdown"), S("ask", "leds", "ignore"),
    Ask("A"), Ask("A"), Ask("devicestring"), Ask("C"),
    S("parameters", "voltage", "return"), Ask("voltage"), Just("register_master"),
    S("ask", "leds", "ignore")>>

DediprogShutdown == <<Ask("voltage-off"), Ask("release"), Just("close")>>

(* 0x00 asks for raw bitbang mode, 0x0f resets, 0x01 asks for raw SPI mode. *)
(* Mutant: one 0x00 is taken to be enough.                                  *)
RawBitbangOnce == <<Send("00")>>
RawBitbang == Replicate(Zeros, Send("00"))
BuspirateInit ==
  <<Just("parameters"), Just("open"), Just("register_shutdown")>>
  \o RawBitbang
  \o <<Wait("BBIO"), Send("0f"), Wait("irate"), Expect("hardware"), Wait("irmware"), Expect("version"),
       Wait("HiZ>"), Just("version")>>
  \o RawBitbang
  \o <<Wait("BBIO"), Expect("1"), S("send", "01", "ignore"), Wait("SPI"), Expect("1"),
       Send("power"), Expect("ok"), Send("speed"), Expect("ok"), Send("config"), Expect("ok"),
       Send("cs-high"), Expect("ok"), Just("register_master")>>
BuspirateShutdown ==
  <<S("send", "00", "close"), S("wait", "BBIO", "close"), S("expect", "1", "close"),
    S("send", "0f", "close"), Just("close")>>

Ft2232Init ==
  <<Just("parameters"), Just("open"), S("ask", "reset", "ignore"),
    S("ask", "latency", "ignore"), S("ask", "chunksize", "ignore"), S("ask", "bitmode", "ignore"),
    S("ask", "divide-by-5", "close"), S("ask", "divisor", "close"), S("ask", "no-loopback", "close"),
    S("ask", "pins", "close"), Just("register_master")>>

LinuxSpiInit ==
  <<Just("parameters"), Just("open"), Just("register_shutdown"),
    Ask("speed"), Ask("mode"), Ask("bits"), Just("register_master")>>
LinuxSpiShutdown == <<Just("close")>>

(* The clock of an SI-Prog or serbang is wired back to another pin, so the  *)
(* driver sees whether one is there. An AJAWe is taken on trust.            *)
PonyInit ==
  <<Just("open"), Just("parameters")>> \o Replicate(10, Ask("toggle"))
  \o <<Just("register_master")>>
AjaweInit == <<Just("open"), Just("parameters"), Just("register_master")>>

InitOf ==
  CASE adapter = "dediprog" -> DediprogInit [] adapter = "buspirate" -> BuspirateInit
    [] adapter = "ft2232" -> Ft2232Init [] adapter = "linux_spi" -> LinuxSpiInit
    [] adapter = "ajawe" -> AjaweInit [] OTHER -> PonyInit
ShutdownOf ==
  IF ~shutdownfn THEN <<>>
  ELSE CASE adapter = "dediprog" -> DediprogShutdown [] adapter = "buspirate" -> BuspirateShutdown
         [] OTHER -> LinuxSpiShutdown
List == IF phase = "init" THEN InitOf ELSE ShutdownOf

(* A Bus Pirate may be found in any mode, even in the middle of a command   *)
(* of a run that was aborted, which will swallow what is sent for a while.  *)
Devices ==
  CASE adapter = "buspirate" ->
         [mode : {"terminal", "bbio", "spi"}, zeros : {0}, swallow : 0 .. MaxSwallow,
          firmware : {"2.3", "5.4", "6.2"}, power : BOOLEAN, ready : {{}}]
    [] OTHER -> [mode : {"usb"}, zeros : {0}, swallow : {0}, firmware : {"good", "other"},
                 power : BOOLEAN, ready : {{}}]

AdaptersInit ==
  /\ adapter \in {"dediprog", "buspirate", "ft2232", "linux_spi", "pony", "ajawe"}
  /\ dev \in Devices
  /\ (dev.swallow > 0 => dev.mode = "spi")
  /\ line = <<>> /\ phase = "init" /\ step = 1
  /\ open = FALSE /\ shutdownfn = FALSE /\ usable = FALSE /\ linkfailed = FALSE

-----------------------------------------------------------------------------
(* The Bus Pirate: what it answers to a byte, and its state after it. Its   *)
(* terminal takes zeros until there were enough of them.                    *)
MoreZeros == dev.mode = "terminal" /\ dev.zeros + 1 < Zeros
Answers(byte) ==
  IF dev.swallow > 0 THEN <<>>
  ELSE CASE byte = "00" -> IF MoreZeros THEN <<"echo">> ELSE <<"BBIO", "1">>
         [] byte = "0f" /\ dev.mode = "bbio" ->
              <<"noise", "irate", "hardware", "irmware", "version", "noise", "HiZ>">>
         [] byte = "01" /\ dev.mode = "bbio" -> <<"SPI", "1">>
         [] byte \in {"power", "speed", "config", "cs-high"} /\ dev.mode = "spi" -> <<"ok">>
         [] OTHER -> <<>>

Takes(byte) ==
  IF dev.swallow > 0 THEN [dev EXCEPT !.swallow = @ - 1]
  ELSE CASE byte = "00" ->
              IF MoreZeros THEN [dev EXCEPT !.zeros = @ + 1]
              ELSE [dev EXCEPT !.mode = "bbio", !.zeros = 0]
         [] byte = "0f" /\ dev.mode = "bbio" ->
              [dev EXCEPT !.mode = "terminal", !.power = FALSE, !.ready = {}]
         [] byte = "01" /\ dev.mode = "bbio" -> [dev EXCEPT !.mode = "spi"]
         [] byte = "power" /\ dev.mode = "spi" ->
              [dev EXCEPT !.power = TRUE, !.ready = @ \cup {byte}]
         [] byte \in {"speed", "config", "cs-high"} /\ dev.mode = "spi" ->
              [dev EXCEPT !.ready = @ \cup {byte}]
         [] OTHER -> dev

(* The other devices do what they are asked, or say they did not.           *)
Does(what) ==
  CASE what = "voltage" -> [dev EXCEPT !.power = TRUE]
    [] what = "voltage-off" -> [dev EXCEPT !.power = FALSE]
    [] OTHER -> [dev EXCEPT !.ready = @ \cup {what}]
Declines(what) == what \in {"devicestring", "toggle"} /\ dev.firmware = "other"

-----------------------------------------------------------------------------
Now(op) == phase \in {"init", "shutdown"} /\ step <= Len(List) /\ List[step].op = op
Arg == List[step].arg
Proceed == step' = step + 1 /\ UNCHANGED phase

(* A failing init() leads to programmer_shutdown() as well.                 *)
Over == step' = 1 /\ phase' = (IF phase = "init" THEN "shutdown" ELSE "end")
StepFails(isopen) ==
  /\ IF List[step].onfail = "ignore" THEN Proceed ELSE Over
  /\ open' = (isopen /\ List[step].onfail # "close")

(* Parameters the driver rejects: a garbled voltage=, device=, type=; or a  *)
(* voltage it cannot set, which it finds when it is to set it.              *)
Parameters ==
  /\ Now("parameters")
  /\ \/ Proceed /\ UNCHANGED open
     \/ StepFails(open)
  /\ UNCHANGED <<adapter, dev, line, shutdownfn, usable, linkfailed>>

(* An empty type= is reported, its string freed twice, and SI-Prog assumed: *)
(* the C library may stop the program at the second free(), with nothing    *)
(* shut down; or it does not notice, and init() goes on (Parameters).       *)
FreedTwice ==
  /\ Now("parameters") /\ adapter = "pony"
  /\ phase' = "end" /\ step' = 1 /\ open' = FALSE
  /\ UNCHANGED <<adapter, dev, line, shutdownfn, usable, linkfailed>>

OpenDevice ==
  /\ Now("open")
  /\ \/ open' = TRUE /\ Proceed
     \/ StepFails(FALSE)
  /\ UNCHANGED <<adapter, dev, line, shutdownfn, usable, linkfailed>>

Register ==
  /\ \/ Now("register_shutdown") /\ shutdownfn' = TRUE /\ UNCHANGED usable
     \/ Now("register_master") /\ usable' = TRUE /\ UNCHANGED shutdownfn
  /\ Proceed
  /\ UNCHANGED <<adapter, dev, line, open, linkfailed>>

SendByte ==
  /\ Now("send")
  /\ \/ dev' = Takes(Arg) /\ line' = line \o Answers(Arg) /\ Proceed /\ UNCHANGED <<open, linkfailed>>
     \/ ~linkfailed /\ linkfailed' = TRUE /\ StepFails(open) /\ UNCHANGED <<dev, line>>
  /\ UNCHANGED <<adapter, shutdownfn, usable>>

(* buspirate_wait_for_string() throws away what comes before its key.       *)
Key(key) == CHOOSE k \in 1 .. Len(line) : line[k] = key /\ \A j \in 1 .. k - 1 : line[j] # key
WaitForString ==
  /\ Now("wait") /\ \E k \in 1 .. Len(line) : line[k] = Arg
  /\ line' = SubSeq(line, Key(Arg) + 1, Len(line))
  /\ Proceed
  /\ UNCHANGED <<adapter, dev, open, shutdownfn, usable, linkfailed>>

(* It waits for ever if the device has nothing more to say.                 *)
WaitsForEver ==
  /\ Now("wait") \/ Now("expect")
  /\ IF Now("wait") THEN \A k \in 1 .. Len(line) : line[k] # Arg ELSE line = <<>>

ExpectByte ==
  /\ Now("expect") /\ line # <<>>
  /\ line' = Tail(line)
  /\ IF Head(line) = Arg THEN Proceed /\ UNCHANGED open ELSE StepFails(open)
  /\ UNCHANGED <<adapter, dev, shutdownfn, usable, linkfailed>>

(* A read that fails is nothing to rely on.                                 *)
ReadFails ==
  /\ Now("wait") \/ Now("expect")
  /\ ~linkfailed /\ linkfailed' = TRUE
  /\ StepFails(open)
  /\ UNCHANGED <<adapter, dev, line, shutdownfn, usable>>

(* Binary SPI needs firmware 2.4.                                           *)
CheckVersion ==
  /\ Now("version")
  /\ IF dev.firmware = "2.3" THEN StepFails(open) ELSE Proceed /\ UNCHANGED open
  /\ UNCHANGED <<adapter, dev, line, shutdownfn, usable, linkfailed>>

(* A call of the USB library or of the kernel; when it fails, the device    *)
(* may have done what it was asked all the same.                            *)
AskDevice ==
  /\ Now("ask")
  /\ \/ /\ IF Declines(Arg) THEN StepFails(open) /\ UNCHANGED dev
           ELSE dev' = Does(Arg) /\ Proceed /\ UNCHANGED open
        /\ UNCHANGED linkfailed
     \/ /\ ~linkfailed /\ linkfailed' = TRUE
        /\ StepFails(open)
        /\ dev' \in {dev, Does(Arg)}
  /\ UNCHANGED <<adapter, line, shutdownfn, usable>>

Close ==
  /\ Now("close")
  /\ open' = FALSE
  /\ Proceed
  /\ UNCHANGED <<adapter, dev, line, shutdownfn, usable, linkfailed>>

ListEnds ==
  /\ phase \in {"init", "shutdown"} /\ step > Len(List)
  /\ step' = 1
  /\ phase' = (IF phase = "init" THEN "use" ELSE "end")
  /\ UNCHANGED <<adapter, dev, line, open, shutdownfn, usable, linkfailed>>

(* SPI commands: one that is lost half way leaves a Bus Pirate with command *)
(* set 2 waiting for the rest of it.                                        *)
Use ==
  /\ phase = "use"
  /\ phase' = "shutdown"
  /\ \/ UNCHANGED <<dev, linkfailed>>
     \/ /\ adapter = "buspirate" /\ dev.firmware = "6.2" /\ MaxSwallow > 0
        /\ linkfailed' = TRUE /\ dev' = [dev EXCEPT !.swallow = 1]
  /\ UNCHANGED <<adapter, line, step, open, shutdownfn, usable>>

AdaptersHost ==
  \/ Parameters \/ FreedTwice \/ OpenDevice \/ Register \/ SendByte \/ WaitForString \/ ExpectByte
  \/ CheckVersion \/ AskDevice \/ Close \/ ListEnds \/ Use
AdaptersNext == AdaptersHost \/ ReadFails \/ ((WaitsForEver \/ phase = "end") /\ UNCHANGED adapterVars)

AdaptersSpec == AdaptersInit /\ [][AdaptersNext]_adapterVars /\ WF_adapterVars(AdaptersHost)

-----------------------------------------------------------------------------
(* A programmer is registered only when the device can take SPI commands:   *)
(* the Bus Pirate is in raw SPI mode with every setting acknowledged, in    *)
(* whatever mode it was found; the Dediprog is started and its voltage is   *)
(* on; an SI-Prog or serbang is there. FT2232's reset and bit mode are set  *)
(* without a look at the result, and an AJAWe without a look at anything:   *)
(* it is left out here.                                                     *)
UsableIsReady ==
  usable /\ phase \in {"init", "use"} =>
    CASE adapter = "buspirate" ->
           dev.mode = "spi" /\ dev.power /\ dev.ready = {"power", "speed", "config", "cs-high"}
      [] adapter = "dediprog" -> dev.power /\ {"claim", "devicestring", "C"} \subseteq dev.ready
      [] adapter = "ft2232" -> "pins" \in dev.ready /\ (linkfailed \/ "bitmode" \in dev.ready)
      [] adapter = "linux_spi" -> {"mode", "bits"} \subseteq dev.ready
      [] adapter = "pony" -> "toggle" \in dev.ready
      [] OTHER -> adapter = "ajawe"

(* Whatever fails, be it the first message or the last command: at the end  *)
(* the device is closed, the Dediprog's and the Bus Pirate's chip is        *)
(* without power, and the Bus Pirate is at its terminal, unless a message   *)
(* was lost. FT2232, pony and AJAWe have no shutdown function.              *)
LeftAsFound ==
  phase = "end" /\ ~linkfailed =>
    /\ adapter \in {"dediprog", "buspirate", "linux_spi"} => ~open
    /\ adapter = "ft2232" => (open => usable)
    /\ shutdownfn /\ adapter \in {"dediprog", "buspirate"} => ~dev.power
    /\ shutdownfn /\ adapter = "buspirate" => dev.mode = "terminal"

(* The program ends, and does not wait for ever for a device: unless a      *)
(* message was lost, or the Bus Pirate swallows all that init() sends, or   *)
(* is at its terminal when shutdown sends a single 0x00, as it is when its  *)
(* firmware was too old.                                                    *)
AdapterOver ==
  \/ phase = "end" \/ linkfailed \/ dev.swallow > 0
  \/ adapter = "buspirate" /\ dev.firmware = "2.3" /\ phase = "shutdown"
=============================================================================
