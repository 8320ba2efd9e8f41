------------------------------ MODULE Platform ------------------------------
(***************************************************************************)
(* The memory map and the interrupt wiring of the virtual platform         *)
(* (system.cpp, platform_mmap.h) beside the addresses and numbers the      *)
(* firmware has for them (platform.h and the device headers): two tables   *)
(* kept by hand on each side.  The devices, the router and the core are    *)
(* libraries, taken for what the wiring makes of them.  Addresses count    *)
(* half words, as 0x80000000 is beyond the integers of TLC.                *)
(***************************************************************************)
EXTENDS Integers, Sequences, FiniteSets

CONSTANT MaxRaised   \* bound: interrupt lines raised at the same time

VARIABLES
  bus,      \* the last access: [dev, off] asked for, [dev, off]s reached
  pin,      \* the last pin selected: [dev, sig] asked for, [dev, sig]s it carries
  raised,   \* interrupt lines raised: [dev, line]
  claims    \* sources claimed, each with the line it is served as, innermost last

platformVars == <<bus, pin, raised, claims>>

H(a) == a \div 2

At(start, size) == [start |-> H(start), size |-> H(size)]

\* The 13 entries of the map.
platfrom_mmap ==
  [ clint |-> At(\h2000000, \hc000),   plic  |-> At(\hc000000, \h200008),
    aon   |-> At(\h10000000, \h150),   prci  |-> At(\h10008000, \h14),
    gpio0 |-> At(\h10012000, \h44),    uart0 |-> At(\h10013000, \h1c),
    qspi0 |-> At(\h10014000, \h78),    pwm0  |-> At(\h10015000, \h30),
    uart1 |-> At(\h10023000, \h1c),    qspi1 |-> At(\h10024000, \h78),
    pwm1  |-> At(\h10025000, \h30),    qspi2 |-> At(\h10034000, \h78),
    pwm2  |-> At(\h10035000, \h30) ]

\* What the router has a range for: the map and the two memories.
Memories ==
  [ mem_qspi |-> At(\h20000000, 512 * 1024 * 1024),
    mem_ram  |-> [start |-> \h40000000, size |-> H(128 * 1024)] ]

Window(d) == IF d \in DOMAIN Memories THEN Memories[d] ELSE platfrom_mmap[d]
Targets   == DOMAIN platfrom_mmap \cup DOMAIN Memories

\* The router hands an access to the target whose range holds the address.
Decode(a) ==
  { [dev |-> d, off |-> a - Window(d).start] :
      d \in { e \in Targets : /\ Window(e).start <= a
                              /\ a < Window(e).start + Window(e).size } }

\* The firmware's base addresses, under the platform's names (SPI0 is qspi0);
\* mem_qspi and mem_ram are the linker script's flash and ram.
CTRL_ADDR ==
  [ maskrom |-> H(\h1000), trapvec |-> H(\h1010), otp_mem |-> H(\h20000), clic |-> H(\h800000),
    clint |-> H(\h2000000),  plic  |-> H(\hC000000),  aon   |-> H(\h10000000),
    prci  |-> H(\h10008000), otp   |-> H(\h10010000), gpio0 |-> H(\h10012000),
    uart0 |-> H(\h10013000), qspi0 |-> H(\h10014000), pwm0  |-> H(\h10015000),
    uart1 |-> H(\h10023000), qspi1 |-> H(\h10024000), pwm1  |-> H(\h10025000),
    qspi2 |-> H(\h10034000), pwm2  |-> H(\h10035000),
    mem_qspi |-> H(\h20000000), mem_ram |-> \h40000000 ]

Steps(first, last, by) == { first + by * i : i \in 0 .. (last - first) \div by }

PLIC_NUM_INTERRUPTS == 52

AonRegisters ==
  Steps(\h0, \h18, 8) \cup {\h1C, \h20} \cup {\h40, \h48, \h4C, \h50, \h60, \h70}
    \cup Steps(\h80, \hBC, 4) \cup Steps(\h100, \h14C, 4)
ClicRegisters  == {\h0, \h4000, \h4004, \hBFF8, \hBFFC, \h400, \h800, \hC00}
ClintRegisters == {\h0, \h4000, \h4004, \hBFF8, \hBFFC}
GpioRegisters  == Steps(\h0, \h40, 4)
OtpRegisters   == Steps(\h0, \h34, 4)
PlicRegisters  ==
  Steps(4, 4 * PLIC_NUM_INTERRUPTS, 4) \cup {\h1000, \h1004, \h2000, \h2004, \h200000, \h200004}
PrciRegisters  == {\h0, \h4, \h8, \hC, \hF0}
PwmRegisters   == {\h0, \h8, \h10} \cup Steps(\h20, \h2C, 4)
SpiRegisters   ==
  {\h0, \h4, \h10, \h14, \h18} \cup Steps(\h28, \h2e, 2)
    \cup {\h40, \h48, \h4c, \h50, \h54, \h60, \h64, \h70, \h74}
UartRegisters  == Steps(\h0, \h18, 4)

\* The linker script puts the image at 0x400000 of the flash, gives it 512M
\* there, beyond the end of the platform's memory, and 16K of ram.
FlashEnd == \h400000 + 512 * 1024 * 1024

Registers(d) ==
  CASE d = "aon"      -> AonRegisters
    [] d \in {"maskrom", "trapvec", "otp_mem"} -> {0}
    [] d = "clic"     -> ClicRegisters
    [] d = "clint"    -> ClintRegisters
    [] d = "gpio0"    -> GpioRegisters
    [] d = "otp"      -> OtpRegisters
    [] d = "plic"     -> PlicRegisters
    [] d = "prci"     -> PrciRegisters
    [] d \in {"pwm0", "pwm1", "pwm2"}    -> PwmRegisters
    [] d \in {"qspi0", "qspi1", "qspi2"} -> SpiRegisters
    [] d \in {"uart0", "uart1"}          -> UartRegisters
    [] d = "mem_qspi" -> {\h400000, FlashEnd - 4}
    [] d = "mem_ram"  -> {0, 16 * 1024 - 4}

\* Declared by the headers of the original chip; nothing answers on the platform.
NotOnPlatform ==
  (UNION { { [dev |-> d, off |-> H(r)] : r \in Registers(d) } :
             d \in {"maskrom", "trapvec", "otp_mem", "clic", "otp"} })
    \cup {[dev |-> "prci", off |-> H(\hF0)]}

\* The last word of the linker script's flash, which the platform has not.
BehindFlash == {[dev |-> "mem_qspi", off |-> H(FlashEnd - 4)]}

\* _REG32(d, r)
Access ==
  /\ \E d \in DOMAIN CTRL_ADDR : \E r \in Registers(d) :
       bus' = [dev |-> d, off |-> H(r), reached |-> Decode(CTRL_ADDR[d] + H(r))]
  /\ UNCHANGED <<pin, raised, claims>>

\* The signals of a device on the GPIO pins, with the input and output
\* function that connects them.
PinsOf(dev, iof, pinOf) == { [dev |-> dev, sig |-> s, iof |-> iof, pin |-> pinOf[s]] : s \in DOMAIN pinOf }

PwmPins(dev, low) == PinsOf(dev, 1, [cmp0 |-> low, cmp1 |-> low + 1, cmp2 |-> low + 2, cmp3 |-> low + 3])

\* The bindings of iof0_i, iof0_o and iof1_i.
BoundPins ==
  PinsOf("qspi1", 0, [sck |-> 5, mosi |-> 3, miso |-> 4, scs0 |-> 2, scs2 |-> 9, scs3 |-> 10])
    \cup PinsOf("uart1", 0, [tx |-> 16, rx |-> 17])
    \cup PwmPins("pwm0", 0) \cup PwmPins("pwm2", 10) \cup PwmPins("pwm1", 19)

\* The firmware's IOF numbers; its masks name the pins of a PWM from the lowest.
IOF ==
  PinsOf("qspi1", 0, [scs0 |-> 2, scs1 |-> 8, scs2 |-> 9, scs3 |-> 10, mosi |-> 3, miso |-> 4,
                      sck |-> 5, dq2 |-> 6, dq3 |-> 7])
    \cup PinsOf("qspi2", 0, [scs0 |-> 26, mosi |-> 27, miso |-> 28, sck |-> 29, dq2 |-> 30, dq3 |-> 31])
    \cup PinsOf("uart0", 0, [rx |-> 16, tx |-> 17])
    \cup PinsOf("uart1", 0, [rx |-> 24, tx |-> 25])
    \cup PwmPins("pwm0", 0) \cup PwmPins("pwm1", 19) \cup PwmPins("pwm2", 10)

\* Pins the firmware names that have nothing behind them.
UnboundPins ==
  { [dev |-> p.dev, sig |-> p.sig] :
      p \in { q \in IOF : q.dev \in {"qspi2", "uart1"} \/ q.sig \in {"scs1", "dq2", "dq3"} } }

\* The pins of UART0, which carry something else.
CrossedPins == { [dev |-> "uart0", sig |-> s] : s \in {"rx", "tx"} }

\* IOF_EN, IOF_SEL
SelectPin ==
  /\ \E p \in IOF :
       pin' = [dev |-> p.dev, sig |-> p.sig,
               carries |-> { [dev |-> q.dev, sig |-> q.sig] :
                               q \in { r \in BoundPins : r.iof = p.iof /\ r.pin = p.pin } }]
  /\ UNCHANGED <<bus, raised, claims>>

\* Mutant: the sources of pwm1 and pwm2 are swapped.
Wired_PwmsSwapped ==
  [uart0 |-> <<3>>, uart1 |-> <<4>>, qspi0 |-> <<5>>, qspi1 |-> <<6>>, qspi2 |-> <<7>>,
   pwm0 |-> <<40, 41, 42, 43>>, pwm1 |-> <<48, 49, 50, 51>>, pwm2 |-> <<44, 45, 46, 47>>]

\* global_int_s: the source each interrupt line is bound to.
Wired ==
  [uart0 |-> <<3>>, uart1 |-> <<4>>, qspi0 |-> <<5>>, qspi1 |-> <<6>>, qspi2 |-> <<7>>,
   pwm0 |-> <<40, 41, 42, 43>>, pwm1 |-> <<44, 45, 46, 47>>, pwm2 |-> <<48, 49, 50, 51>>]

Lines == UNION { { [dev |-> d, line |-> i] : i \in DOMAIN Wired[d] } : d \in DOMAIN Wired }

SourceOf(l) == Wired[l.dev][l.line]

\* The firmware's first source of each device, in order.
INT_BASE ==
  [wdogcmp |-> 1, rtccmp |-> 2, uart0 |-> 3, uart1 |-> 4, qspi0 |-> 5, qspi1 |-> 6, qspi2 |-> 7,
   gpio0 |-> 8, pwm0 |-> 40, pwm1 |-> 44, pwm2 |-> 48]

\* Devices the firmware has a source for and the platform no line.
Unwired == {"wdogcmp", "rtccmp", "gpio0"}

\* The device and line the firmware takes a source for.
NameOf(n) ==
  LET d == CHOOSE e \in DOMAIN INT_BASE :
             /\ INT_BASE[e] <= n
             /\ \A f \in DOMAIN INT_BASE : INT_BASE[f] <= n => INT_BASE[f] <= INT_BASE[e]
  IN  [dev |-> d, line |-> n - INT_BASE[d] + 1]

Raise ==
  /\ Cardinality(raised) < MaxRaised
  /\ \E l \in Lines \ raised : raised' = raised \cup {l}
  /\ UNCHANGED <<bus, pin, claims>>

ClaimedSources == { claims[i].source : i \in DOMAIN claims }

\* A line is raised that no handler has claimed: the PLIC interrupts.
Pending == { l \in raised : SourceOf(l) \notin ClaimedSources }

\* handle_m_ext_interrupt of the application: claim, serve the device, complete.
ClaimSource ==
  /\ \E l \in Pending :
       claims' = Append(claims, [source |-> SourceOf(l), line |-> NameOf(SourceOf(l))])
  /\ UNCHANGED <<bus, pin, raised>>

ServeSource ==
  /\ claims # << >>
  /\ raised' = raised \ {claims[Len(claims)].line}
  /\ claims' = SubSeq(claims, 1, Len(claims) - 1)
  /\ UNCHANGED <<bus, pin>>

NoAccess == [dev |-> "none", off |-> 0, reached |-> {}]
NoPin    == [dev |-> "none", sig |-> "none", carries |-> {}]

PlatformInit ==
  /\ bus = NoAccess
  /\ pin = NoPin
  /\ raised = {}
  /\ claims = << >>

-----------------------------------------------------------------------------
(* What an access the firmware means for a register reaches: that register *)
(* of that device, nothing else; nothing at all if the platform has none.  *)
RegistersReached ==
  LET asked == [dev |-> bus.dev, off |-> bus.off]
  IN  bus.dev # "none" /\ asked \notin BehindFlash =>
        bus.reached = IF asked \in NotOnPlatform THEN {} ELSE {asked}

(* A pin selected for a signal of a device carries that signal.            *)
PinsCarry ==
  LET asked == [dev |-> pin.dev, sig |-> pin.sig]
  IN  pin.dev # "none" /\ asked \notin CrossedPins =>
        pin.carries = IF asked \in UnboundPins THEN {} ELSE {asked}

(* Every open handler serves a line that is raised, no two the same, and   *)
(* the driver has its source.                                              *)
InterruptsFindTheirDevice ==
  \A i \in 1 .. Len(claims) :
    /\ claims[i].line \in raised
    /\ claims[i].source < PLIC_NUM_INTERRUPTS
    /\ \A j \in 1 .. Len(claims) : claims[i].line = claims[j].line => i = j

(* Where the two sides agree: a register the firmware names is the register *)
(* of the device it names, a pin it selects carries the signal it names,   *)
(* and a claimed source leads to the device that raised it, also when      *)
(* several are raised and claimed (system.cpp, platform_mmap.h and         *)
(* platform.h are kept in step by hand).  What the platform has not got is *)
(* listed: NotOnPlatform, UnboundPins, Unwired.  The pins of UART0 and the *)
(* end of the flash, where they disagree, are not part of it.              *)
PlatformAgrees ==
  /\ RegistersReached /\ PinsCarry /\ InterruptsFindTheirDevice
  /\ DOMAIN INT_BASE \ DOMAIN Wired = Unwired

(* platform.h:74-76: pins 16 and 17 are the receive and transmit line of   *)
(* UART0, for which init.c and hello.c select them.                        *)
UartPinsCarry == pin.dev = "uart0" => pin.carries = {[dev |-> "uart0", sig |-> pin.sig]}
=============================================================================
