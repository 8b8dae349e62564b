---------------------------- MODULE StartupProofs ----------------------------
(***************************************************************************)
(* What ClockTreeProofs shows of sysclk_init() holds in the whole program: *)
(* with interrupts, the boot after it, and resets at any time.             *)
(***************************************************************************)
EXTENDS Startup, ClockTreeProofs

LEMMA BootKeepsClock == BootStep => UNCHANGED clockVars
  <1> USE DEF Advance
  <1>1. ClockOn \/ SetDivisor \/ SwitchOn \/ UnmaskSource \/ EnableLine \/ SetHandler
           => UNCHANGED clockVars
    BY Zenon DEF ClockOn, SetDivisor, SwitchOn, UnmaskSource, EnableLine, SetHandler
  <1>2. DriveLow \/ RaisePin \/ LowerPin \/ EnablePllb \/ PllbLocked \/ Delay
           => UNCHANGED clockVars
    BY Zenon DEF DriveLow, RaisePin, LowerPin, EnablePllb, PllbLocked, Delay
  <1>3. ReadConnected \/ WriteCommand \/ CommandReturns \/ Branch \/ ClearRequest
           => UNCHANGED clockVars
    BY Zenon DEF ReadConnected, WriteCommand, CommandReturns, Branch, ClearRequest
  <1> QED
    BY <1>1, <1>2, <1>3, Zenon DEF BootStep

LEMMA StartupStep == ClockInv /\ [Next]_vars => ClockInv'
  <1> SUFFICES ASSUME ClockInv, [Next]_vars PROVE ClockInv'
    BY Zenon
  <1>1. CASE Main
    BY <1>1, BootKeepsClock, SysclkStep, ClockStutters, Zenon DEF Main
  <1>2. CASE Hardware
    BY <1>2, ControllerStep, ClockStutters, Zenon DEF Hardware, PllbLocks, ModuleBoots
  <1>3. CASE ProcessorReset
    BY <1>3, ResetClock, Zenon DEF ProcessorReset
  <1>4. CASE \E irq \in Handlers : Interrupt(irq)
    BY <1>4, ClockStutters, Zenon DEF Interrupt
  <1>5. CASE \E src \in Sources : Occur(src)
    BY <1>5, ClockStutters, Zenon DEF Occur
  <1>6. CASE UNCHANGED vars
    BY <1>6, ClockStutters, Zenon DEF vars
  <1> QED
    BY <1>1, <1>2, <1>3, <1>4, <1>5, <1>6, Zenon DEF Next

THEOREM StartupClock == Spec => []ClockInv
  <1>1. Init => ClockInv
    BY InitClock, Zenon DEF Init
  <1> QED
    BY <1>1, StartupStep, PTL DEF Spec

\* Wherever a reset falls into the change of the clocks, the processor is never
\* clocked faster than chip and flash allow, nor from a clock that is not stable.
THEOREM StartupNeverTooFast == Spec => []NeverTooFast
  BY StartupClock, ClockInvImpliesNeverTooFast, PTL

\* When sysclk_init() has returned, its waits having ended well, the drivers
\* compute with the frequency that the processor has.
THEOREM StartupHzKnown == Spec => []HzKnown
  BY StartupClock, ClockInvImpliesHzKnown, PTL

-----------------------------------------------------------------------------
(* The list of the boot. *)

Is(i, op, what)      == Boot[i].op = op /\ Boot[i].what = what
Earlier(i, op, what) == \E j \in 1 .. i - 1 : Is(j, op, what)
\* The pin has been raised before step i, and not lowered since.
Raised(i, p) ==
    \E j \in 1 .. i - 1 :
        /\ Is(j, "raise", p)
        /\ \A k \in j + 1 .. i - 1 : ~Is(k, "lower", p) /\ ~Is(k, "drive", p)

LEMMA BootSteps ==
    /\ Len(Boot) = 49
    /\ Is(1, "clock", "PIOA") /\ Is(2, "drive", "RST") /\ Is(3, "raise", "RST")
    /\ Is(4, "drive", "OV_RST") /\ Is(5, "raise", "OV_RST")
    /\ Is(6, "clock", "TC0") /\ Is(7, "divide", "TC0") /\ Is(8, "nvic", "TC0")
    /\ Is(9, "unmask", <<"TC0", "CPCS">>) /\ Boot[9].of = "TC0"
    /\ Is(10, "start", "timer") /\ Boot[10].of = "TC0"
    /\ Is(11, "clock", "USART0") /\ Is(12, "divide", "USART0")
    /\ Is(13, "start", "tx") /\ Boot[13].of = "USART0"
    /\ Is(14, "start", "rx") /\ Boot[14].of = "USART0"
    /\ Is(15, "unmask", <<"USART0", "RXRDY">>) /\ Boot[15].of = "USART0"
    /\ Is(16, "nvic", "USART0")
    /\ Is(17, "clock", "PIOA") /\ Is(18, "claim", "comm")
    /\ Is(19, "nvic", "PIOA")
    /\ Is(20, "unmask", <<"PIOA", "comm">>) /\ Boot[20].of = "PIOA"
    /\ Is(21, "clock", "PIOA") /\ Is(22, "claim", "setup")
    /\ Is(23, "nvic", "PIOA")
    /\ Is(24, "unmask", <<"PIOA", "setup">>) /\ Boot[24].of = "PIOA"
    /\ Is(25, "lower", "RST") /\ Is(26, "delay", "none")
    /\ Is(27, "raise", "RST") /\ Is(28, "connect", "none")
    /\ Is(29, "pllb", "none") /\ Is(30, "lockb", "none")
    /\ Is(31, "claim", "vsync") /\ Is(32, "nvic", "PIOA")
    /\ Is(33, "raise", "OV_RST") /\ Is(34, "clock", "PIOA")
    /\ Is(35, "start", "xclk") /\ Boot[35].of = "PMC"
    /\ Is(36, "clock", "TWI0") /\ Is(37, "divide", "TWI0")
    /\ Is(38, "nvic", "TWI0")
    /\ Is(39, "sensor", "none")
    /\ Is(40, "write", "none") /\ Is(41, "wait", "none")
    /\ Is(42, "write", "none") /\ Is(43, "wait", "none")
    /\ Is(44, "delay", "none") /\ Is(45, "connect", "none")
    /\ Is(46, "branch", "none")
    /\ Is(47, "write", "none") /\ Is(48, "wait", "none")
    /\ Is(49, "clear", "none")
  BY DEF Is, Boot, board_init, configure_tc, configure_usart_wifi,
         configure_wifi_comm_pin, configure_wifi_web_setup_pin, reset_wifi,
         init_camera, Command, Do, Clock, Divide, Start, Unmask, Nvic, Claim, Drive,
         Raise, Lower, Step

\* What a step of the list may name.
LEMMA BootNames ==
    \A i \in 1 .. 49 :
        /\ Boot[i].op = "clock" => Boot[i].what \in {"PIOA", "TC0", "USART0", "TWI0"}
        /\ Boot[i].op = "nvic" => Boot[i].what \in {"PIOA", "TC0", "USART0", "TWI0"}
        /\ Boot[i].op = "divide" => Boot[i].what \in {"TC0", "USART0", "TWI0"}
        /\ Boot[i].op = "start" => Boot[i].what \in {"timer", "tx", "rx", "xclk"}
        /\ Boot[i].op = "claim" => Boot[i].what \in {"comm", "setup", "vsync"}
        /\ Boot[i].op \in {"drive", "raise", "lower"} => Boot[i].what \in {"RST", "OV_RST"}
  BY BootSteps, SMTT(60) DEF Is

\* The order of the list: a peripheral is written to after its clock is on, and
\* a pin's interrupt is let through after its handler is in the table.
LEMMA ClockBeforeDivide ==
    \A i \in 1 .. 49 : Boot[i].op = "divide" => Earlier(i, "clock", Boot[i].what)
  <1> SUFFICES ASSUME NEW i \in 1 .. 49, Boot[i].op = "divide"
               PROVE  Earlier(i, "clock", Boot[i].what)
    OBVIOUS
  <1>1. i \in {7, 12, 37}
    BY BootSteps, SMTT(30) DEF Is
  <1> QED
    BY <1>1, BootSteps DEF Earlier, Is

LEMMA ClockBeforeStart ==
    \A i \in 1 .. 49 :
        Boot[i].op = "start" => Boot[i].of = "PMC" \/ Earlier(i, "clock", Boot[i].of)
  <1> SUFFICES ASSUME NEW i \in 1 .. 49, Boot[i].op = "start"
               PROVE  Boot[i].of = "PMC" \/ Earlier(i, "clock", Boot[i].of)
    OBVIOUS
  <1>1. i \in {10, 13, 14, 35}
    BY BootSteps, SMTT(30) DEF Is
  <1> QED
    BY <1>1, BootSteps DEF Earlier, Is

LEMMA ClaimBeforeUnmask ==
    \A i \in 1 .. 49 : Boot[i].op = "unmask" =>
        \/ Boot[i].what \in {<<"TC0", "CPCS">>, <<"USART0", "RXRDY">>}
        \/ Boot[i].what = <<"PIOA", "comm">> /\ Earlier(i, "claim", "comm")
        \/ Boot[i].what = <<"PIOA", "setup">> /\ Earlier(i, "claim", "setup")
  <1> SUFFICES ASSUME NEW i \in 1 .. 49, Boot[i].op = "unmask"
               PROVE  \/ Boot[i].what \in {<<"TC0", "CPCS">>, <<"USART0", "RXRDY">>}
                      \/ /\ Boot[i].what = <<"PIOA", "comm">>
                         /\ Earlier(i, "claim", "comm")
                      \/ /\ Boot[i].what = <<"PIOA", "setup">>
                         /\ Earlier(i, "claim", "setup")
    OBVIOUS
  <1>1. i \in {9, 15, 20, 24}
    BY BootSteps, SMTT(30) DEF Is
  <1>2. i = 20 => Earlier(i, "claim", "comm")
    BY BootSteps DEF Earlier
  <1>3. i = 24 => Earlier(i, "claim", "setup")
    BY BootSteps DEF Earlier
  <1>4. /\ i = 9 => Boot[i].what = <<"TC0", "CPCS">>
        /\ i = 15 => Boot[i].what = <<"USART0", "RXRDY">>
        /\ i = 20 => Boot[i].what = <<"PIOA", "comm">>
        /\ i = 24 => Boot[i].what = <<"PIOA", "setup">>
    BY BootSteps, SMT DEF Is
  <1> QED
    BY <1>1, <1>2, <1>3, <1>4, Zenon

\* What is there when the sensor, and the module, are first turned to.
LEMMA BeforeSensor ==
    \A i \in 1 .. 49 : Boot[i].op = "sensor" =>
        /\ Earlier(i, "start", "xclk") /\ Earlier(i, "lockb", "none")
        /\ Earlier(i, "clock", "TWI0") /\ Earlier(i, "divide", "TWI0")
        /\ Raised(i, "OV_RST")
  <1> SUFFICES ASSUME NEW i \in 1 .. 49, Boot[i].op = "sensor"
               PROVE  /\ Earlier(i, "start", "xclk") /\ Earlier(i, "lockb", "none")
                      /\ Earlier(i, "clock", "TWI0") /\ Earlier(i, "divide", "TWI0")
                      /\ Raised(i, "OV_RST")
    OBVIOUS
  <1>1. i = 39
    BY BootSteps, SMTT(30) DEF Is
  <1>2. \A k \in 34 .. 38 : Boot[k].op \notin {"lower", "drive"}
    BY BootSteps, SMTT(30) DEF Is
  <1>3. Raised(i, "OV_RST")
    BY <1>1, <1>2, BootSteps DEF Raised, Is
  <1> QED
    BY <1>1, <1>3, BootSteps DEF Earlier, Is

LEMMA BeforeWrite ==
    \A i \in 1 .. 49 : Boot[i].op = "write" =>
        /\ Earlier(i, "start", "tx") /\ Earlier(i, "divide", "USART0")
        /\ Earlier(i, "lower", "RST") /\ Raised(i, "RST")
  <1> SUFFICES ASSUME NEW i \in 1 .. 49, Boot[i].op = "write"
               PROVE  /\ Earlier(i, "start", "tx") /\ Earlier(i, "divide", "USART0")
                      /\ Earlier(i, "lower", "RST") /\ Raised(i, "RST")
    OBVIOUS
  <1>1. i \in {40, 42, 47}
    BY BootSteps, SMTT(30) DEF Is
  <1>2. \A k \in 28 .. 46 : Boot[k].op \notin {"lower", "drive"}
    BY BootSteps, SMTT(30) DEF Is
  <1>3. Raised(i, "RST")
    BY <1>1, <1>2, BootSteps DEF Raised, Is
  <1> QED
    BY <1>1, <1>3, BootSteps DEF Earlier, Is

\* What the branch to the loop skips leaves no trace in the peripherals.
LEMMA AfterBranch ==
    \A i \in 1 .. 49 : Boot[i].op = "branch" =>
        \A k \in i .. 49 : Boot[k].op \in {"branch", "write", "wait", "clear"}
  BY BootSteps, SMTT(60) DEF Is

-----------------------------------------------------------------------------
(* The boot leaves behind it what its list says.                           *)

\* What step i leaves behind.
Done(i) ==
    /\ Boot[i].op = "clock" => Boot[i].what \in clocked
    /\ Boot[i].op = "divide" => Boot[i].what \in DOMAIN divisor
    /\ Boot[i].op = "start" => Boot[i].what \in on
    /\ Boot[i].op = "claim" => <<"PIOA", Boot[i].what>> \in claimed
    /\ Boot[i].op = "lockb" => pllb = "locked"
    /\ Is(i, "lower", "RST") => reset

\* Every step before the next one has had its effect, whatever came in between;
\* a pin's interrupt is let through only with its handler in the table.
BootInv ==
    /\ "PMC" \in clocked
    /\ \A i \in 1 .. at - 1 : Done(i)
    /\ Raised(at, "OV_RST") => pin["OV_RST"] = "high"
    /\ Raised(at, "RST") => power # "held"
    /\ unmasked \subseteq {<<"TC0", "CPCS">>, <<"USART0", "RXRDY">>} \cup claimed

LEMMA LoopIs == Loop = 50
  BY BootSteps DEF Loop

\* The next step is one of the list.
LEMMA ThisStep ==
    \A op : Ranges /\ Booting(op) => /\ at \in 1 .. 49 /\ at + 1 \in 1 .. Loop
                                           /\ Boot[at].op = op /\ This = Boot[at]
  BY LoopIs, SMT DEF Ranges, Booting, This

LEMMA InitRanges == Init => Ranges
  <1> SUFFICES ASSUME Init PROVE Ranges
    OBVIOUS
  <1>1. pin \in [{"RST", "OV_RST"} -> {"float", "low", "high"}]
    BY DEF Init
  <1>2. DOMAIN divisor \subseteq {"TC0", "USART0", "TWI0"}
    BY DEF Init
  <1> QED
    BY <1>1, <1>2, StartupAssumption, LoopIs, SMT DEF Init, Ranges

\* One step of the boot.
LEMMA BootRanges == ASSUME Ranges, BootStep PROVE Ranges'
  <1> USE DEF Advance, peripherals, globals
  <1>1. CASE ClockOn
    <2>1. This.what \in {"PIOA", "TC0", "USART0", "TWI0"} /\ at + 1 \in 1 .. Loop
      BY <1>1, ThisStep, BootNames, Zenon DEF ClockOn
    <2> QED
      BY <1>1, <2>1, Zenon DEF ClockOn, Ranges
  <1>2. CASE SetDivisor
    <2>1. This.what \in {"TC0", "USART0", "TWI0"} /\ at + 1 \in 1 .. Loop
      BY <1>2, ThisStep, BootNames, Zenon DEF SetDivisor
    <2>2. DOMAIN divisor' \subseteq DOMAIN divisor \cup {This.what}
      BY <1>2, Zenon DEF SetDivisor
    <2> QED
      BY <1>2, <2>1, <2>2, SMT DEF SetDivisor, Ranges
  <1>3. CASE SwitchOn
    <2>1. This.what \in {"timer", "tx", "rx", "xclk"} /\ at + 1 \in 1 .. Loop
      BY <1>3, ThisStep, BootNames, Zenon DEF SwitchOn
    <2> QED
      BY <1>3, <2>1, Zenon DEF SwitchOn, Ranges
  <1>4. CASE UnmaskSource
    <2>1. This.what \in Sources /\ at + 1 \in 1 .. Loop
      BY <1>4, ThisStep, ClaimBeforeUnmask, Zenon DEF UnmaskSource, Sources, Pins
    <2> QED
      BY <1>4, <2>1, SMT DEF UnmaskSource, Ranges
  <1>5. CASE EnableLine
    <2>1. This.what \in {"PIOA", "TC0", "USART0", "TWI0"} /\ at + 1 \in 1 .. Loop
      BY <1>5, ThisStep, BootNames, Zenon DEF EnableLine
    <2> QED
      BY <1>5, <2>1, Zenon DEF EnableLine, Ranges
  <1>6. CASE SetHandler
    <2>1. <<"PIOA", This.what>> \in Pins /\ at + 1 \in 1 .. Loop
      BY <1>6, ThisStep, BootNames, Zenon DEF SetHandler, Pins
    <2> QED
      BY <1>6, <2>1, SMT DEF SetHandler, Ranges
  <1>7. CASE DriveLow \/ RaisePin \/ LowerPin
    <2>1. This.what \in {"RST", "OV_RST"} /\ at + 1 \in 1 .. Loop
      BY <1>7, ThisStep, BootNames, Zenon DEF DriveLow, RaisePin, LowerPin
    <2>2. PICK level \in {"low", "high"} : Advance /\ SetPin(level)
      BY <1>7, Zenon DEF DriveLow, RaisePin, LowerPin
    <2> QED
      BY <2>1, <2>2, SMT DEF SetPin, Ranges
  <1>8. CASE EnablePllb \/ PllbLocked \/ Delay
    <2>1. at + 1 \in 1 .. Loop
      BY <1>8, ThisStep, Zenon DEF EnablePllb, PllbLocked, Delay
    <2> QED
      BY <1>8, <2>1, Zenon DEF EnablePllb, PllbLocked, Delay, Ranges
  <1>9. CASE ReadConnected \/ WriteCommand \/ CommandReturns \/ Branch \/ ClearRequest
    <2>1. at + 1 \in 1 .. Loop
      BY <1>9, ThisStep, Zenon
         DEF ReadConnected, WriteCommand, CommandReturns, Branch, ClearRequest
    <2>2. at' \in 1 .. Loop
      <3>1. Loop \in 1 .. Loop
        BY LoopIs
      <3> QED
        BY <1>9, <2>1, <3>1, Zenon
           DEF ReadConnected, WriteCommand, CommandReturns, Branch, ClearRequest
    <2>3. counts' \in 0 .. Timeout
      <3>1. 0 \in 0 .. Timeout
        BY StartupAssumption
      <3> QED
        BY <1>9, <3>1, Zenon
           DEF ReadConnected, WriteCommand, CommandReturns, Branch, ClearRequest, Ranges
    <2> QED
      BY <1>9, <2>2, <2>3, Zenon
         DEF ReadConnected, WriteCommand, CommandReturns, Branch, ClearRequest,
             Ranges
  <1> QED
    BY <1>1, <1>2, <1>3, <1>4, <1>5, <1>6, <1>7, <1>8, <1>9, Zenon DEF BootStep

LEMMA RangesStep == Ranges /\ [Next]_vars => Ranges'
  <1> SUFFICES ASSUME Ranges, [Next]_vars PROVE Ranges'
    BY Zenon
  <1> USE DEF peripherals, globals
  <1>1. CASE BootStep
    BY <1>1, BootRanges
  <1>2. CASE UNCHANGED <<at, peripherals, pending, globals, power, resets, reset>>
    BY <1>2, SMT DEF Ranges
  <1>3. CASE PllbLocks \/ ModuleBoots
    BY <1>3, Zenon DEF PllbLocks, ModuleBoots, Ranges
  <1>4. CASE ProcessorReset
    <2>1. (pin \in [{"RST", "OV_RST"} -> {"float", "low", "high"}])'
      BY <1>4 DEF ProcessorReset
    <2>2. (DOMAIN divisor \subseteq {"TC0", "USART0", "TWI0"})'
      BY <1>4 DEF ProcessorReset
    <2> QED
      BY <1>4, <2>1, <2>2, LoopIs, StartupAssumption, SMT
         DEF ProcessorReset, Ranges
  <1>5. ASSUME NEW irq \in Handlers, Interrupt(irq) PROVE Ranges'
    BY <1>5, StartupAssumption, SMT DEF Interrupt, Ranges
  <1>6. ASSUME NEW src \in Sources, Occur(src) PROVE Ranges'
    BY <1>6, SMT DEF Occur, Ranges
  <1>7. CASE UNCHANGED vars
    BY <1>2, <1>7, Zenon DEF vars
  <1> QED
    BY <1>1, <1>2, <1>3, <1>4, <1>5, <1>6, <1>7, Zenon DEF Next, Main, Hardware

LEMMA InitFlags == Init => Flags
  BY Zenon DEF Init, Flags

LEMMA FlagsStep == Flags /\ [Next]_vars => Flags'
  <1> SUFFICES ASSUME Flags, [Next]_vars PROVE Flags'
    BY Zenon
  <1> USE DEF Flags, peripherals, globals
  <1>1. CASE ClockOn \/ SetDivisor \/ SwitchOn \/ UnmaskSource \/ EnableLine \/ SetHandler
    BY <1>1, Zenon DEF ClockOn, SetDivisor, SwitchOn, UnmaskSource, EnableLine, SetHandler
  <1>2. CASE DriveLow \/ RaisePin \/ LowerPin
    BY <1>2, Zenon DEF DriveLow, RaisePin, LowerPin, SetPin
  <1>3. CASE EnablePllb \/ PllbLocked \/ Delay
    BY <1>3, Zenon DEF EnablePllb, PllbLocked, Delay
  <1>4. CASE ReadConnected \/ WriteCommand \/ CommandReturns \/ Branch \/ ClearRequest
    BY <1>4, Zenon
       DEF ReadConnected, WriteCommand, CommandReturns, Branch, ClearRequest
  <1>5. CASE UNCHANGED <<at, peripherals, pending, globals, power, resets, reset>>
    BY <1>5, Zenon
  <1>6. CASE PllbLocks \/ ModuleBoots \/ ProcessorReset
    BY <1>6, Zenon DEF PllbLocks, ModuleBoots, ProcessorReset
  <1>7. CASE \E irq \in Handlers : Interrupt(irq)
    BY <1>7, Zenon DEF Interrupt
  <1>8. CASE \E src \in Sources : Occur(src)
    BY <1>8, Zenon DEF Occur
  <1>9. CASE UNCHANGED vars
    BY <1>9, Zenon DEF vars
  <1> QED
    BY <1>1, <1>2, <1>3, <1>4, <1>5, <1>6, <1>7, <1>8, <1>9, Zenon
       DEF Next, Main, Hardware, BootStep

\* Done, Raised and the interrupts' masks depend on these variables only.
bootVars == <<at, clocked, unmasked, on, pllb, divisor, pin, claimed, power, reset>>

LEMMA PllbOnce ==
    \A i \in 1 .. 49 : Boot[i].op = "pllb" => \A j \in 1 .. i - 1 : Boot[j].op # "lockb"
  BY BootSteps, SMTT(30) DEF Is

\* What was raised before the step after this one: this step's pin, or, unless
\* this step lowers it, what was raised before.
LEMMA RaisedStep ==
    ASSUME NEW i \in 1 .. 49, NEW p, Raised(i + 1, p)
    PROVE  \/ Is(i, "raise", p)
           \/ Raised(i, p) /\ ~Is(i, "lower", p) /\ ~Is(i, "drive", p)
  <1>1. PICK j \in 1 .. i : /\ Is(j, "raise", p)
                            /\ \A k \in j + 1 .. i : ~Is(k, "lower", p) /\ ~Is(k, "drive", p)
    BY SMT DEF Raised
  <1>2. CASE j = i
    BY <1>1, <1>2
  <1>3. CASE j # i
    BY <1>1, <1>3, SMT DEF Raised
  <1> QED
    BY <1>2, <1>3

LEMMA BootInvInit == Init => BootInv
  <1> SUFFICES ASSUME Init PROVE BootInv
    OBVIOUS
  <1>1. at = 1 /\ "PMC" \in clocked /\ unmasked = {}
    BY Zenon DEF Init
  <1>2. 1 .. at - 1 = {}
    BY <1>1, SMT
  <1> QED
    BY <1>1, <1>2, Zenon DEF BootInv, Raised

LEMMA BootInvStutter == ASSUME BootInv, UNCHANGED bootVars PROVE BootInv'
  BY Zenon DEF BootInv, bootVars, Done, Raised, Is

\* A step of the boot other than the branch: what it does to the peripherals is
\* Done(at), and it leaves the rest as it is.
LEMMA AdvanceStep ==
    ASSUME BootInv, Ranges, NEW n \in 1 .. 49, at = n, at' = n + 1,
           clocked \subseteq clocked', DOMAIN divisor \subseteq DOMAIN divisor',
           on \subseteq on', claimed \subseteq claimed',
           \A i \in 1 .. n - 1 : Boot[i].op = "lockb" /\ pllb = "locked" => pllb' = "locked",
           reset => reset', Done(n)',
           Is(n, "raise", "OV_RST") => pin'["OV_RST"] = "high",
           Is(n, "raise", "RST") => power' # "held",
           (~Is(n, "lower", "OV_RST") /\ ~Is(n, "drive", "OV_RST"))
               => (pin["OV_RST"] = "high" => pin'["OV_RST"] = "high"),
           (~Is(n, "lower", "RST") /\ ~Is(n, "drive", "RST"))
               => (power # "held" => power' # "held"),
           unmasked' \subseteq {<<"TC0", "CPCS">>, <<"USART0", "RXRDY">>} \cup claimed'
    PROVE  BootInv'
  <1>1. "PMC" \in clocked'
    BY DEF BootInv
  <1>2. ASSUME NEW i \in 1 .. n PROVE Done(i)'
    <2>1. CASE i = n
      BY <2>1
    <2>2. CASE i # n
      <3>1. i \in 1 .. at - 1
        BY <2>2, SMT
      <3>2. Done(i)
        BY <3>1, Zenon DEF BootInv
      <3>3. Boot[i].op = "lockb" => pllb' = "locked"
        BY <3>1, <3>2 DEF Done
      <3> QED
        BY <3>2, <3>3, Zenon DEF Done, Is
    <2> QED
      BY <2>1, <2>2
  <1>3. \A i \in 1 .. at' - 1 : Done(i)'
    BY <1>2, SMT
  <1>4. Raised(at', "OV_RST") => pin'["OV_RST"] = "high"
    BY RaisedStep, Zenon DEF BootInv
  <1>5. Raised(at', "RST") => power' # "held"
    BY RaisedStep, Zenon DEF BootInv
  <1> QED
    BY <1>1, <1>3, <1>4, <1>5, Zenon DEF BootInv, Raised, Is

LEMMA BootInvBoot == ASSUME BootInv, Ranges, BootStep PROVE BootInv'
  <1> USE DEF Advance, peripherals, globals
  <1>n. PICK n : n = at
    OBVIOUS
  <1>0. ASSUME NEW op, Booting(op)
        PROVE  /\ n \in 1 .. 49 /\ This = Boot[n] /\ Boot[n].op = op
               /\ \A o, what : Is(n, o, what) => o = op
    BY <1>0, <1>n, ThisStep, Zenon DEF Is
  <1>U. unmasked \subseteq {<<"TC0", "CPCS">>, <<"USART0", "RXRDY">>} \cup claimed
    BY DEF BootInv
  <1>E. ASSUME NEW op, NEW what, n \in 1 .. 49, Earlier(n, op, what)
        PROVE  \E i \in 1 .. n - 1 : Is(i, op, what) /\ Done(i)
    BY <1>E, <1>n, Zenon DEF Earlier, BootInv
  <1>C. ASSUME NEW p, n \in 1 .. 49, Earlier(n, "clock", p) PROVE p \in clocked
    <2>1. PICK i \in 1 .. n - 1 : Is(i, "clock", p) /\ Done(i)
      BY <1>C, <1>E, Zenon
    <2> QED
      BY <2>1, Zenon DEF Done, Is
  <1>1. CASE ClockOn
    <2>1. /\ Booting("clock") /\ at' = at + 1 /\ clocked' = clocked \cup {This.what}
          /\ UNCHANGED <<on, pllb, divisor, pin, unmasked, claimed, power, reset>>
      BY <1>1, Zenon DEF ClockOn
    <2>2. n \in 1 .. 49 /\ This = Boot[n] /\ Boot[n].op = "clock"
      BY <2>1, <1>0
    <2>3. Done(n)'
      BY <2>1, <2>2 DEF Done, Is
    <2> QED
      BY <2>1, <2>2, <2>3, <1>n, <1>U, AdvanceStep, SMT DEF Is
  <1>2. CASE SetDivisor
    <2>1. /\ Booting("divide") /\ at' = at + 1
          /\ UNCHANGED <<clocked, on, pllb, pin, unmasked, claimed, power, reset>>
      BY <1>2, Zenon DEF SetDivisor
    <2>2. n \in 1 .. 49 /\ This = Boot[n] /\ Boot[n].op = "divide"
      BY <2>1, <1>0
    <2>3. This.what \in clocked
      BY <2>2, ClockBeforeDivide, <1>C, Zenon
    <2>4. DOMAIN divisor' = DOMAIN divisor \cup {This.what}
      BY <1>2, <2>3, Zenon DEF SetDivisor
    <2>5. Done(n)'
      BY <2>2, <2>4 DEF Done, Is
    <2> QED
      BY <2>1, <2>2, <2>4, <2>5, <1>n, <1>U, AdvanceStep, SMT DEF Is
  <1>3. CASE SwitchOn
    <2>1. /\ Booting("start") /\ at' = at + 1
          /\ UNCHANGED <<clocked, divisor, pllb, pin, unmasked, claimed, power, reset>>
      BY <1>3, Zenon DEF SwitchOn
    <2>2. n \in 1 .. 49 /\ This = Boot[n] /\ Boot[n].op = "start"
      BY <2>1, <1>0
    <2>3. This.of \in clocked
      BY <2>2, ClockBeforeStart, <1>C, Zenon DEF BootInv
    <2>4. on' = on \cup {This.what}
      BY <1>3, <2>3, Zenon DEF SwitchOn
    <2>5. Done(n)'
      BY <2>2, <2>4 DEF Done, Is
    <2> QED
      BY <2>1, <2>2, <2>4, <2>5, <1>n, <1>U, AdvanceStep, SMT DEF Is
  <1>4. CASE UnmaskSource
    <2>1. /\ Booting("unmask") /\ at' = at + 1 /\ unmasked' \subseteq unmasked \cup {This.what}
          /\ UNCHANGED <<clocked, on, divisor, pllb, pin, claimed, power, reset>>
      BY <1>4, Zenon DEF UnmaskSource
    <2>2. n \in 1 .. 49 /\ This = Boot[n] /\ Boot[n].op = "unmask"
      BY <2>1, <1>0
    <2>3. This.what \in {<<"TC0", "CPCS">>, <<"USART0", "RXRDY">>} \cup claimed
      <3>1. ASSUME NEW src, Earlier(n, "claim", src) PROVE <<"PIOA", src>> \in claimed
        BY <2>2, <3>1, <1>E, Zenon DEF Done, Is
      <3> QED
        BY <2>2, <3>1, ClaimBeforeUnmask, Zenon
    <2>4. Done(n)'
      BY <2>2 DEF Done, Is
    <2> QED
      BY <2>1, <2>2, <2>3, <2>4, <1>n, <1>U, AdvanceStep, SMT DEF Is
  <1>5. CASE SetHandler
    <2>1. /\ Booting("claim") /\ at' = at + 1 /\ claimed' = claimed \cup {<<"PIOA", This.what>>}
          /\ UNCHANGED <<clocked, on, divisor, pllb, pin, unmasked, power, reset>>
      BY <1>5, Zenon DEF SetHandler
    <2>2. n \in 1 .. 49 /\ This = Boot[n] /\ Boot[n].op = "claim"
      BY <2>1, <1>0
    <2>3. Done(n)'
      BY <2>1, <2>2 DEF Done, Is
    <2> QED
      BY <2>1, <2>2, <2>3, <1>n, <1>U, AdvanceStep, SMT DEF Is
  <1>6. CASE DriveLow \/ LowerPin
    <2>1. /\ at' = at + 1 /\ pin' = [pin EXCEPT ![This.what] = "low"]
          /\ IF This.what = "RST" THEN power' = "held" /\ reset' = TRUE
             ELSE UNCHANGED <<power, reset>>
          /\ UNCHANGED <<clocked, on, divisor, pllb, claimed, unmasked>>
      BY <1>6, Zenon DEF DriveLow, LowerPin, SetPin
    <2>2. n \in 1 .. 49 /\ This = Boot[n] /\ Boot[n].op \in {"drive", "lower"}
      BY <1>0, <1>6, Zenon DEF DriveLow, LowerPin
    <2>3. Done(n)'
      BY <2>1, <2>2 DEF Done, Is
    <2>4. reset => reset'
      BY <2>1, Zenon
    <2>5. \A p \in {"RST", "OV_RST"} : /\ ~Is(n, "raise", p)
                                       /\ Is(n, "drive", p) \/ Is(n, "lower", p) \/ This.what # p
      BY <2>2 DEF Is
    <2>6. This.what # "OV_RST" => pin'["OV_RST"] = pin["OV_RST"]
      BY <2>1 DEF Ranges
    <2> QED
      BY <2>1, <2>2, <2>3, <2>4, <2>5, <2>6, <1>n, <1>U, AdvanceStep, SMT
  <1>7. CASE RaisePin
    <2>1. /\ Booting("raise") /\ at' = at + 1 /\ pin' = [pin EXCEPT ![This.what] = "high"]
          /\ This.what = "RST" => power' # "held"
          /\ power # "held" => power' # "held"
          /\ reset => reset'
          /\ UNCHANGED <<clocked, on, divisor, pllb, claimed, unmasked>>
      BY <1>7, Zenon DEF RaisePin, SetPin
    <2>2. n \in 1 .. 49 /\ This = Boot[n] /\ Boot[n].op = "raise"
      BY <1>0, <2>1
    <2>3. Done(n)'
      BY <2>2 DEF Done, Is
    <2>4. /\ This.what = "OV_RST" => pin'["OV_RST"] = "high"
          /\ pin["OV_RST"] = "high" => pin'["OV_RST"] = "high"
      BY <2>1 DEF Ranges
    <2> QED
      BY <2>1, <2>2, <2>3, <2>4, <1>n, <1>U, AdvanceStep, SMT DEF Is
  <1>8. CASE EnablePllb
    <2>1. /\ Booting("pllb") /\ at' = at + 1
          /\ UNCHANGED <<clocked, on, divisor, pin, claimed, unmasked, power, reset>>
      BY <1>8, Zenon DEF EnablePllb
    <2>2. n \in 1 .. 49 /\ This = Boot[n] /\ Boot[n].op = "pllb"
      BY <1>0, <2>1
    <2>3. Done(n)'
      BY <2>2 DEF Done, Is
    <2> QED
      BY <2>1, <2>2, <2>3, <1>n, <1>U, PllbOnce, AdvanceStep, SMT DEF Is
  <1>9. CASE EnableLine \/ PllbLocked \/ Delay \/ ReadConnected \/ WriteCommand
             \/ CommandReturns \/ ClearRequest
    <2>1. /\ at' = at + 1
          /\ UNCHANGED <<clocked, on, divisor, pllb, pin, claimed, unmasked, power, reset>>
      BY <1>9, Zenon DEF EnableLine, PllbLocked, Delay, ReadConnected, WriteCommand,
                         CommandReturns, ClearRequest
    <2>2. /\ n \in 1 .. 49
          /\ Boot[n].op \in {"nvic", "lockb", "delay", "sensor", "connect", "write", "wait",
                             "clear"}
          /\ Boot[n].op = "lockb" => pllb = "locked"
      <3>1. PICK op \in {"nvic", "lockb", "delay", "sensor", "connect", "write", "wait",
                         "clear"} : Booting(op) /\ (op = "lockb" => pllb = "locked")
        BY <1>9 DEF EnableLine, PllbLocked, Delay, ReadConnected, WriteCommand,
                    CommandReturns, ClearRequest
      <3> QED
        BY <3>1, <1>0
    <2>3. Done(n)'
      BY <2>1, <2>2 DEF Done, Is
    <2> QED
      BY <2>1, <2>2, <2>3, <1>n, <1>U, AdvanceStep, SMT DEF Is
  <1>10. CASE Branch
    <2>1. /\ Booting("branch") /\ (at' = at + 1 \/ at' = Loop)
          /\ UNCHANGED <<clocked, on, divisor, pllb, pin, claimed, unmasked, power, reset>>
      BY <1>10, Zenon DEF Branch
    <2>2. /\ n \in 1 .. 49 /\ Boot[n].op = "branch"
          /\ \A k \in n .. 49 : Boot[k].op \in {"branch", "write", "wait", "clear"}
      BY <1>0, <2>1, AfterBranch
    <2>3. ASSUME NEW i \in 1 .. at' - 1 PROVE Done(i)'
      <3>1. CASE i < n
        <4>1. Done(i)
          <5>1. i \in 1 .. at - 1
            BY <3>1, <2>2, <2>3, <1>n, SMT
          <5> QED
            BY <5>1, Zenon DEF BootInv
        <4> QED
          BY <2>1, <4>1, Zenon DEF Done, Is
      <3>2. CASE i >= n
        <4>1. Boot[i].op \in {"branch", "write", "wait", "clear"}
          BY <2>1, <2>2, <2>3, <3>2, <1>n, LoopIs, SMT
        <4> QED
          BY <4>1 DEF Done, Is
      <3> QED
        BY <3>1, <3>2, <2>2, SMT
    <2>4. ASSUME NEW p, Raised(at', p) PROVE Raised(at, p)
      BY <2>1, <2>2, <2>4, <1>n, LoopIs, SMT DEF Raised, Is
    <2> QED
      BY <2>1, <2>3, <2>4, Zenon DEF BootInv, Raised, Is
  <1> QED
    BY <1>1, <1>2, <1>3, <1>4, <1>5, <1>6, <1>7, <1>8, <1>9, <1>10, Zenon DEF BootStep

LEMMA BootInvStep == StartupInv /\ BootInv /\ [Next]_vars => BootInv'
  <1> SUFFICES ASSUME Ranges, BootInv, [Next]_vars PROVE BootInv'
    BY Zenon DEF StartupInv
  <1> USE DEF peripherals, globals
  <1>1. CASE BootStep
    BY <1>1, BootInvBoot
  <1>2. CASE UNCHANGED bootVars
    BY <1>2, BootInvStutter
  <1>3. CASE PllbLocks
    <2>1. /\ pllb # "locked" /\ pllb' = "locked"
          /\ UNCHANGED <<at, clocked, on, divisor, pin, claimed, unmasked, power, reset>>
      BY <1>3 DEF PllbLocks
    <2> QED
      BY <2>1, Zenon DEF BootInv, Raised, Is, Done
  <1>4. CASE ModuleBoots
    <2>1. /\ power' # "held"
          /\ UNCHANGED <<at, clocked, on, divisor, pin, claimed, unmasked, pllb, reset>>
      BY <1>4 DEF ModuleBoots
    <2> QED
      BY <2>1, Zenon DEF BootInv, Raised, Is, Done
  <1>5. CASE ProcessorReset
    <2>1. at' = 1 /\ "PMC" \in clocked' /\ unmasked' = {}
      BY <1>5, Zenon DEF ProcessorReset
    <2>2. 1 .. at' - 1 = {}
      BY <2>1, SMT
    <2> QED
      BY <2>1, <2>2, Zenon DEF BootInv, Raised
  <1> QED
    BY <1>1, <1>2, <1>3, <1>4, <1>5, Zenon
       DEF Next, Main, Hardware, Interrupt, Occur, vars, bootVars

\* Every variable keeps its range: the sources that can be pending are those that
\* the program knows, and no command counts beyond its timeout.
THEOREM StartupTypes == Spec => []StartupInv
  <1>1. Init => StartupInv
    BY InitClock, InitRanges, InitFlags, Zenon DEF Init, StartupInv
  <1>2. StartupInv /\ [Next]_vars => StartupInv'
    BY StartupStep, RangesStep, FlagsStep, Zenon DEF StartupInv
  <1> QED
    BY <1>1, <1>2, PTL DEF Spec

LEMMA BootLeavesItsTrace == Spec => [](StartupInv /\ BootInv)
  BY StartupTypes, BootInvInit, BootInvStep, PTL DEF Spec

\* No interrupt is taken without a handler: the pins' interrupts are let through
\* only after their handlers are in the table, whatever edge came before, and
\* the TWI's, whose line is enabled without a handler, is never let through.
THEOREM StartupHandlerKnown == Spec => []HandlerKnown
  <1>1. StartupInv /\ BootInv => HandlerKnown
    BY SMT DEF StartupInv, Ranges, BootInv, HandlerKnown, Handlers, Pins
  <1> QED
    BY <1>1, BootLeavesItsTrace, PTL

\* Whatever interrupts and resets come in between, main() turns to the sensor only
\* when it has a clock, a bus and no reset, and to the WiFi module only after its
\* reset, with the transmitter on and its baud rate set.
THEOREM StartupDevicesReachable == Spec => []DevicesReachable
  <1>1. StartupInv /\ BootInv => DevicesReachable
    <2> SUFFICES ASSUME Ranges, BootInv, pc = "ready", at < Loop
                 PROVE  /\ This.op = "sensor" =>
                             /\ "xclk" \in on /\ pllb = "locked" /\ pin["OV_RST"] = "high"
                             /\ "TWI0" \in clocked /\ "TWI0" \in DOMAIN divisor
                        /\ This.op = "write" =>
                             /\ reset /\ power # "held" /\ "tx" \in on
                             /\ "USART0" \in DOMAIN divisor
      BY Zenon DEF DevicesReachable, StartupInv
    <2>1. at \in 1 .. 49 /\ This = Boot[at]
      BY LoopIs, SMT DEF Ranges, This
    <2>2. ASSUME NEW op, NEW what, Earlier(at, op, what)
          PROVE  /\ op = "clock" => what \in clocked
                 /\ op = "divide" => what \in DOMAIN divisor
                 /\ op = "start" => what \in on
                 /\ op = "lockb" => pllb = "locked"
                 /\ op = "lower" /\ what = "RST" => reset
      <3>1. PICK i \in 1 .. at - 1 : Is(i, op, what) /\ Done(i)
        BY <2>2, Zenon DEF Earlier, BootInv
      <3> QED
        BY <3>1, Zenon DEF Done, Is
    <2>3. CASE This.op = "sensor"
      <3>1. /\ Earlier(at, "start", "xclk") /\ Earlier(at, "lockb", "none")
            /\ Earlier(at, "clock", "TWI0") /\ Earlier(at, "divide", "TWI0")
            /\ Raised(at, "OV_RST")
        BY <2>1, <2>3, BeforeSensor, Zenon
      <3> QED
        BY <3>1, <2>2, <2>3, Zenon DEF BootInv
    <2>4. CASE This.op = "write"
      <3>1. /\ Earlier(at, "start", "tx") /\ Earlier(at, "divide", "USART0")
            /\ Earlier(at, "lower", "RST") /\ Raised(at, "RST")
        BY <2>1, <2>4, BeforeWrite, Zenon
      <3> QED
        BY <3>1, <2>2, <2>4, Zenon DEF BootInv
    <2> QED
      BY <2>3, <2>4, Zenon
  <1> QED
    BY <1>1, BootLeavesItsTrace, PTL

-----------------------------------------------------------------------------
(* What the drivers compute from the clock. *)

LEMMA Quot ==
    ASSUME NEW a \in Nat, NEW d \in Nat \ {0}
    PROVE  /\ a \div d \in Nat
           /\ d * (a \div d) <= a /\ a < d * (a \div d) + d
  BY SMTT(30)

LEMMA QuotIs ==
    ASSUME NEW a \in Nat, NEW d \in Nat \ {0}, NEW q \in Nat,
           d * q <= a, a < d * q + d
    PROVE  a \div d = q
  BY SMTT(30)

LEMMA LeastIs ==
    ASSUME NEW S \in SUBSET Int, NEW k \in S, \A j \in S : k <= j
    PROVE  Least(S) = k
  <1> DEFINE L(x) == \A j \in S : x <= j
  <1>1. \A x \in S : L(x) => x = k
    OBVIOUS
  <1>2. L(k)
    OBVIOUS
  <1> HIDE DEF L
  <1>3. (CHOOSE x \in S : L(x)) = k
    BY <1>1, <1>2, Zenon
  <1> QED
    BY <1>3 DEF Least, L

\* A bus clock that is a whole number of master clocks, and not too slow for
\* eight bits, is met exactly.
LEMMA TwiRate ==
    ASSUME NEW s \in Nat \ {0}, NEW m \in 4 .. 259, NEW F \in Nat, F = m * (2 * s)
    PROVE  ClDiv(s, F) <= 255 /\ SclAt(ClDiv(s, F), CkDiv(s, F), F) <= s
  <1>1. F \div (2 * s) = m
    <2>1. 2 * s \in Nat \ {0} /\ (2 * s) * m <= F /\ F < (2 * s) * m + 2 * s
      BY SMT
    <2> QED
      BY <2>1, QuotIs, m \in Nat
  <1>2. LowHigh(s, F) = m - 4 /\ m - 4 \in 0 .. 255
    BY <1>1 DEF LowHigh
  <1>3. 2 ^ 0 = 1 /\ (m - 4) \div 1 = m - 4
    BY SMT
  <1>4. CkDiv(s, F) = 0
    <2> DEFINE S == {k \in 0 .. 7 : LowHigh(s, F) \div 2 ^ k <= 255 \/ k = 7}
    <2>1. LowHigh(s, F) \div 2 ^ 0 <= 255
      BY <1>2, <1>3
    <2>2. 0 \in S /\ S \in SUBSET Int /\ \A j \in S : 0 <= j
      BY <2>1
    <2> HIDE DEF S
    <2>3. Least(S) = 0
      BY <2>2, LeastIs
    <2> QED
      BY <2>3 DEF S, CkDiv
  <1>5. ClDiv(s, F) = m - 4
    BY <1>2, <1>3, <1>4 DEF ClDiv
  <1>6. SclAt(m - 4, 0, F) = F \div (2 * m)
    <2>1. (m - 4) * 1 + 4 = m
      OBVIOUS
    <2> QED
      BY <1>3, <2>1 DEF SclAt
  <1>7. F \div (2 * m) = s
    <2>1. 2 * m \in Nat \ {0} /\ (2 * m) * s <= F /\ F < (2 * m) * s + 2 * m
      BY SMT
    <2> QED
      BY <2>1, QuotIs
  <1> QED
    BY <1>2, <1>4, <1>5, <1>6, <1>7

LEMMA Times ==
    ASSUME NEW a \in Nat, NEW b \in Nat, NEW c \in Nat, a <= b
    PROVE  c * a \in Nat /\ c * a <= c * b /\ a * c = c * a
  BY SMTT(30)

\* A divisor for which CD is in its bits, and not too small.
InReach(d, F) == 4 * d <= F /\ F < 65535 * d
Reach(q) == q >= 4 /\ q <= 65534
CDs == 1 .. 65535

LEMMA ReachOf ==
    ASSUME NEW d \in Nat \ {0}, NEW F \in Nat, NEW t \in Nat,
           d * 4 <= t, t <= d * 65534, t <= F, F < t + d
    PROVE  InReach(d, F)
  BY SMT DEF InReach

LEMMA FractionRange ==
    ASSUME NEW d \in Nat \ {0}, NEW F \in Nat, NEW q \in Nat, Reach(q),
           d * q <= F, F < d * q + d
    PROVE  InReach(d, F)
  <1>1. q \in Nat /\ 4 <= q /\ q <= 65534 /\ 4 \in Nat /\ 65534 \in Nat /\ d \in Nat
    BY SMT DEF Reach
  <1>2. d * q \in Nat /\ d * 4 <= d * q /\ d * q <= d * 65534
    BY <1>1, Times, SMT
  <1> QED
    BY <1>2, ReachOf, SMT

\* CD and FP are the nearest eighth to the divisor that is wanted.
LEMMA Fraction ==
    ASSUME NEW B \in Nat \ {0}, NEW F \in Nat, InReach(16 * B, F)
    PROVE  /\ Over(B, F) = 16 /\ CdFp(B, F) \in Nat /\ 32 <= CdFp(B, F)
           /\ 2 * (B * CdFp(B, F)) <= F + B /\ F < 2 * (B * CdFp(B, F)) + B
  <1>1. Over(B, F) = 16
    BY SMT DEF Over, InReach
  <1> DEFINE c == (8 * F + 8 * B) \div (16 * B)
  <1>2. c \in Nat /\ (16 * B) * c <= 8 * F + 8 * B /\ 8 * F + 8 * B < (16 * B) * c + 16 * B
    <2> DEFINE a == 8 * F + 8 * B
               d == 16 * B
    <2>1. a \in Nat /\ d \in Nat \ {0}
      OBVIOUS
    <2> HIDE DEF a, d
    <2>2. a \div d \in Nat /\ d * (a \div d) <= a /\ a < d * (a \div d) + d
      BY <2>1, Quot
    <2> QED
      BY <2>2, Zenon DEF a, d
  <1>3. (8 * F + (Over(B, F) * B) \div 2) \div (Over(B, F) * B) = c
    <2>1. (16 * B) \div 2 = 8 * B
      OBVIOUS
    <2> QED
      BY <1>1, <2>1
  <1> HIDE DEF c
  <1>4. B * c \in Nat /\ 2 * (B * c) <= F + B /\ F < 2 * (B * c) + B
    <2>1. (16 * B) * c = 16 * (B * c) /\ B * c \in Nat
      BY <1>2
    <2> QED
      BY <1>2, <2>1
  <1>5. c >= 32
    <2> SUFFICES ASSUME c <= 31 PROVE FALSE
      BY <1>2
    <2>1. B * c <= B * 31
      BY <1>2, Times, SMT
    <2> QED
      BY <1>4, <2>1, SMT DEF InReach
  <1>6. c <= 524280
    <2> SUFFICES ASSUME 524281 <= c PROVE FALSE
      BY <1>2, SMT
    <2>1. B * 524281 <= B * c
      BY <1>2, Times, SMT
    <2> QED
      BY <1>4, <2>1, SMT DEF InReach
  <1>7. CdFp(B, F) = c
    <2>1. c \div 8 \in CDs
      BY <1>2, <1>5, <1>6, SMT DEF CDs
    <2> DEFINE cd_fp == (8 * F + (Over(B, F) * B) \div 2) \div (Over(B, F) * B)
    <2>2. CdFp(B, F) = IF cd_fp \div 8 \in CDs THEN cd_fp ELSE 0
      BY SMT DEF CdFp, CDs
    <2> HIDE DEF cd_fp
    <2>3. cd_fp = c
      BY <1>3 DEF cd_fp
    <2>4. cd_fp \div 8 \in CDs
      BY <2>1, <2>3, Zenon
    <2> QED
      BY <2>2, <2>3, <2>4, Zenon
  <1> QED
    BY <1>1, <1>2, <1>4, <1>5, <1>7

\* The generator's fraction of eighths is fine enough for two percent.
LEMMA BaudRate ==
    ASSUME NEW B \in Nat, 300 <= B, NEW F \in Nat, InReach(16 * B, F)
    PROVE  /\ CdFp(B, F) # 0
           /\ 100 * BaudAt(Over(B, F), CdFp(B, F), F) <= 102 * B
           /\ 100 * BaudAt(Over(B, F), CdFp(B, F), F) >= 98 * B
  <1> DEFINE c == CdFp(B, F)
             p == B * c
             r == (8 * F) \div (16 * c)
             t == c * r
  <1>1. B \in Nat \ {0}
    OBVIOUS
  <1>2. Over(B, F) = 16 /\ c \in Nat /\ 32 <= c /\ 2 * p <= F + B /\ F < 2 * p + B
    BY <1>1, Fraction
  <1>3. BaudAt(Over(B, F), CdFp(B, F), F) = r
    BY <1>2 DEF BaudAt
  <1> HIDE DEF c
  <1>4. r \in Nat /\ t \in Nat /\ 2 * t <= F /\ F < 2 * t + 2 * c
    <2> DEFINE a == 8 * F
               d == 16 * c
    <2>1. a \in Nat /\ d \in Nat \ {0}
      BY <1>2
    <2> HIDE DEF a, d
    <2>2. a \div d \in Nat /\ d * (a \div d) <= a /\ a < d * (a \div d) + d
      BY <2>1, Quot
    <2>3. r \in Nat /\ (16 * c) * r <= 8 * F /\ 8 * F < (16 * c) * r + 16 * c
      BY <2>2, Zenon DEF a, d
    <2> HIDE DEF r
    <2>4. (16 * c) * r = 16 * (c * r) /\ c * r \in Nat
      BY <1>2, <2>3
    <2> QED
      BY <1>2, <2>3, <2>4
  <1> HIDE DEF r
  <1>5. p \in Nat /\ p = c * B /\ 32 * B <= p /\ 300 * c <= p
    <2>1. c \in Nat /\ 32 <= c
      BY <1>2
    <2>2. B * 32 <= B * c
      BY <2>1, Times, SMT
    <2>3. c * 300 <= c * B
      BY <2>1, Times, SMT
    <2>4. B * c = c * B /\ B * c \in Nat
      BY <2>1
    <2> QED
      BY <2>1, <2>2, <2>3, <2>4
  <1>6. \A a \in Nat, b \in Nat : a * r <= b * B => a * t <= b * p
    <2> TAKE a \in Nat, b \in Nat
    <2> HAVE a * r <= b * B
    <2>1. a * r \in Nat /\ b * B \in Nat /\ c \in Nat
      BY <1>2, <1>4
    <2>2. c * (a * r) <= c * (b * B)
      BY <2>1, Times
    <2>3. c * (a * r) = a * t /\ c * (b * B) = b * p
      BY <1>2, <1>4, <1>5, <2>1
    <2> QED
      BY <2>2, <2>3
  <1>7. \A a \in Nat, b \in Nat : b * B <= a * r => b * p <= a * t
    <2> TAKE a \in Nat, b \in Nat
    <2> HAVE b * B <= a * r
    <2>1. a * r \in Nat /\ b * B \in Nat /\ c \in Nat
      BY <1>2, <1>4
    <2>2. c * (b * B) <= c * (a * r)
      BY <2>1, Times
    <2>3. c * (a * r) = a * t /\ c * (b * B) = b * p
      BY <1>2, <1>4, <1>5, <2>1
    <2> QED
      BY <2>2, <2>3
  <1> HIDE DEF p, t
  <1>8. 100 * r <= 102 * B
    <2> SUFFICES ASSUME 102 * B <= 100 * r, 102 * B # 100 * r PROVE FALSE
      BY <1>4
    <2>1. 102 * p <= 100 * t
      BY <1>7
    <2> QED
      BY <1>2, <1>4, <1>5, <2>1
  <1>9. 98 * B <= 100 * r
    <2> SUFFICES ASSUME 100 * r <= 98 * B, 98 * B # 100 * r PROVE FALSE
      BY <1>4
    <2>1. 100 * t <= 98 * p
      BY <1>6
    <2> QED
      BY <1>2, <1>4, <1>5, <2>1
  <1> QED
    BY <1>2, <1>3, <1>4, <1>8, <1>9 DEF c

TooFast(f, F) == F >= 128 * 65536 * (f + 1)

\* A master clock that is too fast for the timer's other clocks leaves the slow
\* clock, whatever was taken for its divisor.
LEMMA TcRate ==
    ASSUME NEW f \in Nat \ {0}, NEW F \in Nat, TooFast(f, F),
           F <= CHIP_FREQ_CPU_MAX
    PROVE  /\ TcIndex(f, F) = 4 /\ TcRc(f, F) <= 65535
           /\ 100 * (TcRc(f, F) * f) <= 101 * FREQ_SLOW_CLOCK_EXT
           /\ 100 * (TcRc(f, F) * f) >= 99 * FREQ_SLOW_CLOCK_EXT
  <1>0. f \in 1 .. 13 /\ F >= 16777216
    BY SMT DEF CHIP_FREQ_CPU_MAX, TooFast
  <1> DEFINE q == F \div 32768
  <1>1. q \in Nat /\ 32768 * q <= F /\ F < 32768 * q + 32768 /\ q >= 512
    BY <1>0, SMT
  <1> HIDE DEF q
  <1> DEFINE h == F \div q
  <1>2. h \in 32768 .. 32832
    <2>0. q \in Nat \ {0}
      BY <1>1, SMT
    <2>1. h \in Nat /\ q * h <= F /\ F < q * h + q
      BY <2>0, Quot, SMT
    <2> HIDE DEF h
    <2>2. h >= 32768
      <3> SUFFICES ASSUME h + 1 <= 32768 PROVE FALSE
        BY <2>1, SMT
      <3>1. q * (h + 1) <= q * 32768
        BY <1>1, <2>1, SMT
      <3>2. q * (h + 1) = q * h + q
        BY <1>1, <2>1, SMT
      <3> QED
        BY <1>1, <2>1, <3>1, <3>2, SMT
    <2>3. h <= 32832
      <3> SUFFICES ASSUME h >= 32833 PROVE FALSE
        BY <2>1, SMT
      <3>1. q * h >= q * 32833
        BY <1>1, <2>1, SMT
      <3> QED
        BY <1>1, <2>1, <3>1, SMT
    <2> QED
      BY <2>1, <2>2, <2>3, SMT
  <1>3. /\ Divisors(F)[0] = 2 /\ Divisors(F)[1] = 8 /\ Divisors(F)[2] = 32
        /\ Divisors(F)[3] = 128 /\ Divisors(F)[4] = q
    BY SMT DEF q, Divisors, FREQ_SLOW_CLOCK_EXT
  <1>4. \A k \in 0 .. 3 : ~Ends(f, F, k)
    <2>1. ASSUME NEW d \in {2, 8, 32, 128}
          PROVE  F \div d > f /\ f < (F \div d) \div 65536
      BY <1>0, SMTT(30) DEF TooFast
    <2> QED
      BY <1>0, <1>3, <2>1, SMT DEF Ends
  <1>5. Ends(f, F, 4)
    <2>1. h \div 65536 = 0
      BY <1>2, SMT
    <2> QED
      BY <1>0, <1>3, <2>1, SMT DEF Ends
  <1>6. TcIndex(f, F) = 4
    <2> DEFINE S == {k \in 0 .. 4 : Ends(f, F, k)}
    <2>1. 4 \in S /\ S \in SUBSET Int /\ \A j \in S : 4 <= j
      BY <1>4, <1>5, SMT
    <2> HIDE DEF S
    <2>2. Least(S) = 4
      BY <2>1, LeastIs, SMT
    <2> QED
      BY <2>2, SMT DEF S, TcIndex
  <1> HIDE DEF h
  <1> DEFINE rc == h \div f
  <1>7. TcRc(f, F) = rc
    BY <1>3, <1>6, SMT DEF TcRc, h
  <1>8. rc \in Nat /\ f * rc <= h /\ h < f * rc + f
    <2>1. h \in Nat /\ f \in Nat \ {0}
      BY <1>2, SMT
    <2> QED
      BY <2>1, Quot, Zenon
  <1> HIDE DEF rc
  <1>9. rc <= h /\ rc * f = f * rc
    BY <1>0, <1>2, <1>8, SMT
  <1> QED
    BY <1>0, <1>2, <1>6, <1>7, <1>8, <1>9, SMT DEF FREQ_SLOW_CLOCK_EXT

-----------------------------------------------------------------------------
(* The rates. *)

DivisorsComputed == \A p \in DOMAIN divisor : divisor[p] = Computed(p)

LEMMA DivisorsStep == DivisorsComputed /\ [Next]_vars => DivisorsComputed'
  <1> SUFFICES ASSUME DivisorsComputed, [Next]_vars PROVE DivisorsComputed'
    BY Zenon
  <1> USE DEF peripherals, globals
  <1>1. CASE SetDivisor
    <2> DEFINE D == DOMAIN divisor \cup {This.what}
               set == [p \in D |-> IF p = This.what THEN Computed(p) ELSE divisor[p]]
    <2>1. divisor' = set \/ divisor' = divisor
      BY <1>1, Zenon DEF SetDivisor
    <2>2. \A p \in D : set[p] = Computed(p)
      BY Zenon DEF DivisorsComputed
    <2>3. DOMAIN set = D
      BY Zenon
    <2> HIDE DEF set, D
    <2>4. \A p : Computed(p)' = Computed(p)
      BY Zenon DEF Computed
    <2> QED
      BY <2>1, <2>2, <2>3, Zenon DEF DivisorsComputed, Computed
  <1>2. CASE ProcessorReset
    <2>1. DOMAIN divisor' = {}
      BY <1>2 DEF ProcessorReset
    <2> QED
      BY <2>1, Zenon DEF DivisorsComputed
  <1>3. CASE UNCHANGED divisor
    BY <1>3, Zenon DEF DivisorsComputed, Computed
  <1>4. BootStep => SetDivisor \/ UNCHANGED divisor
    BY Zenon DEF BootStep, ClockOn, SwitchOn, UnmaskSource, EnableLine, SetHandler,
                 DriveLow, RaisePin, LowerPin, SetPin, EnablePllb, PllbLocked, Delay,
                 ReadConnected, WriteCommand, CommandReturns, Branch, ClearRequest
  <1> QED
    BY <1>1, <1>2, <1>3, <1>4, Zenon
       DEF Next, Main, Hardware, PllbLocks, ModuleBoots, Interrupt, Occur, vars

\* The configuration's clock and rates, as the lemmas above take them.
LEMMA Configuration ==
    /\ SysclkHz \in Nat /\ SysclkHz <= CHIP_FREQ_CPU_MAX
    /\ BAUDRATE \in Nat \ {0} /\ 300 <= BAUDRATE
    /\ TWI_CLK \in Nat \ {0} /\ TC_FREQ \in Nat \ {0}
  <1>1. XTAL * MUL \in Nat
    BY ClockAssumption, SMT
  <1>2. (XTAL * MUL) \div DIV \in Nat
    BY <1>1, ClockAssumption, SMT
  <1> DEFINE pll == (XTAL * MUL) \div DIV
  <1> HIDE DEF pll
  <1>3. pll \div PRES \in Nat
    BY <1>2, ClockAssumption, SMT DEF pll
  <1> QED
    BY <1>3, ClockAssumption, StartupAssumption, SMT
       DEF SysclkHz, pll

LEMMA BaudReach == Reach(SysclkHz \div (16 * BAUDRATE))
  BY BaudAssumption DEF Reach

LEMMA ComputedIs ==
    /\ Computed("TC0") = [index |-> TcIndex(TC_FREQ, SysclkHz),
                          rc |-> TcRc(TC_FREQ, SysclkHz)]
    /\ Computed("USART0") = [over |-> Over(BAUDRATE, SysclkHz),
                             cd_fp |-> CdFp(BAUDRATE, SysclkHz)]
    /\ Computed("TWI0") = [cldiv |-> ClDiv(TWI_CLK, SysclkHz),
                           ckdiv |-> CkDiv(TWI_CLK, SysclkHz)]
  BY Zenon DEF Computed

\* Unless a wait for the master clock gave up, the link has its baud rate within
\* two percent and the sensor's bus is not too fast; and whatever the clock, the
\* timer counts seconds within one percent, for any rates that suit the
\* configured clock.
THEOREM StartupRatesRight == Spec => []RatesRight
  <1>1. Init => DivisorsComputed
    <2>1. DOMAIN << >> = {}
      OBVIOUS
    <2> QED
      BY <2>1, Zenon DEF Init, DivisorsComputed
  <1>2. HzKnown /\ DivisorsComputed => RatesRight
    <2> SUFFICES ASSUME HzKnown, DivisorsComputed PROVE RatesRight
      OBVIOUS
    <2>1. pc = "ready" /\ ~timedOut => MasterHz = SysclkHz
      BY Zenon DEF HzKnown
    <2>2. ASSUME "USART0" \in DOMAIN divisor
          PROVE  /\ divisor["USART0"].cd_fp # 0
                 /\ Within(BaudAt(divisor["USART0"].over, divisor["USART0"].cd_fp,
                                  SysclkHz), BAUDRATE, 2)
      <3>1. /\ divisor["USART0"].over = Over(BAUDRATE, SysclkHz)
            /\ divisor["USART0"].cd_fp = CdFp(BAUDRATE, SysclkHz)
        BY <2>2, ComputedIs, SMT DEF DivisorsComputed
      <3>2. /\ CdFp(BAUDRATE, SysclkHz) # 0
            /\ 100 * BaudAt(Over(BAUDRATE, SysclkHz), CdFp(BAUDRATE, SysclkHz), SysclkHz)
                   <= 102 * BAUDRATE
            /\ 100 * BaudAt(Over(BAUDRATE, SysclkHz), CdFp(BAUDRATE, SysclkHz), SysclkHz)
                   >= 98 * BAUDRATE
        <4> DEFINE d == 16 * BAUDRATE
                   q == SysclkHz \div d
        <4>1. Reach(q)
          BY BaudReach, Zenon
        <4>2. d \in Nat \ {0} /\ SysclkHz \in Nat
          BY Configuration, SMT
        <4> HIDE DEF d
        <4>3. q \in Nat /\ d * q <= SysclkHz /\ SysclkHz < d * q + d
          BY <4>2, Quot
        <4> HIDE DEF q
        <4>4. InReach(d, SysclkHz)
          BY <4>1, <4>2, <4>3, FractionRange, Zenon
        <4> QED
          BY <4>4, Configuration, BaudRate, Zenon DEF d
      <3> QED
        BY <3>1, <3>2, SMT DEF Within
    <2>3. ASSUME "TWI0" \in DOMAIN divisor
          PROVE  /\ divisor["TWI0"].cldiv <= 255
                 /\ SclAt(divisor["TWI0"].cldiv, divisor["TWI0"].ckdiv, SysclkHz)
                        <= TWI_CLK
      <3>1. /\ divisor["TWI0"].cldiv = ClDiv(TWI_CLK, SysclkHz)
            /\ divisor["TWI0"].ckdiv = CkDiv(TWI_CLK, SysclkHz)
        BY <2>3, ComputedIs, SMT DEF DivisorsComputed
      <3>2. PICK clocks \in 4 .. 259 : SysclkHz = clocks * (2 * TWI_CLK)
        BY BusAssumption
      <3>3. /\ ClDiv(TWI_CLK, SysclkHz) <= 255
            /\ SclAt(ClDiv(TWI_CLK, SysclkHz), CkDiv(TWI_CLK, SysclkHz), SysclkHz)
                   <= TWI_CLK
        BY <3>2, Configuration, TwiRate, Zenon
      <3> QED
        BY <3>1, <3>3, Zenon
    <2>4. ASSUME "TC0" \in DOMAIN divisor
          PROVE  /\ divisor["TC0"].rc <= 65535
                 /\ Within(divisor["TC0"].rc * TC_FREQ,
                           TcClockHz(divisor["TC0"].index, MasterHz), 1)
      <3>1. /\ divisor["TC0"].index = TcIndex(TC_FREQ, SysclkHz)
            /\ divisor["TC0"].rc = TcRc(TC_FREQ, SysclkHz)
        BY <2>4, ComputedIs, SMT DEF DivisorsComputed
      <3>2. /\ TcIndex(TC_FREQ, SysclkHz) = 4 /\ TcRc(TC_FREQ, SysclkHz) <= 65535
            /\ 100 * (TcRc(TC_FREQ, SysclkHz) * TC_FREQ) <= 101 * FREQ_SLOW_CLOCK_EXT
            /\ 100 * (TcRc(TC_FREQ, SysclkHz) * TC_FREQ) >= 99 * FREQ_SLOW_CLOCK_EXT
        <4>1. TooFast(TC_FREQ, SysclkHz)
          BY TimerAssumption DEF TooFast
        <4>2. /\ TC_FREQ \in Nat \ {0} /\ SysclkHz \in Nat
              /\ SysclkHz <= CHIP_FREQ_CPU_MAX
          BY Configuration, Zenon
        <4> QED
          BY <4>1, <4>2, TcRate
      <3>3. TcClockHz(divisor["TC0"].index, MasterHz) = FREQ_SLOW_CLOCK_EXT
        BY <3>1, <3>2, SMT DEF TcClockHz
      <3> QED
        BY <3>1, <3>2, <3>3, SMT DEF Within
    <2>5. ASSUME pc = "ready", ~timedOut
          PROVE  /\ "USART0" \in DOMAIN divisor =>
                       /\ divisor["USART0"].cd_fp # 0
                       /\ Within(BaudAt(divisor["USART0"].over, divisor["USART0"].cd_fp,
                                        MasterHz), BAUDRATE, 2)
                 /\ "TWI0" \in DOMAIN divisor =>
                       /\ divisor["TWI0"].cldiv <= 255
                       /\ SclAt(divisor["TWI0"].cldiv, divisor["TWI0"].ckdiv, MasterHz)
                              <= TWI_CLK
      <3>1. MasterHz = SysclkHz
        BY <2>1, <2>5, Zenon
      <3> QED
        BY <2>2, <2>3, <3>1, Zenon
    <2> QED
      BY <2>4, <2>5, SMT DEF RatesRight
  <1> QED
    BY <1>1, <1>2, DivisorsStep, StartupHzKnown, PTL DEF Spec

=============================================================================
