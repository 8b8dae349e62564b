------------------------------- MODULE Startup -------------------------------
(***************************************************************************)
(* main() (main.c) from reset to its loop: the clock tree, then the        *)
(* peripherals, pins and interrupts one after the other, while those that  *)
(* are already enabled come in; the reset of the WiFi module and the first *)
(* commands to it.                                                         *)
(*                                                                         *)
(* A step of the boot is a record of the list Boot: what it does to which  *)
(* peripheral.  A write to a peripheral without a clock has no effect.     *)
(* The processor may be reset at any time, while the module runs on.       *)
(***************************************************************************)
EXTENDS ClockTree, DriverRates, Sequences

CONSTANTS BAUDRATE, TWI_CLK, TC_FREQ,
          Timeout,         \* ticks that a command waits
          MaxResets        \* bound: resets of the processor

ASSUME StartupAssumption ==
    /\ BAUDRATE \in Nat /\ BAUDRATE >= 300
    /\ TWI_CLK \in Nat \ {0} /\ TC_FREQ \in Nat \ {0}
    /\ Timeout \in Nat \ {0} /\ MaxResets \in Nat

\* The rates of the configuration suit its clock: the USART's divisor is in
\* reach, and its eighths are fine enough; the bus clock is a whole number of
\* master clocks, as twi_set_speed() rounds the bus up, and needs no prescaler;
\* a second is too long for each of the timer's clocks but the slow one.
ASSUME BaudAssumption ==
    SysclkHz \div (16 * BAUDRATE) >= 4 /\ SysclkHz \div (16 * BAUDRATE) <= 65534
ASSUME BusAssumption == \E clocks \in 4 .. 259 : SysclkHz = clocks * (2 * TWI_CLK)
ASSUME TimerAssumption == SysclkHz >= 128 * 65536 * (TC_FREQ + 1)

VARIABLES
    at,                        \* the step of Boot that comes next
    (* peripherals *)
    clocked, nvic, unmasked,   \* clocks, interrupt lines, interrupt sources
    on,                        \* timer, receiver, transmitter, outputs
    pllb, divisor,             \* PLLB; what the divisors are set to
    pin,                       \* output pins
    pending,                   \* interrupt sources that are raised
    (* the program's variables *)
    claimed,                   \* pins with a handler in the table
    counts, wifi_cmd_complete, initiate_web_setup_flag, internet_connected,
    (* the module *)
    power,                     \* "held" in reset, "booting" or "up"
    (* history *)
    resets, reset              \* of the processor; the module has been reset

peripherals == <<clocked, nvic, unmasked, on, pllb, divisor, pin>>
globals == <<claimed, counts, wifi_cmd_complete, initiate_web_setup_flag,
             internet_connected>>
vars    == <<clockVars, at, peripherals, pending, globals, power, resets, reset>>

-----------------------------------------------------------------------------
(* The steps. *)

Do(op, what)    == [op |-> op, what |-> what]
Clock(p)        == Do("clock", p)
Divide(p)       == Do("divide", p)
Start(p, what)  == [op |-> "start", what |-> what, of |-> p]
Unmask(p, src)  == [op |-> "unmask", what |-> <<p, src>>, of |-> p]
Nvic(irq)       == Do("nvic", irq)
Claim(src)      == Do("claim", src)
Drive(p)        == Do("drive", p)
Raise(p)        == Do("raise", p)
Lower(p)        == Do("lower", p)
Step(op)        == Do(op, "none")

board_init == <<Clock("PIOA"), Drive("RST"), Raise("RST"),
                Drive("OV_RST"), Raise("OV_RST")>>

configure_tc_not_started ==
    <<Clock("TC0"), Divide("TC0"), Nvic("TC0"), Unmask("TC0", "CPCS")>>

configure_tc == <<Clock("TC0"), Divide("TC0"), Nvic("TC0"), Unmask("TC0", "CPCS"),
                  Start("TC0", "timer")>>

unmasked_before_clocked ==
    <<Unmask("USART0", "RXRDY"), Clock("USART0"), Divide("USART0"),
      Start("USART0", "tx"), Start("USART0", "rx"), Nvic("USART0")>>

configure_usart_wifi ==
    <<Clock("USART0"), Divide("USART0"), Start("USART0", "tx"),
      Start("USART0", "rx"), Unmask("USART0", "RXRDY"), Nvic("USART0")>>

unmasked_before_claimed == <<Clock("PIOA"), Unmask("PIOA", "comm"), Nvic("PIOA"),
                             Claim("comm")>>

configure_wifi_comm_pin == <<Clock("PIOA"), Claim("comm"), Nvic("PIOA"),
                             Unmask("PIOA", "comm")>>

configure_wifi_web_setup_pin == <<Clock("PIOA"), Claim("setup"), Nvic("PIOA"),
                                  Unmask("PIOA", "setup")>>

never_raised == <<Lower("RST"), Step("delay"), Step("connect")>>

reset_wifi == <<Lower("RST"), Step("delay"), Raise("RST"), Step("connect")>>

init_camera ==
    <<Step("pllb"), Step("lockb"), Claim("vsync"), Nvic("PIOA"), Raise("OV_RST"),
      Clock("PIOA"), Start("PMC", "xclk"), Clock("TWI0"), Divide("TWI0"),
      Nvic("TWI0")>>

\* configure_camera() is module Sensor.
Command == <<Step("write"), Step("wait")>>

Boot == board_init \o configure_tc \o configure_usart_wifi
        \o configure_wifi_comm_pin \o configure_wifi_web_setup_pin \o reset_wifi
        \o init_camera \o <<Step("sensor")>> \o Command \o Command
        \o <<Step("delay"), Step("connect"), Step("branch")>>
        \o Command \o <<Step("clear")>>

Loop == Len(Boot) + 1
This == Boot[at]

\* The interrupt vectors that the program defines: none for the TWI.
Handlers == {"TC0", "USART0", "PIOA"}
Pins     == {<<"PIOA", "comm">>, <<"PIOA", "setup">>, <<"PIOA", "vsync">>}
Sources  == Pins \cup {<<"TC0", "CPCS">>, <<"USART0", "RXRDY">>,
                       <<"TWI0", "TXRDY">>}

Init ==
    /\ ClockInit
    /\ at = 1
    /\ clocked = {"PMC"} /\ nvic = {} /\ unmasked = {} /\ on = {}
    /\ pllb = "off" /\ divisor = <<>>
    /\ pin = [RST |-> "float", OV_RST |-> "float"]
    /\ pending = {} /\ claimed = {}
    /\ counts = 0 /\ wifi_cmd_complete = FALSE
    /\ initiate_web_setup_flag = FALSE /\ internet_connected = FALSE
    /\ power \in {"booting", "up"}
    /\ resets = 0 /\ reset = FALSE

-----------------------------------------------------------------------------
(* The boot. *)

Booting(op) == pc = "ready" /\ at < Loop /\ This.op = op
Advance     == at' = at + 1 /\ UNCHANGED <<clockVars, resets>>

ClockOn ==
    /\ Booting("clock") /\ Advance
    /\ clocked' = clocked \cup {This.what}
    /\ UNCHANGED <<nvic, unmasked, on, pllb, divisor, pin, pending, globals,
                   power, reset>>

\* The divisors are computed from the clock that the configuration promises.
Computed(p) ==
    CASE p = "TC0"    -> [index |-> TcIndex(TC_FREQ, SysclkHz),
                          rc |-> TcRc(TC_FREQ, SysclkHz)]
      [] p = "USART0" -> [over |-> Over(BAUDRATE, SysclkHz),
                          cd_fp |-> CdFp(BAUDRATE, SysclkHz)]
      [] p = "TWI0"   -> [cldiv |-> ClDiv(TWI_CLK, SysclkHz),
                          ckdiv |-> CkDiv(TWI_CLK, SysclkHz)]

SetDivisor ==
    /\ Booting("divide") /\ Advance
    /\ divisor' = IF This.what \in clocked
                    THEN [p \in DOMAIN divisor \cup {This.what} |->
                             IF p = This.what THEN Computed(p) ELSE divisor[p]]
                    ELSE divisor
    /\ UNCHANGED <<clocked, nvic, unmasked, on, pllb, pin, pending, globals,
                   power, reset>>

SwitchOn ==
    /\ Booting("start") /\ Advance
    /\ on' = IF This.of \in clocked THEN on \cup {This.what} ELSE on
    /\ UNCHANGED <<clocked, nvic, unmasked, pllb, divisor, pin, pending, globals,
                   power, reset>>

UnmaskSource ==
    /\ Booting("unmask") /\ Advance
    /\ unmasked' = IF This.of \in clocked THEN unmasked \cup {This.what}
                   ELSE unmasked
    /\ UNCHANGED <<clocked, nvic, on, pllb, divisor, pin, pending, globals,
                   power, reset>>

\* NVIC_EnableIRQ()
EnableLine ==
    /\ Booting("nvic") /\ Advance
    /\ nvic' = nvic \cup {This.what}
    /\ UNCHANGED <<clocked, unmasked, on, pllb, divisor, pin, pending, globals,
                   power, reset>>

\* pio_handler_set(): see module PioHandler.
SetHandler ==
    /\ Booting("claim") /\ Advance
    /\ claimed' = claimed \cup {<<"PIOA", This.what>>}
    /\ UNCHANGED <<peripherals, pending, counts, wifi_cmd_complete,
                   initiate_web_setup_flag, internet_connected, power, reset>>

\* A pin that becomes an output is low, as the output register after a reset.
SetPin(level) ==
    /\ pin' = [pin EXCEPT ![This.what] = level]
    /\ IF This.what = "RST"
         THEN /\ power' = IF level = "low" THEN "held"
                          ELSE IF power = "held" THEN "booting" ELSE power
              /\ reset' = (reset \/ level = "low")
         ELSE UNCHANGED <<power, reset>>
    /\ UNCHANGED <<clocked, nvic, unmasked, on, pllb, divisor, pending, globals>>

DriveLow  == Booting("drive") /\ Advance /\ SetPin("low")
RaisePin  == Booting("raise") /\ Advance /\ SetPin("high")
LowerPin  == Booting("lower") /\ Advance /\ SetPin("low")

\* pmc_enable_pllbck(): start and wait without a timeout.
EnablePllb ==
    /\ Booting("pllb") /\ Advance
    /\ pllb' = "locking"
    /\ UNCHANGED <<clocked, nvic, unmasked, on, divisor, pin, pending, globals,
                   power, reset>>
PllbLocked ==
    /\ Booting("lockb") /\ pllb = "locked" /\ Advance
    /\ UNCHANGED <<peripherals, pending, globals, power, reset>>

Delay ==
    /\ Booting("delay") \/ Booting("sensor")
    /\ Advance
    /\ UNCHANGED <<peripherals, pending, globals, power, reset>>

\* The module's output may say either.
ReadConnected ==
    /\ Booting("connect") /\ Advance
    /\ internet_connected' \in BOOLEAN
    /\ UNCHANGED <<peripherals, pending, claimed, counts, wifi_cmd_complete,
                   initiate_web_setup_flag, power, reset>>

\* The line goes out if the transmitter is on and the module, up, lowers CTS.
\* The wait's timeout is counted from before.
WriteCommand ==
    /\ Booting("write") /\ "tx" \in on /\ power = "up"
    /\ Advance
    /\ counts' = 0 /\ wifi_cmd_complete' = FALSE
    /\ UNCHANGED <<peripherals, pending, claimed, initiate_web_setup_flag,
                   internet_connected, power, reset>>

CommandReturns ==
    /\ Booting("wait") /\ (wifi_cmd_complete \/ counts = Timeout)
    /\ Advance
    /\ UNCHANGED <<peripherals, pending, globals, power, reset>>

\* "Check for Web Setup request": setup at once if there is no network.
Branch ==
    /\ Booting("branch")
    /\ at' = IF internet_connected THEN Loop ELSE at + 1
    /\ UNCHANGED <<clockVars, resets, peripherals, pending, globals, power, reset>>

ClearRequest ==
    /\ Booting("clear") /\ Advance
    /\ initiate_web_setup_flag' = FALSE
    /\ UNCHANGED <<peripherals, pending, claimed, counts, wifi_cmd_complete,
                   internet_connected, power, reset>>

BootStep ==
    \/ ClockOn \/ SetDivisor \/ SwitchOn \/ UnmaskSource \/ EnableLine \/ SetHandler
    \/ DriveLow \/ RaisePin \/ LowerPin \/ EnablePllb \/ PllbLocked \/ Delay
    \/ ReadConnected \/ WriteCommand \/ CommandReturns \/ Branch \/ ClearRequest

Main == BootStep \/ (SysclkInit /\ UNCHANGED <<at, peripherals, pending, globals,
                                               power, resets, reset>>)

-----------------------------------------------------------------------------
(* Interrupts. *)

\* What may raise a source (external).
Live(src) ==
    CASE src = <<"TC0", "CPCS">>     -> "timer" \in on /\ "TC0" \in DOMAIN divisor
      [] src = <<"USART0", "RXRDY">> -> "rx" \in on /\ power # "held"
      [] src = <<"PIOA", "comm">>    -> "PIOA" \in clocked /\ power # "held"
      [] src = <<"PIOA", "vsync">>   -> "PIOA" \in clocked /\ "xclk" \in on
      [] src = <<"PIOA", "setup">>   -> "PIOA" \in clocked
      [] src = <<"TWI0", "TXRDY">>   -> src \in unmasked

Occur(src) ==
    /\ Live(src) /\ src \notin pending
    /\ pending' = pending \cup {src}
    /\ UNCHANGED <<clockVars, at, peripherals, globals, power, resets, reset>>

Requested(irq) == {src \in pending \cap unmasked : src[1] = irq /\ irq \in nvic}

\* The handlers.  PIOA's reads the status, which clears the masked pins, too.
Interrupt(irq) ==
    /\ irq \in Handlers /\ Requested(irq) # {}
    /\ pending' = {src \in pending : src[1] # irq}
    /\ counts' = IF irq = "TC0" /\ counts < Timeout THEN counts + 1 ELSE counts
    /\ wifi_cmd_complete' = (wifi_cmd_complete \/ <<"PIOA", "comm">> \in Requested(irq))
    /\ initiate_web_setup_flag' =
          (initiate_web_setup_flag \/ <<"PIOA", "setup">> \in Requested(irq))
    /\ UNCHANGED <<clockVars, at, peripherals, claimed, internet_connected, power,
                   resets, reset>>

-----------------------------------------------------------------------------
(* The hardware around it (external). *)

PllbLocks ==
    /\ pllb = "locking" /\ pllb' = "locked"
    /\ UNCHANGED <<clockVars, at, clocked, nvic, unmasked, on, divisor, pin,
                   pending, globals, power, resets, reset>>

ModuleBoots ==
    /\ power = "booting" /\ power' = "up"
    /\ UNCHANGED <<clockVars, at, peripherals, pending, globals, resets,
                   reset>>

\* A reset of the processor, by its pin or by the watchdog until it is
\* disabled.  The pin of the module's reset floats up.
ProcessorReset ==
    /\ resets < MaxResets /\ resets' = resets + 1
    /\ ClockReset
    /\ at' = 1
    /\ clocked' = {"PMC"} /\ nvic' = {} /\ unmasked' = {} /\ on' = {}
    /\ pllb' = "off" /\ divisor' = <<>>
    /\ pin' = [RST |-> "float", OV_RST |-> "float"]
    /\ pending' = {} /\ claimed' = {}
    /\ counts' = 0 /\ wifi_cmd_complete' = FALSE
    /\ initiate_web_setup_flag' = FALSE /\ internet_connected' = FALSE
    /\ reset' = FALSE
    /\ power' = IF power = "held" THEN "booting" ELSE power

Hardware == PllbLocks \/ ModuleBoots
            \/ (Controller /\ UNCHANGED <<at, peripherals, pending, globals, power,
                                          resets, reset>>)

Next ==
    \/ Main \/ Hardware \/ ProcessorReset
    \/ \E irq \in Handlers : Interrupt(irq)
    \/ \E src \in Sources : Occur(src)

Spec == Init /\ [][Next]_vars

\* The processor runs, pending interrupts are served, oscillators and PLLs settle,
\* the module boots and the timer runs.  The module need not answer, nor the
\* button be pressed.
FairSpec ==
    /\ Spec /\ WF_vars(Main) /\ WF_vars(Occur(<<"TC0", "CPCS">>))
    /\ WF_vars(PllbLocks) /\ WF_vars(ModuleBoots)
    /\ WF_vars(Controller /\ UNCHANGED <<at, peripherals, pending, globals, power,
                                         resets, reset>>)
    /\ \A irq \in Handlers : WF_vars(Interrupt(irq))

-----------------------------------------------------------------------------
Ranges ==
    /\ at \in 1 .. Loop
    /\ clocked \subseteq {"PMC", "PIOA", "TC0", "USART0", "TWI0"}
    /\ nvic \subseteq {"PIOA", "TC0", "USART0", "TWI0"}
    /\ unmasked \subseteq Sources /\ pending \subseteq Sources
    /\ on \subseteq {"timer", "tx", "rx", "xclk"}
    /\ pllb \in {"off", "locking", "locked"}
    /\ DOMAIN divisor \subseteq {"TC0", "USART0", "TWI0"}
    /\ pin \in [{"RST", "OV_RST"} -> {"float", "low", "high"}]
    /\ claimed \subseteq Pins /\ counts \in 0 .. Timeout
    /\ power \in {"held", "booting", "up"}
    /\ resets \in 0 .. MaxResets

Flags ==
    /\ wifi_cmd_complete \in BOOLEAN /\ initiate_web_setup_flag \in BOOLEAN
    /\ internet_connected \in BOOLEAN /\ reset \in BOOLEAN

\* ClockInv of ClockTree holds whatever else happens, as the boot only waits.
StartupInv == ClockInv /\ Ranges /\ Flags

\* No interrupt is taken that has no handler: not the TWI's, whose line is
\* enabled without one, and no pin's before its handler is in the table.  An
\* edge that came earlier, while the pin was masked, waits for exactly that
\* moment.
HandlerKnown ==
    \A src \in pending \cap unmasked :
        src[1] \in nvic => /\ src[1] \in Handlers
                           /\ src \in Pins => src \in claimed

\* When main() turns to a device it can be reached: the sensor has a clock, is
\* out of reset and its bus is set up; the module has been reset since the
\* processor started, whatever it did before, and is not held in reset.
DevicesReachable ==
    pc = "ready" /\ at < Loop =>
        /\ This.op = "sensor" =>
              /\ "xclk" \in on /\ pllb = "locked" /\ pin["OV_RST"] = "high"
              /\ "TWI0" \in clocked /\ "TWI0" \in DOMAIN divisor
        /\ This.op = "write" =>
              reset /\ power # "held" /\ "tx" \in on /\ "USART0" \in DOMAIN divisor

Within(value, target, percent) ==
    /\ 100 * value <= (100 + percent) * target
    /\ 100 * value >= (100 - percent) * target

\* Unless a wait for the master clock gave up, the rates are what the names say:
\* the baud rate within two percent, the bus no faster than the sensor may be
\* talked to, and counts in seconds, with RC in its sixteen bits.  The seconds
\* do not depend on the master clock: commands time out even if the wait did.
RatesRight ==
    /\ pc = "ready" /\ ~timedOut =>
          /\ "USART0" \in DOMAIN divisor =>
                /\ divisor["USART0"].cd_fp # 0
                /\ Within(BaudAt(divisor["USART0"].over, divisor["USART0"].cd_fp,
                                 MasterHz), BAUDRATE, 2)
          /\ "TWI0" \in DOMAIN divisor =>
                /\ divisor["TWI0"].cldiv <= 255
                /\ SclAt(divisor["TWI0"].cldiv, divisor["TWI0"].ckdiv, MasterHz)
                       <= TWI_CLK
    /\ "TC0" \in DOMAIN divisor =>
          /\ divisor["TC0"].rc <= 65535
          /\ Within(divisor["TC0"].rc * TC_FREQ,
                    TcClockHz(divisor["TC0"].index, MasterHz), 1)

\* main() reaches its loop, though the module may answer nothing: each command
\* then ends by the timer.
StartsUp == <>[](at = Loop)

\* In the loop every interrupt that the program waits for is served.
Wanted == {<<"TC0", "CPCS">>, <<"USART0", "RXRDY">>, <<"PIOA", "comm">>,
           <<"PIOA", "setup">>}
InterruptsServed ==
    \A src \in Wanted : (at = Loop /\ src \in pending) ~> (src \notin pending)
=============================================================================
