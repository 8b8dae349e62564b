------------------------------ MODULE ClockTree ------------------------------
(***************************************************************************)
(* sysclk_init() (sysclk.c) for the clock source that conf_clock.h         *)
(* chooses: from the 4 MHz RC oscillator to the crystal, to PLLA, to the   *)
(* divided PLLA clock, with the flash wait states of each.                 *)
(*                                                                         *)
(* The power management controller is external: a setting takes effect     *)
(* some time after it was written.  The program polls for it, for ever     *)
(* except for the master clock, whose polls run out after PMC_TIMEOUT.     *)
(***************************************************************************)
EXTENDS Naturals, FiniteSets

CONSTANTS XTAL,    \* BOARD_FREQ_MAINCK_XTAL
          MUL,     \* CONFIG_PLL0_MUL
          DIV,     \* CONFIG_PLL0_DIV
          PRES     \* the divisor that CONFIG_SYSCLK_PRES stands for

CHIP_FREQ_CPU_MAX == 120000000
RC_4MHZ           == 4000000

\* The highest frequencies of 0 to 5 flash wait states.
CHIP_FREQ_FWS ==
    [f \in 0 .. 5 |-> IF f = 5 THEN 123000000 ELSE 20000000 * (f + 1)]

\* What pll_config_init() asserts of the configuration, and the chip's limits.
ASSUME ClockAssumption ==
    /\ XTAL \in Nat /\ MUL \in Nat \ {0} /\ DIV \in Nat \ {0}
    /\ PRES \in Nat \ {0}
    /\ XTAL >= 3000000 /\ XTAL < 20000000
    /\ XTAL \div DIV >= 3000000 /\ XTAL \div DIV <= 32000000
    /\ (XTAL \div DIV) * MUL >= 80000000 /\ (XTAL \div DIV) * MUL <= 240000000
    /\ ((XTAL * MUL) \div DIV) \div PRES <= CHIP_FREQ_CPU_MAX

VARIABLES
    pc,                 \* place in sysclk_init()
    timedOut,           \* history: a wait for the master clock gave up
    fws,                \* flash wait states
    SystemCoreClock,
    (* power management controller *)
    xtal,               \* "off", "starting" or "stable"
    moscsel, main,      \* main clock: what is selected, what it runs from
    plla,               \* "off", "locking" or "locked"
    mckr, mck           \* master clock: what is selected, what it runs from

program   == <<pc, timedOut, fws, SystemCoreClock>>
pmc       == <<xtal, moscsel, main, plla, mckr, mck>>
clockVars == <<program, pmc>>

\* SystemInit() has set one wait state.
ClockInit ==
    /\ pc = "flashMax" /\ timedOut = FALSE /\ fws = 1
    /\ SystemCoreClock = RC_4MHZ
    /\ xtal = "off" /\ moscsel = "rc" /\ main = "rc" /\ plla = "off"
    /\ mckr = [css |-> "main", pres |-> 1] /\ mck = [css |-> "main", pres |-> 1]

\* A reset of the processor, which resets the controller.
ClockReset ==
    /\ pc' = "flashMax" /\ timedOut' = FALSE /\ fws' = 1
    /\ SystemCoreClock' = RC_4MHZ
    /\ xtal' = "off" /\ moscsel' = "rc" /\ main' = "rc" /\ plla' = "off"
    /\ mckr' = [css |-> "main", pres |-> 1] /\ mck' = [css |-> "main", pres |-> 1]

-----------------------------------------------------------------------------
(* Frequencies. *)

Hertz(css, pres, source) ==
    LET mainHz == IF source = "xtal" THEN XTAL ELSE RC_4MHZ
    IN  (IF css = "plla" THEN (mainHz * MUL) \div DIV ELSE mainHz) \div pres

\* What the processor runs at.
MasterHz == Hertz(mck.css, mck.pres, main)

\* What the drivers take it to be: sysclk_get_cpu_hz() and
\* sysclk_get_peripheral_hz() are computed from conf_clock.h alone.
SysclkHz == ((XTAL * MUL) \div DIV) \div PRES

\* system_init_flash()
WaitStates(hz) == Cardinality({f \in 0 .. 4 : hz >= CHIP_FREQ_FWS[f]})

-----------------------------------------------------------------------------
(* sysclk_init() *)

Go(from, to) == pc = from /\ pc' = to

KeepsWaitStates ==
    /\ Go("flashMax", "xtal")
    /\ UNCHANGED <<timedOut, fws, SystemCoreClock, pmc>>

FlashMax ==
    /\ Go("flashMax", "xtal")
    /\ fws' = WaitStates(CHIP_FREQ_CPU_MAX)
    /\ UNCHANGED <<timedOut, SystemCoreClock, pmc>>

\* pmc_switch_mainck_to_xtal(): enable the crystal, wait, select it.
EnableXtal ==
    /\ Go("xtal", "stable")
    /\ xtal' = IF xtal = "off" THEN "starting" ELSE xtal
    /\ UNCHANGED <<timedOut, fws, SystemCoreClock, moscsel, main, plla, mckr, mck>>

SelectXtal ==
    /\ Go("stable", "selected") /\ xtal = "stable"
    /\ moscsel' = "xtal"
    /\ UNCHANGED <<timedOut, fws, SystemCoreClock, xtal, main, plla, mckr, mck>>

\* osc_wait_ready()
XtalReady ==
    /\ Go("selected", "pll") /\ main = moscsel
    /\ UNCHANGED <<timedOut, fws, SystemCoreClock, pmc>>

\* pll_enable(): the PLL is stopped first.
EnablePlla ==
    /\ Go("pll", "lock")
    /\ plla' = "locking"
    /\ UNCHANGED <<timedOut, fws, SystemCoreClock, xtal, moscsel, main, mckr, mck>>

LockNotAwaited ==
    /\ Go("lock", "pres")
    /\ UNCHANGED <<timedOut, fws, SystemCoreClock, pmc>>

PllLocked ==
    /\ Go("lock", "pres") /\ plla = "locked"
    /\ UNCHANGED <<timedOut, fws, SystemCoreClock, pmc>>

SourceFirst ==
    /\ Go("pres", "presWait")
    /\ mckr' = [mckr EXCEPT !.css = "plla"]
    /\ UNCHANGED <<timedOut, fws, SystemCoreClock, xtal, moscsel, main, plla, mck>>

\* pmc_switch_mck_to_pllack(): first the prescaler, then the source.
SetPrescaler ==
    /\ Go("pres", "presWait")
    /\ mckr' = [mckr EXCEPT !.pres = PRES]
    /\ UNCHANGED <<timedOut, fws, SystemCoreClock, xtal, moscsel, main, plla, mck>>

\* MCKRDY
PrescalerReady ==
    /\ Go("presWait", "css") /\ mck = mckr
    /\ UNCHANGED <<timedOut, fws, SystemCoreClock, pmc>>

SelectPlla ==
    /\ Go("css", "cssWait")
    /\ mckr' = [mckr EXCEPT !.css = "plla"]
    /\ UNCHANGED <<timedOut, fws, SystemCoreClock, xtal, moscsel, main, plla, mck>>

MasterReady ==
    /\ Go("cssWait", "update") /\ mck = mckr
    /\ UNCHANGED <<timedOut, fws, SystemCoreClock, pmc>>

\* It returns 1, which sysclk_init() ignores.
MasterTimeout ==
    /\ Go("presWait", "update") \/ Go("cssWait", "update")
    /\ mck # mckr
    /\ timedOut' = TRUE
    /\ UNCHANGED <<fws, SystemCoreClock, pmc>>

IgnoresPrescaler ==
    /\ Go("update", "flash")
    /\ SystemCoreClock' = Hertz(mckr.css, 1, moscsel)
    /\ UNCHANGED <<timedOut, fws, pmc>>

\* SystemCoreClockUpdate() reads the registers back.
CoreClockUpdate ==
    /\ Go("update", "flash")
    /\ SystemCoreClock' = Hertz(mckr.css, mckr.pres, moscsel)
    /\ UNCHANGED <<timedOut, fws, pmc>>

FlashFinal ==
    /\ Go("flash", "ready")
    /\ fws' = WaitStates(SysclkHz)
    /\ UNCHANGED <<timedOut, SystemCoreClock, pmc>>

SysclkInit ==
    \/ FlashMax \/ EnableXtal \/ SelectXtal \/ XtalReady \/ EnablePlla
    \/ PllLocked \/ SetPrescaler \/ PrescalerReady \/ SelectPlla \/ MasterReady
    \/ MasterTimeout \/ CoreClockUpdate \/ FlashFinal

-----------------------------------------------------------------------------
(* The power management controller (external). *)

XtalStarts ==
    /\ xtal = "starting" /\ xtal' = "stable"
    /\ UNCHANGED <<program, moscsel, main, plla, mckr, mck>>

MainSwitches ==
    /\ main # moscsel /\ main' = moscsel
    /\ UNCHANGED <<program, xtal, moscsel, plla, mckr, mck>>

PllaLocks ==
    /\ plla = "locking" /\ plla' = "locked"
    /\ UNCHANGED <<program, xtal, moscsel, main, mckr, mck>>

MasterSwitches ==
    /\ mck # mckr /\ mck' = mckr
    /\ UNCHANGED <<program, xtal, moscsel, main, plla, mckr>>

Controller == XtalStarts \/ MainSwitches \/ PllaLocks \/ MasterSwitches

ClockNext == SysclkInit \/ Controller

ClockSpec == ClockInit /\ [][ClockNext]_clockVars

-----------------------------------------------------------------------------
Places == {"flashMax", "xtal", "stable", "selected", "pll", "lock", "pres",
           "presWait", "css", "cssWait", "update", "flash", "ready"}
Selections == [css : {"main", "plla"}, pres : {1, PRES}]

ClockTypeOK ==
    /\ pc \in Places /\ timedOut \in BOOLEAN /\ fws \in 0 .. 5
    /\ SystemCoreClock \in Nat
    /\ xtal \in {"off", "starting", "stable"}
    /\ moscsel \in {"rc", "xtal"} /\ main \in {"rc", "xtal"}
    /\ plla \in {"off", "locking", "locked"}
    /\ mckr \in Selections /\ mck \in Selections

\* At no moment of the change, and however late the controller is, does the
\* processor run faster than the chip allows, or than the flash can follow with
\* the wait states of that moment, or from a clock that is not stable.
NeverTooFast ==
    /\ MasterHz <= CHIP_FREQ_CPU_MAX /\ MasterHz <= CHIP_FREQ_FWS[fws]
    /\ mck.css = "plla" => plla = "locked"
    /\ main = "xtal" => xtal = "stable"

\* After sysclk_init() SystemCoreClock is the clock that the master clock has
\* or, if the last wait gave up, is about to have.  The frequency that the
\* drivers compute is the same, unless a wait gave up: then the source may not
\* have been selected at all, and they do not learn it.
HzKnown ==
    pc = "ready" =>
        /\ SystemCoreClock = Hertz(mckr.css, mckr.pres, main)
        /\ ~timedOut => MasterHz = SysclkHz
        /\ mckr.css = "plla" => SystemCoreClock = SysclkHz

BeforeSelect == {"flashMax", "xtal", "stable"}
BeforeLocked == BeforeSelect \cup {"selected", "pll", "lock"}
BeforePres   == BeforeLocked \cup {"pres"}

\* What makes NeverTooFast inductive: how far the controller is allowed to be at
\* each place.
ClockInv ==
    /\ ClockTypeOK
    /\ main = "xtal" => xtal = "stable"
    /\ moscsel = "xtal" => xtal = "stable"
    /\ pc \in BeforeSelect => moscsel = "rc" /\ main = "rc"
    /\ pc \notin BeforeSelect => moscsel = "xtal"
    /\ pc \notin BeforeSelect \cup {"selected"} => main = "xtal"
    /\ pc \notin BeforeLocked => plla = "locked"
    /\ pc \in BeforePres => mckr = [css |-> "main", pres |-> 1] /\ mck = mckr
    /\ pc \in {"presWait", "css"} => mckr = [css |-> "main", pres |-> PRES]
    /\ pc = "css" => mck = mckr
    /\ pc \in {"presWait", "css"} => mck.css = "main"
    /\ mckr.css = "plla" => mckr.pres = PRES
    /\ mck.css = "plla" => mck = mckr /\ plla = "locked"
    /\ pc = "cssWait" => mckr.css = "plla" /\ mck.pres = PRES
    /\ pc \in {"update", "flash", "ready"} => mckr.pres = PRES
    /\ pc \in {"update", "flash", "ready"} /\ ~timedOut =>
          mck = mckr /\ mckr.css = "plla"
    /\ fws = IF pc = "flashMax" THEN 1
             ELSE IF pc = "ready" THEN WaitStates(SysclkHz) ELSE 5
    /\ pc \in {"flash", "ready"} =>
          SystemCoreClock = Hertz(mckr.css, mckr.pres, "xtal")
=============================================================================
