--------------------------- MODULE ClockTreeProofs ---------------------------
(***************************************************************************)
(* Theorems about sysclk_init(), for every crystal and every configuration *)
(* of PLLA that ClockAssumption allows.                                    *)
(***************************************************************************)
EXTENDS ClockTree, FiniteSetTheorems, TLAPS

LEMMA DivBound ==
    ASSUME NEW a \in Nat, NEW b \in Nat \ {0}
    PROVE  a \div b \in Nat /\ a \div b <= a
  <1> DEFINE q == a \div b
             r == a % b
  <1>1. q \in Int /\ r \in 0 .. (b - 1) /\ a = b * q + r
    BY SMT
  <1>2. q \in Nat
    BY <1>1, SMT
  <1> HIDE DEF q, r
  <1>3. b * q >= q
    <2>1. b = 1 + (b - 1) /\ b - 1 \in Nat
      BY SMT
    <2>2. (b - 1) * q \in Nat
      BY <1>2, <2>1, SMT
    <2>3. b * q = q + (b - 1) * q
      BY <1>2, <2>1, SMT
    <2> QED
      BY <1>2, <2>2, <2>3, SMT
  <1>4. q <= a
    BY <1>1, <1>2, <1>3, SMT
  <1> QED
    BY <1>2, <1>4, SMT DEF q

LEMMA SysclkInRange == SysclkHz \in Nat /\ SysclkHz <= CHIP_FREQ_CPU_MAX
  <1>1. (XTAL * MUL) \div DIV \in Nat
    BY ClockAssumption, DivBound, SMT
  <1>2. SysclkHz \in Nat
    BY ClockAssumption, <1>1, DivBound, SMT DEF SysclkHz
  <1> QED
    BY ClockAssumption, <1>2, SMT DEF SysclkHz

LEMMA HertzOfPlla == Hertz("plla", PRES, "xtal") = SysclkHz
  BY SMT DEF Hertz, SysclkHz

\* Neither oscillator is fast enough to need a wait state.
LEMMA HertzOfMain ==
    ASSUME NEW pres \in {1, PRES}, NEW source \in {"rc", "xtal"}
    PROVE  /\ Hertz("main", pres, source) \in Nat
           /\ Hertz("main", pres, source) <= 20000000
           /\ source = "rc" => Hertz("main", pres, source) <= 4000000
  <1> DEFINE hz == IF source = "xtal" THEN XTAL ELSE RC_4MHZ
  <1>1. hz \in Nat /\ hz <= 20000000 /\ (source = "rc" => hz = 4000000)
    BY ClockAssumption, SMT DEF RC_4MHZ
  <1>2. pres \in Nat \ {0}
    BY ClockAssumption, SMT
  <1>3. Hertz("main", pres, source) = hz \div pres
    BY SMT DEF Hertz
  <1> HIDE DEF hz
  <1>4. hz \div pres \in Nat /\ hz \div pres <= hz
    BY <1>1, <1>2, DivBound, SMT
  <1> QED
    BY <1>1, <1>3, <1>4, SMT

LEMMA HertzIsNat ==
    ASSUME NEW css \in {"main", "plla"}, NEW pres \in {1, PRES},
           NEW source \in {"rc", "xtal"}
    PROVE  Hertz(css, pres, source) \in Nat
  <1>1. CASE css = "main"
    BY <1>1, HertzOfMain, SMT
  <1>2. CASE css = "plla"
    <2> DEFINE main0 == IF source = "xtal" THEN XTAL ELSE RC_4MHZ
               product == main0 * MUL
               hz == product \div DIV
    <2>1. product \in Nat
      BY ClockAssumption, SMT DEF RC_4MHZ
    <2> HIDE DEF product
    <2>2. hz \in Nat
      BY ClockAssumption, <2>1, DivBound, SMT
    <2>3. Hertz(css, pres, source) = hz \div pres
      BY <1>2, SMT DEF Hertz, product
    <2>4. pres \in Nat \ {0}
      BY ClockAssumption, SMT
    <2> HIDE DEF hz
    <2> QED
      BY <2>2, <2>3, <2>4, DivBound, SMT
  <1> QED
    BY <1>1, <1>2, SMT

\* system_init_flash() chooses enough wait states for every clock that the chip
\* allows, and never the sixth table entry's successor.
LEMMA WaitStatesFit ==
    ASSUME NEW hz \in Nat, hz <= CHIP_FREQ_CPU_MAX
    PROVE  WaitStates(hz) \in 0 .. 5 /\ hz <= CHIP_FREQ_FWS[WaitStates(hz)]
  <1> DEFINE S == {f \in 0 .. 4 : hz >= CHIP_FREQ_FWS[f]}
             F == CHIP_FREQ_FWS
  <1>f. /\ F[0] = 20000000 /\ F[1] = 40000000 /\ F[2] = 60000000
        /\ F[3] = 80000000 /\ F[4] = 100000000 /\ F[5] = 123000000
    BY SMT DEF CHIP_FREQ_FWS
  <1>s. S = {f \in {0, 1, 2, 3, 4} : hz >= F[f]}
    BY SMT
  <1>w. WaitStates(hz) = Cardinality(S)
    BY SMT DEF WaitStates
  <1>c. \A k \in 0 .. 5 : Cardinality(0 .. (k - 1)) = k
    BY FS_Interval, SMT
  <1> HIDE DEF S, F
  <1>0. CASE hz < 20000000
    <2>1. S = 0 .. (0 - 1)
      BY <1>0, <1>f, <1>s, SMT
    <2> QED
      BY <1>0, <1>c, <1>f, <1>w, <2>1, SMT DEF F
  <1>1. CASE hz >= 20000000 /\ hz < 40000000
    <2>1. S = 0 .. (1 - 1)
      BY <1>1, <1>f, <1>s, SMT
    <2> QED
      BY <1>1, <1>c, <1>f, <1>w, <2>1, SMT DEF F
  <1>2. CASE hz >= 40000000 /\ hz < 60000000
    <2>1. S = 0 .. (2 - 1)
      BY <1>2, <1>f, <1>s, SMT
    <2> QED
      BY <1>2, <1>c, <1>f, <1>w, <2>1, SMT DEF F
  <1>3. CASE hz >= 60000000 /\ hz < 80000000
    <2>1. S = 0 .. (3 - 1)
      BY <1>3, <1>f, <1>s, SMT
    <2> QED
      BY <1>3, <1>c, <1>f, <1>w, <2>1, SMT DEF F
  <1>4. CASE hz >= 80000000 /\ hz < 100000000
    <2>1. S = 0 .. (4 - 1)
      BY <1>4, <1>f, <1>s, SMT
    <2> QED
      BY <1>4, <1>c, <1>f, <1>w, <2>1, SMT DEF F
  <1>5. CASE hz >= 100000000
    <2>1. S = 0 .. (5 - 1)
      BY <1>5, <1>f, <1>s, SMT
    <2> QED
      BY <1>5, <1>c, <1>f, <1>w, <2>1, SMT DEF F, CHIP_FREQ_CPU_MAX
  <1> QED
    BY <1>0, <1>1, <1>2, <1>3, <1>4, <1>5, SMT

LEMMA WaitStatesOfMax == WaitStates(CHIP_FREQ_CPU_MAX) = 5
  <1>1. {f \in 0 .. 4 : CHIP_FREQ_CPU_MAX >= CHIP_FREQ_FWS[f]} = 0 .. (5 - 1)
    BY SMT DEF CHIP_FREQ_CPU_MAX, CHIP_FREQ_FWS
  <1>2. \A k \in 0 .. 5 : Cardinality(0 .. (k - 1)) = k
    BY FS_Interval, SMT
  <1> QED
    BY <1>1, <1>2, SMT DEF WaitStates

\* After a reset: of the master clock's selections there is the first one.
LEMMA FirstSelection == [css |-> "main", pres |-> 1] \in Selections
  BY ClockAssumption, SMT DEF Selections

LEMMA InitClock == ClockInit => ClockInv
  <1> SUFFICES ASSUME ClockInit PROVE ClockInv
    BY SMT
  <1>1. ClockTypeOK
    <2>1. mckr \in Selections /\ mck \in Selections
      BY FirstSelection, SMT DEF ClockInit
    <2>2. timedOut \in BOOLEAN
      BY Zenon DEF ClockInit
    <2> QED
      BY <2>1, <2>2, SMT DEF ClockInit, ClockTypeOK, Places, RC_4MHZ
  <1> QED
    BY <1>1, SMT DEF ClockInit, ClockInv, BeforeSelect, BeforeLocked, BeforePres

\* Each step of sysclk_init() keeps ClockInv.
LEMMA SysclkStep == ClockInv /\ SysclkInit => ClockInv'
  <1> SUFFICES ASSUME ClockInv, SysclkInit PROVE ClockInv'
    BY SMT
  <1> USE DEF ClockInv, ClockTypeOK, Places, Selections, BeforeSelect,
      BeforeLocked, BeforePres, Go, pmc
  <1>1. CASE FlashMax
    BY <1>1, WaitStatesOfMax, SMT DEF FlashMax
  <1>2. CASE EnableXtal
    BY <1>2, SMT DEF EnableXtal
  <1>3. CASE SelectXtal
    BY <1>3, SMT DEF SelectXtal
  <1>4. CASE XtalReady
    BY <1>4, SMT DEF XtalReady
  <1>5. CASE EnablePlla
    BY <1>5, SMT DEF EnablePlla
  <1>6. CASE PllLocked
    BY <1>6, SMT DEF PllLocked
  <1>7. CASE SetPrescaler
    BY <1>7, SMT DEF SetPrescaler
  <1>8. CASE PrescalerReady
    BY <1>8, SMT DEF PrescalerReady
  <1>9. CASE SelectPlla
    BY <1>9, SMT DEF SelectPlla
  <1>10. CASE MasterReady
    BY <1>10, SMT DEF MasterReady
  <1>11. CASE MasterTimeout
    BY <1>11, SMT DEF MasterTimeout
  <1>12. CASE CoreClockUpdate
    <2>1. Hertz(mckr.css, mckr.pres, moscsel) \in Nat
      BY HertzIsNat, SMT
    <2>2. moscsel = "xtal"
      BY <1>12, SMT DEF CoreClockUpdate
    <2> QED
      BY <1>12, <2>1, <2>2, SMT DEF CoreClockUpdate
  <1>13. CASE FlashFinal
    <2>1. WaitStates(SysclkHz) \in 0 .. 5
      BY SysclkInRange, WaitStatesFit, SMT
    <2> QED
      BY <1>13, <2>1, SMT DEF FlashFinal
  <1> QED
    BY <1>1, <1>2, <1>3, <1>4, <1>5, <1>6, <1>7, <1>8, <1>9, <1>10, <1>11,
       <1>12, <1>13, SMT DEF SysclkInit

\* So does the controller, whenever it reacts.
LEMMA ControllerStep == ClockInv /\ Controller => ClockInv'
  <1> SUFFICES ASSUME ClockInv, Controller PROVE ClockInv'
    BY SMT
  <1> USE DEF ClockInv, ClockTypeOK, Places, Selections, BeforeSelect,
      BeforeLocked, BeforePres, program
  <1>1. CASE XtalStarts
    BY <1>1, SMT DEF XtalStarts
  <1>2. CASE MainSwitches
    BY <1>2, SMT DEF MainSwitches
  <1>3. CASE PllaLocks
    BY <1>3, SMT DEF PllaLocks
  <1>4. CASE MasterSwitches
    BY <1>4, SMT DEF MasterSwitches
  <1> QED
    BY <1>1, <1>2, <1>3, <1>4, SMT DEF Controller

LEMMA ClockStutters == ClockInv /\ UNCHANGED clockVars => ClockInv'
  BY SMT DEF ClockInv, ClockTypeOK, Places, Selections, BeforeSelect, BeforeLocked,
      BeforePres, clockVars, program, pmc

LEMMA ResetClock == ClockReset => ClockInv'
  <1> SUFFICES ASSUME ClockReset PROVE ClockInv'
    BY SMT
  <1>1. ClockTypeOK'
    <2>1. mckr' \in Selections /\ mck' \in Selections
      BY FirstSelection, SMT DEF ClockReset
    <2>2. timedOut' \in BOOLEAN
      BY Zenon DEF ClockReset
    <2> QED
      BY <2>1, <2>2, SMT DEF ClockReset, ClockTypeOK, Places, RC_4MHZ
  <1> QED
    BY <1>1, SMT DEF ClockReset, ClockInv, BeforeSelect, BeforeLocked, BeforePres

LEMMA ClockInvImpliesNeverTooFast == ClockInv => NeverTooFast
  <1> SUFFICES ASSUME ClockInv PROVE NeverTooFast
    BY SMT
  <1>1. \A n \in 0 .. 5 : CHIP_FREQ_FWS[n] >= 20000000
    BY SMT DEF CHIP_FREQ_FWS
  <1>2. CHIP_FREQ_FWS[5] = 123000000
    BY SMT DEF CHIP_FREQ_FWS
  <1>3. fws \in 0 .. 5 /\ main \in {"rc", "xtal"} /\ mck.css \in {"main", "plla"}
        /\ mck.pres \in {1, PRES}
    BY SMT DEF ClockInv, ClockTypeOK, Selections
  <1>4. MasterHz <= CHIP_FREQ_CPU_MAX /\ MasterHz <= CHIP_FREQ_FWS[fws]
    <2>1. CASE mck.css = "main"
      <3>1. MasterHz \in Nat /\ MasterHz <= 20000000
        BY <1>3, <2>1, HertzOfMain, SMT DEF MasterHz
      <3>2. CHIP_FREQ_FWS[fws] \in Nat
        BY <1>3, SMT DEF CHIP_FREQ_FWS
      <3> QED
        BY <1>1, <1>3, <3>1, <3>2, SMT DEF CHIP_FREQ_CPU_MAX
    <2>2. CASE mck.css = "plla"
      <3>1. /\ mck.pres = PRES /\ main = "xtal"
            /\ fws = 5 \/ fws = WaitStates(SysclkHz)
        BY <2>2, SMT DEF ClockInv, ClockTypeOK, Selections, BeforeSelect,
           BeforeLocked, BeforePres
      <3>2. MasterHz = SysclkHz
        BY <2>2, <3>1, HertzOfPlla, SMT DEF MasterHz
      <3>3. SysclkHz \in Nat /\ SysclkHz <= CHIP_FREQ_FWS[fws]
        BY <1>2, <3>1, SysclkInRange, WaitStatesFit, SMT DEF CHIP_FREQ_CPU_MAX
      <3> QED
        BY <3>2, <3>3, SysclkInRange, SMT
    <2> QED
      BY <1>3, <2>1, <2>2, SMT
  <1>5. /\ mck.css = "plla" => plla = "locked"
        /\ main = "xtal" => xtal = "stable"
    BY SMT DEF ClockInv
  <1> QED
    BY <1>4, <1>5, SMT DEF NeverTooFast

LEMMA ClockInvImpliesHzKnown == ClockInv => HzKnown
  <1> SUFFICES ASSUME ClockInv, pc = "ready" PROVE HzKnown
    BY SMT DEF HzKnown
  <1>1. /\ main = "xtal" /\ mckr.pres = PRES
        /\ SystemCoreClock = Hertz(mckr.css, mckr.pres, "xtal")
        /\ ~timedOut => mck = mckr /\ mckr.css = "plla"
    BY SMT DEF ClockInv, BeforeSelect, BeforeLocked, BeforePres
  <1> QED
    BY <1>1, HertzOfPlla, SMT DEF HzKnown, MasterHz

\* The inductive invariant: how far the controller can be at each place of
\* sysclk_init().
THEOREM ClockInvariant == ClockSpec => []ClockInv
  <1>1. ClockInv /\ [ClockNext]_clockVars => ClockInv'
    BY SysclkStep, ControllerStep, ClockStutters, SMT DEF ClockNext
  <1> QED
    BY InitClock, <1>1, PTL DEF ClockSpec

\* sysclk_init() never runs the processor faster than chip and flash allow, nor
\* from a clock that is not stable, for any crystal and any setting of PLLA.
THEOREM NeverOverclocked == ClockSpec => []NeverTooFast
  BY ClockInvariant, ClockInvImpliesNeverTooFast, PTL

\* When sysclk_init() has returned and no wait gave up, the frequencies that
\* the program computes are the one that the processor has.
THEOREM FrequencyKnown == ClockSpec => []HzKnown
  BY ClockInvariant, ClockInvImpliesHzKnown, PTL
=============================================================================
