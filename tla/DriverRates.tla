----------------------------- MODULE DriverRates -----------------------------
(***************************************************************************)
(* What the drivers compute from the master clock: the divisor of the      *)
(* timer (tc.c), the baud rate generator (usart.c) and the clock waveform  *)
(* of the TWI bus (twi.c), with what each stands for at a given clock.     *)
(***************************************************************************)
EXTENDS Integers

FREQ_SLOW_CLOCK_EXT == 32768

Least(S) == CHOOSE k \in S : \A j \in S : k <= j

-----------------------------------------------------------------------------
(* tc_find_mck_divisor() *)

Divisors(mck) == [k \in 0 .. 4 |-> CASE k = 0 -> 2 [] k = 1 -> 8 [] k = 2 -> 32
                                     [] k = 3 -> 128
                                     [] k = 4 -> mck \div FREQ_SLOW_CLOCK_EXT]

EndsAtOnce(freq, mck, k) == freq <= mck \div Divisors(mck)[k]

\* Where its loop ends: the frequency is too high or not too low.
Ends(freq, mck, k) ==
    LET high == mck \div Divisors(mck)[k]
    IN  freq > high \/ freq >= high \div 65536

\* The index of the divisor, which selects the timer's clock.
TcIndex(freq, mck) == Least({k \in 0 .. 4 : Ends(freq, mck, k)})

\* The value of RC at which the timer starts over (configure_tc()).
TcRc(freq, mck) == (mck \div Divisors(mck)[TcIndex(freq, mck)]) \div freq

\* The last of the timer's clocks is the slow clock, whatever the master clock.
TcClockHz(index, hz) ==
    IF index = 4 THEN FREQ_SLOW_CLOCK_EXT ELSE hz \div Divisors(hz)[index]

-----------------------------------------------------------------------------
(* usart_set_async_baudrate() *)

Over(baud, mck) == IF mck >= 16 * baud THEN 16 ELSE 8

\* CD and FP in one number, eighths of a clock; 0 if it is refused.
CdFp(baud, mck) ==
    LET cd_fp == (8 * mck + (Over(baud, mck) * baud) \div 2)
                     \div (Over(baud, mck) * baud)
    IN  IF cd_fp \div 8 \in 1 .. 65535 THEN cd_fp ELSE 0

\* The baud rate that a divisor means at a clock.
BaudAt(over, cd_fp, hz) == (8 * hz) \div (over * cd_fp)

-----------------------------------------------------------------------------
(* twi_set_speed(): c_lh_div is halved until it fits in eight bits, or the      *)
(* clock divider no longer fits in three.                                    *)

LowHigh(speed, mck) == mck \div (2 * speed) - 4
CkDiv(speed, mck) ==
    LET Fits(k) == LowHigh(speed, mck) \div 2 ^ k <= 255 \/ k = 7
    IN  Least({k \in 0 .. 7 : Fits(k)})
ClDiv(speed, mck) == LowHigh(speed, mck) \div 2 ^ CkDiv(speed, mck)

\* The frequency of the bus: each half lasts ClDiv * 2 ^ CkDiv + 4 clocks.
SclAt(cldiv, ckdiv, hz) == hz \div (2 * (cldiv * 2 ^ ckdiv + 4))
=============================================================================
