------------------------------- MODULE Sensor -------------------------------
(***************************************************************************)
(* configure_camera() (camera.c): the loop around ov_init(), then the four *)
(* register lists, written by ov_write_regs() over the TWI driver.         *)
(*                                                                         *)
(* The TWI controller and the sensor are external.  The sensor has two     *)
(* banks of registers, selected through a register of its own; a select    *)
(* that is lost sends what follows to the wrong bank.  It may refuse a     *)
(* transfer (NACK) or stretch the clock, MaxFaults times in all, and may   *)
(* answer a read that the driver has given up: the byte then stays in the  *)
(* receive register.                                                       *)
(***************************************************************************)
EXTENDS Naturals, Sequences

CONSTANTS TWI_TIMEOUT,   \* polls of a read that finds no byte
          MaxFaults,     \* bound on refused and stretched bytes
          Gains          \* possible contents of the register that is tried

ASSUME SensorAssumption ==
    /\ TWI_TIMEOUT \in Nat \ {0} /\ MaxFaults \in Nat
    /\ Gains \subseteq {"40", "ad", "00"}

VARIABLES
    pc,                    \* transfer of ov_init(), "list" or "done"
    list, next,            \* ov_configure()'s list, ov_write_regs()'s entry
    got,                   \* local variables that reads fill
    (* twi.c and its controller *)
    twi,                   \* where in a transfer the driver is
    timeout, addr, sr, rhr,
    (* the sensor *)
    bus, held, bank, file, faults,
    (* history *)
    gain,                  \* what the tried register held at power-up
    missed,                \* failed transfers of this attempt of ov_init()
    spoiled,               \* a failed transfer that the trial depends on
    skipped,               \* failed entries of the lists
    late                   \* a read's byte came too late for it

place      == <<pc, list, next>>
twiVars    == <<timeout, addr, sr, rhr>>
sensorVars == <<bank, file, faults>>
history    == <<missed, spoiled, skipped>>
vars == <<place, got, twi, twiVars, bus, held, sensorVars, gain, history, late>>

Banks     == {"00", "01"}
Registers == {"pidh", "pidl", "midh", "midl", "gain", "r2c", "r04", "r50", "rda"}
Locals    == {"pidh", "pidl", "midh", "midl", "old", "value"}

Factory(g) ==
    [b \in Banks |-> [r \in Registers |->
        CASE b = "01" /\ r = "pidh" -> "26"
          [] b = "01" /\ r = "pidl" -> "41"
          [] b = "01" /\ r = "midh" -> "7f"
          [] b = "01" /\ r = "midl" -> "a2"
          [] b = "01" /\ r = "gain" -> g
          [] OTHER -> "xx"]]

-----------------------------------------------------------------------------
(* Packets. *)

\* Local variables that start at what they are compared with.
BlankIsDefault == [v \in Locals |-> IF v = "pidh" THEN "26" ELSE "00"]

Blank == [v \in Locals |-> "00"]

\* What each transfer of ov_init() reads, and the local variable it fills.
Asked == [pidh |-> "pidh", pidl |-> "pidl", midh |-> "midh", midl |-> "midl",
          old |-> "gain", check |-> "gain", confirm |-> "gain"]
Into  == [pidh |-> "pidh", pidl |-> "pidl", midh |-> "midh", midl |-> "midl",
          old |-> "old", check |-> "value", confirm |-> "value"]
Reads  == DOMAIN Asked
Writes == {"bank", "try", "put"}

Select(b)   == [reg |-> "bank", val |-> b]
Set(r, v)   == [reg |-> r, val |-> v]
Term        == [reg |-> "bank", val |-> "ff"]     \* OV_REG_TERM, OV_VAL_TERM

\* The lists, each run of writes between two selects reduced to registers
\* that are written again, or under the same address in the other bank.  None
\* of them has an entry of the delay form (0xFE).
OV2640_JPEG_INIT ==
    <<Select("00"), Set("r2c", "ff"), Select("01"), Set("r04", "28"),
      Set("r2c", "0c"), Set("r50", "a8"), Select("00"), Set("rda", "00"),
      Set("r50", "00"), Term>>
OV2640_YUV422 == <<Select("00"), Set("rda", "10"), Term>>
OV2640_JPEG   == <<Set("rda", "10"), Select("01"), Set("r04", "08"), Term>>
OV2640_JPEG_320x240 ==
    <<Select("01"), Set("r50", "a8"), Select("00"), Set("r50", "89"), Term>>

\* ov_configure(), in the order of configure_camera().
Lists == <<OV2640_JPEG_INIT, OV2640_YUV422, OV2640_JPEG, OV2640_JPEG_320x240>>

PutsTrialBack ==
    CASE pc = "bank" -> Select("01")
      [] pc = "try"  -> Set("gain", "ad")
      [] pc = "put"  -> Set("gain", got["value"])
      [] OTHER       -> Lists[list][next]

SelectsOtherBank ==
    CASE pc = "bank" -> Select("00")
      [] pc = "try"  -> Set("gain", "ad")
      [] pc = "put"  -> Set("gain", got["old"])
      [] OTHER       -> Lists[list][next]

\* What the transfer at hand writes.
Written ==
    CASE pc = "bank" -> Select("01")
      [] pc = "try"  -> Set("gain", "ad")
      [] pc = "put"  -> Set("gain", got["old"])
      [] OTHER       -> Lists[list][next]

Bytes == {"00", "01", "08", "0c", "10", "26", "28", "40", "41", "7f",
          "89", "a2", "a8", "ad", "ff", "xx"}

-----------------------------------------------------------------------------
\* init_camera() leaves opt.smbus unset: if it happens to be 1, twi_master_init()
\* sends a quick command to address 0, which nobody need acknowledge.
Init ==
    /\ pc = "bank" /\ list = 1 /\ next = 1 /\ got = Blank
    /\ twi = "idle" /\ timeout = 0 /\ addr = "bank" /\ rhr = "xx"
    /\ sr \in {{}, {"NACK"}}
    /\ bus = "idle" /\ held = FALSE /\ faults = 0
    /\ bank \in Banks /\ gain \in Gains /\ file = Factory(gain)
    /\ missed = {} /\ spoiled = FALSE /\ skipped = {} /\ late = FALSE

\* ov_init(): what follows a transfer, and on which condition.
Then == [bank |-> "pidh", pidh |-> "pidl", pidl |-> "midh", midh |-> "midl",
         midl |-> "old", old |-> "try", try |-> "check", check |-> "put",
         put |-> "confirm", confirm |-> "list"]
Passed ==
    /\ pc = "pidl" => got["pidh"] = "26"
    /\ pc = "midl" => got["midh"] = "7f" /\ got["midl"] = "a2"
    /\ pc = "check" => got["value"] = "ad"
    /\ pc = "confirm" => got["value"] = got["old"]

\* The transfer returns.  Its status is looked at nowhere: a failed read
\* leaves the variable as it was, a failed write is simply not made.
Return(ok) ==
    /\ twi' = "idle"
    /\ \/ /\ pc = "list"
          /\ next' = next + 1
          /\ skipped' = IF ok THEN skipped ELSE skipped \cup {<<list, next>>}
          /\ UNCHANGED <<pc, list, got, missed, spoiled>>
       \/ /\ pc # "list" /\ Passed
          /\ pc' = Then[pc]
          /\ missed' = IF ok THEN missed ELSE missed \cup {pc}
          /\ spoiled' = (spoiled \/ (~ok /\ pc \in {"old", "check", "put"}))
          /\ UNCHANGED <<list, next, got, skipped>>
       \/ /\ pc # "list" /\ ~Passed
          /\ pc' = "bank" /\ got' = Blank /\ missed' = {}
          /\ spoiled' = (spoiled \/ (~ok /\ pc \in {"old", "check", "put"}))
          /\ UNCHANGED <<list, next, skipped>>

-----------------------------------------------------------------------------
(* twi_master_read() and twi_master_write(), one byte each. *)

StartRead ==
    /\ twi = "idle" /\ pc \in Reads
    /\ twi' = "read" /\ timeout' = TWI_TIMEOUT /\ sr' = sr \ {"TXCOMP"}
    /\ addr' = Asked[pc]
    /\ bus' = "reading" /\ held' = FALSE
    /\ UNCHANGED <<place, got, rhr, sensorVars, gain, history, late>>

\* One turn of the loop.  Without a byte the timeout runs out only while the
\* sensor stretches the clock: TWI_TIMEOUT polls are many bytes long.  It is
\* tested before the byte is.
PollRead ==
    /\ twi = "read"
    /\ \/ /\ "NACK" \in sr
          /\ sr' = sr \ {"NACK"} /\ Return(FALSE) /\ UNCHANGED <<timeout, late>>
       \/ /\ "NACK" \notin sr /\ timeout = 0
          /\ late' = (late \/ "RXRDY" \in sr)
          /\ Return(FALSE) /\ UNCHANGED <<sr, timeout>>
       \/ /\ "NACK" \notin sr /\ timeout > 0 /\ "RXRDY" \in sr
          /\ got' = [got EXCEPT ![Into[pc]] = rhr]
          /\ sr' = sr \ {"RXRDY"} /\ twi' = "complete"
          /\ timeout' = TWI_TIMEOUT
          /\ UNCHANGED <<place, history, late>>
       \/ /\ "NACK" \notin sr /\ timeout > 0 /\ "RXRDY" \notin sr /\ held
          /\ timeout' = timeout - 1
          /\ UNCHANGED <<place, got, twi, sr, history, late>>
    /\ UNCHANGED <<addr, rhr, bus, held, sensorVars, gain>>

\* The byte goes to TWI_THR unless a NACK was left in the status register.
StartWrite ==
    /\ twi = "idle"
    /\ pc \in Writes \/ (pc = "list" /\ Lists[list][next] # Term)
    /\ \/ /\ "NACK" \in sr
          /\ sr' = sr \ {"NACK"} /\ Return(FALSE) /\ UNCHANGED <<addr, bus, held>>
       \/ /\ "NACK" \notin sr
          /\ twi' = "sent" /\ addr' = Written.reg
          /\ bus' = "writing" /\ held' = FALSE
          /\ sr' = sr \ {"TXRDY", "TXCOMP"}
          /\ UNCHANGED <<place, got, history>>
    /\ UNCHANGED <<timeout, rhr, sensorVars, gain, late>>

\* TWI_CR_STOP, once the byte has left.
PollSent ==
    /\ twi = "sent"
    /\ \/ /\ "NACK" \in sr
          /\ sr' = sr \ {"NACK"} /\ Return(FALSE)
       \/ /\ "NACK" \notin sr /\ "TXRDY" \in sr
          /\ twi' = "stop" /\ UNCHANGED <<place, got, sr, history>>
    /\ UNCHANGED <<timeout, addr, rhr, bus, held, sensorVars, gain, late>>

PollComplete ==
    /\ twi \in {"complete", "stop"} /\ "TXCOMP" \in sr
    /\ sr' = sr \ {"NACK"}
    /\ Return(TRUE)
    /\ UNCHANGED <<timeout, addr, rhr, bus, held, sensorVars, gain, late>>

EntryNotReset ==
    /\ twi = "idle" /\ pc = "list" /\ Lists[list][next] = Term
    /\ \/ list < Len(Lists) /\ list' = list + 1 /\ UNCHANGED <<pc, next>>
       \/ list = Len(Lists) /\ pc' = "done" /\ UNCHANGED <<list, next>>
    /\ UNCHANGED <<got, twi, twiVars, bus, held, sensorVars, gain, history, late>>

LastListForgotten ==
    /\ twi = "idle" /\ pc = "list" /\ Lists[list][next] = Term
    /\ \/ /\ list < Len(Lists) - 1
          /\ list' = list + 1 /\ next' = 1 /\ UNCHANGED pc
       \/ list = Len(Lists) - 1 /\ pc' = "done" /\ UNCHANGED <<list, next>>
    /\ UNCHANGED <<got, twi, twiVars, bus, held, sensorVars, gain, history, late>>

\* ov_write_regs() returns at the terminator, to the next ov_configure().  Its
\* other return, for TWI_BUSY, is never taken: twi_master_write() has no such
\* result.
EndOfList ==
    /\ twi = "idle" /\ pc = "list" /\ Lists[list][next] = Term
    /\ \/ /\ list < Len(Lists)
          /\ list' = list + 1 /\ next' = 1 /\ UNCHANGED pc
       \/ list = Len(Lists) /\ pc' = "done" /\ UNCHANGED <<list, next>>
    /\ UNCHANGED <<got, twi, twiVars, bus, held, sensorVars, gain, history, late>>

Program == StartRead \/ PollRead \/ StartWrite \/ PollSent \/ PollComplete
           \/ EndOfList

-----------------------------------------------------------------------------
(* The controller and the sensor (external). *)

\* The driver has given up the read that is on the bus.
GivenUp == bus = "reading" /\ twi = "idle"

\* A read that was given up may be answered before the next transfer starts.
Answer ==
    /\ bus = "reading" /\ ~held
    /\ rhr' = file[bank][addr] /\ sr' = sr \cup {"RXRDY", "TXCOMP"}
    /\ bus' = "idle" /\ late' = (late \/ GivenUp)
    /\ UNCHANGED <<place, got, twi, timeout, addr, held, sensorVars, gain,
                   history>>

Accept ==
    /\ bus = "writing" /\ ~held
    /\ IF addr = "bank" THEN bank' = Written.val /\ UNCHANGED file
                        ELSE file' = [file EXCEPT ![bank][addr] = Written.val]
                             /\ UNCHANGED bank
    /\ sr' = sr \cup {"TXRDY"} /\ bus' = "written"
    /\ UNCHANGED <<place, got, twi, timeout, addr, rhr, held, faults, gain,
                   history, late>>

StopSent ==
    /\ bus = "written" /\ twi = "stop"
    /\ sr' = sr \cup {"TXCOMP"} /\ bus' = "idle"
    /\ UNCHANGED <<place, got, twi, timeout, addr, rhr, held, sensorVars, gain,
                   history, late>>

Refuse ==
    /\ bus \in {"reading", "writing"} /\ ~held /\ faults < MaxFaults
    /\ faults' = faults + 1
    /\ sr' = sr \cup {"NACK", "TXCOMP"}
    /\ bus' = "idle" /\ late' = (late \/ GivenUp)
    /\ UNCHANGED <<place, got, twi, timeout, addr, rhr, held, bank, file, gain,
                   history>>

Stretch ==
    /\ bus \in {"reading", "writing"} /\ ~held /\ faults < MaxFaults
    /\ faults' = faults + 1 /\ held' = TRUE
    /\ UNCHANGED <<place, got, twi, twiVars, bus, bank, file, gain, history, late>>

Release ==
    /\ held /\ held' = FALSE
    /\ UNCHANGED <<place, got, twi, twiVars, bus, sensorVars, gain, history, late>>

Next == Program \/ Answer \/ Accept \/ StopSent \/ Refuse \/ Stretch \/ Release

Spec == Init /\ [][Next]_vars

\* The processor runs; the sensor answers what it does not refuse, and
\* stretches no clock for ever (no write has a timeout).
FairSpec == Spec /\ WF_vars(Program)
                 /\ WF_vars(Answer \/ Accept \/ StopSent) /\ WF_vars(Release)

-----------------------------------------------------------------------------
Steps == DOMAIN Then

TypeOK ==
    /\ pc \in Steps \cup {"list", "done"}
    /\ list \in DOMAIN Lists /\ next \in DOMAIN Lists[list]
    /\ got \in [Locals -> Bytes]
    /\ twi \in {"idle", "read", "complete", "sent", "stop"}
    /\ timeout \in 0 .. TWI_TIMEOUT
    /\ addr \in Registers \cup {"bank"}
    /\ sr \subseteq {"NACK", "RXRDY", "TXRDY", "TXCOMP"} /\ rhr \in Bytes
    /\ bus \in {"idle", "reading", "writing", "written"} /\ held \in BOOLEAN
    /\ bank \in Banks /\ file \in [Banks -> [Registers -> Bytes]]
    /\ faults \in 0 .. MaxFaults /\ gain \in Gains
    /\ missed \subseteq Steps /\ spoiled \in BOOLEAN /\ late \in BOOLEAN
    /\ skipped \subseteq (DOMAIN Lists) \X (1 .. 10)

Identified == pc \in {"list", "done"}

\* ov_init() returns 0 only if the reads of the identity and of the trial value
\* all succeeded in that attempt, although it looks at no status, and then the
\* sensor's bank is selected: no combination of refused, abandoned and late
\* transfers passes for a sensor that is ready for the lists.
ConfiguresTheSensor ==
    /\ Identified => missed \cap {"pidh", "midh", "midl", "check"} = {}
    /\ Identified /\ list = 1 /\ next = 1 /\ twi = "idle" => bank = "01"

\* The transfers of an attempt that come before each place.
Earlier ==
    [bank |-> {}, pidh |-> {"bank"}, pidl |-> {"bank", "pidh"},
     midh |-> {"bank", "pidh", "pidl"},
     midl |-> {"bank", "pidh", "pidl", "midh"},
     old  |-> {"bank", "pidh", "pidl", "midh", "midl"},
     try  |-> {"bank", "pidh", "pidl", "midh", "midl", "old"},
     check |-> {"bank", "pidh", "pidl", "midh", "midl", "old", "try"},
     put   |-> Steps, confirm |-> Steps, list |-> Steps, done |-> Steps]

\* Where the driver stands in a transfer, and what the bus carries.
Transfer ==
    /\ twi \in {"read", "complete"} => pc \in Reads
    /\ twi \in {"sent", "stop"} =>
          pc \in Writes \/ (pc = "list" /\ Lists[list][next] # Term)
    /\ bus = "writing" =>
          twi = "sent" /\ addr = Written.reg /\ sr \cap {"NACK", "TXRDY"} = {}
    /\ bus = "reading" => addr \in Registers

\* A variable whose read failed still holds 0, and no step goes on without
\* the value it asks for.
LocalsRead ==
    /\ missed \subseteq Earlier[pc] /\ "check" \notin missed
    /\ \A v \in {"pidh", "midh", "midl"} :
          v \in missed \/ (pc = v /\ twi # "complete") \/ v \notin Earlier[pc] \cup {pc}
             => got[v] = "00"
    /\ pc \notin {"check", "put", "confirm", "list", "done"}
          \/ (pc = "check" /\ twi # "complete") => got["value"] = "00"
    /\ "pidl" \in Earlier[pc] => got["pidh"] = "26"
    /\ "midl" \in Earlier[pc] => got["midh"] = "7f" /\ got["midl"] = "a2"

\* Before the lists, nothing that looks like an identity comes from the other
\* bank.
OtherBank ==
    /\ pc \in Steps =>
          /\ \A r \in Registers : file["00"][r] = "xx"
          /\ bank = "00" => rhr = "xx" /\ got["pidh"] # "26"
    /\ Identified /\ list = 1 /\ next = 1 /\ twi = "idle" => bank = "01"

\* What makes ConfiguresTheSensor inductive: what the local variables hold
\* says which of the reads succeeded.
SensorInv == TypeOK /\ Transfer /\ LocalsRead /\ OtherBank

\* A byte that the sensor accepted is not refused, and a read is for what the
\* place asks.
Sending ==
    /\ twi \in {"read", "complete"} => addr = Asked[pc]
    /\ twi = "sent" => bus # "reading" /\ ~({"NACK", "TXRDY"} \subseteq sr)
    /\ twi = "stop" => "TXRDY" \in sr

\* Nothing is coming from the sensor but the answer to the read at hand.
Fresh ==
    bus = "reading" \/ "RXRDY" \in sr =>
        twi = "read" /\ ~(bus = "reading" /\ "RXRDY" \in sr)

\* Once pidh was read, the bytes that may be taken for a later one's are its
\* own and pidl's, so that midh's 7f can only be its own, and nothing is
\* pending behind it.
Catching ==
    pc \in {"pidh", "pidl", "midh"} /\ got["pidh"] = "26" =>
        /\ \/ rhr \in {"26", "41"}
           \/ pc = "midh" /\ twi \in {"read", "complete"} /\ rhr = "7f"
                /\ bus # "reading"
        /\ bus = "reading" =>
              \/ addr \in {"pidh", "pidl"}
              \/ pc = "midh" /\ twi \in {"read", "complete"}
        /\ pc = "midh" /\ twi = "complete" /\ got["midh"] = "7f" => Fresh

\* The trial of ov_test_write(): where the old value is.
Trial ==
    /\ pc \in {"old", "try", "check"} => Fresh
    /\ pc \in {"old", "check"} /\ twi = "read" /\ "RXRDY" \in sr =>
          rhr = file["01"]["gain"]
    /\ (pc = "old" /\ twi = "complete") \/ pc \in {"try", "check", "put"} =>
          got["old"] = gain
    /\ pc = "check" /\ twi = "complete" => got["value"] = file["01"]["gain"]
    /\ \/ file["01"]["gain"] = gain
       \/ pc \in {"try", "check", "put"} /\ file["01"]["gain"] = "ad"
    /\ pc = "put" /\ twi \in {"sent", "stop"} /\ "TXRDY" \in sr =>
          file["01"]["gain"] = gain

TrialInv ==
    /\ pc \in Steps => \A r \in Registers \ {"gain"} :
                           file["01"][r] = Factory(gain)["01"][r]
    /\ Sending
    /\ Catching
    /\ pc = "midl" /\ got["midh"] = "7f" => Fresh
    /\ ~spoiled => Trial

\* ov_test_write() "return[s] old value": the tried register keeps what it
\* held, unless the read of it, the check or the write back failed once, in
\* an attempt that need not be the last.
TrialUndone == Identified /\ ~spoiled => file["01"]["gain"] = gain

\* The entries of the lists and the order they are written in.
Positions == {p \in (DOMAIN Lists) \X (1 .. 10) : p[2] \in DOMAIN Lists[p[1]]}
Entry(p) == Lists[p[1]][p[2]]
Before(p, q) == p[1] < q[1] \/ (p[1] = q[1] /\ p[2] < q[2])
Latest(P) == CHOOSE p \in P : \A q \in P \ {p} : Before(q, p)

\* What the lists say of the entries before p: the last select counts, and for
\* a register the last write while its bank is selected.
SelectsBefore(p) ==
    {q \in Positions : Before(q, p) /\ Entry(q).reg = "bank" /\ Entry(q) # Term}
BankAt(p) ==
    IF SelectsBefore(p) = {} THEN "01" ELSE Entry(Latest(SelectsBefore(p))).val
Banked == {<<q, BankAt(q)>> : q \in Positions}
WritesBefore(p, b, r) ==
    {q \in Positions : Entry(q).reg = r /\ Before(q, p) /\ <<q, b>> \in Banked}
IntendedAt(p, b, r) ==
    IF WritesBefore(p, b, r) = {} THEN "xx"
    ELSE Entry(Latest(WritesBefore(p, b, r))).val

Configuration == {"r2c", "r04", "r50", "rda"}
Intended(b, r) == IntendedAt(<<Len(Lists) + 1, 1>>, b, r)

\* No entry for the register was refused, nor a select.
Unskipped(r) == \A e \in skipped : Entry(e).reg \notin {r, "bank"}

\* configure_camera() leaves a configuration register as the lists say,
\* unless the sensor refused one of its writes, or the select of a bank:
\* that one sends the writes after it to the other bank.
Configured ==
    pc = "done" =>
        \A r \in Configuration : Unskipped(r) =>
            \A b \in Banks : file[b][r] = Intended(b, r)

\* The first entry that the sensor has not been sent yet.
Here ==
    IF twi \in {"sent", "stop"} /\ "TXRDY" \in sr THEN <<list, next + 1>>
                                                 ELSE <<list, next>>

\* The sensor is as the lists say before p, for what it did not refuse.
AsSaid(p) ==
    /\ (\A e \in skipped : Entry(e).reg # "bank") => bank = BankAt(p)
    /\ \A r \in Configuration : Unskipped(r) =>
          \A b \in Banks : file[b][r] = IntendedAt(p, b, r)

\* As far as the lists were written, and not refused, the sensor has it.
ListsInv ==
    /\ pc \in Steps => list = 1 /\ next = 1 /\ skipped = {}
    /\ pc = "done" => list = Len(Lists) /\ Lists[list][next] = Term
    /\ Identified => AsSaid(Here)

\* Everything that an induction over the steps of configure_camera() needs.
ConfigureInv == SensorInv /\ TrialInv /\ ListsInv

\* configure_camera() returns, however the first transfers fail, unless a
\* read was answered after its timeout: its byte is then taken for the next
\* read's, and so on for ever.
ConfigureReturns == <>(pc = "done" \/ late)
=============================================================================
