---------------------------- MODULE SensorProofs ----------------------------
(***************************************************************************)
(* Theorems about configure_camera(), for every number of faults and every *)
(* timeout.                                                                *)
(***************************************************************************)
EXTENDS Sensor, TLAPS

Places == Steps \cup {"list", "done"}

LEMMA StepNames ==
    /\ Steps = {"bank", "pidh", "pidl", "midh", "midl", "old", "try", "check",
                "put", "confirm"}
    /\ Reads = {"pidh", "pidl", "midh", "midl", "old", "check", "confirm"}
  BY DEF Steps, Then, Reads, Asked

LEMMA AskedFacts ==
    \A s \in {"pidh", "pidl", "midh", "midl", "old", "check", "confirm"} :
        Asked[s] \in Registers
  BY DEF Asked, Registers

\* What ov_write_regs() relies on: an entry that is not the terminator has a
\* successor, and a select names a bank.
LEMMA EntryFacts ==
    /\ DOMAIN Lists = 1 .. 4 /\ Len(Lists) = 4
    /\ \A l \in DOMAIN Lists : 1 \in DOMAIN Lists[l]
    /\ \A l \in DOMAIN Lists : \A n \in DOMAIN Lists[l] :
          /\ n \in 1 .. 10
          /\ Lists[l][n].reg \in (Registers \ {"gain"}) \cup {"bank"}
          /\ Lists[l][n].val \in Bytes
          /\ Lists[l][n] # Term =>
                /\ n + 1 \in DOMAIN Lists[l]
                /\ Lists[l][n].reg = "bank" => Lists[l][n].val \in Banks
  <1> USE DEF Lists, OV2640_JPEG_INIT, OV2640_YUV422, OV2640_JPEG,
              OV2640_JPEG_320x240, Select, Set, Term, Registers, Bytes, Banks
  <1>0. DOMAIN Lists = 1 .. 4 /\ Len(Lists) = 4
    OBVIOUS
  <1>5. \A l \in 1 .. 4 : 1 \in DOMAIN Lists[l]
    OBVIOUS
  <1> SUFFICES ASSUME NEW l \in 1 .. 4, NEW n \in DOMAIN Lists[l]
               PROVE  /\ n \in 1 .. 10
                      /\ Lists[l][n].reg \in (Registers \ {"gain"}) \cup {"bank"}
                      /\ Lists[l][n].val \in Bytes
                      /\ Lists[l][n] # Term =>
                            /\ n + 1 \in DOMAIN Lists[l]
                            /\ Lists[l][n].reg = "bank" => Lists[l][n].val \in Banks
    BY <1>0, <1>5
  <1>1. CASE l = 1
    BY <1>1
  <1>2. CASE l = 2
    BY <1>2
  <1>3. CASE l = 3
    BY <1>3
  <1>4. CASE l = 4
    BY <1>4
  <1> QED
    BY <1>1, <1>2, <1>3, <1>4

LEMMA InitSensor == Init => SensorInv
  <1> SUFFICES ASSUME Init PROVE SensorInv
    OBVIOUS
  <1> USE StepNames DEF Init
  <1>1. TypeOK
    <2>1. file \in [Banks -> [Registers -> Bytes]]
      BY SensorAssumption DEF Factory, Bytes, Registers, Banks
    <2>2. list \in DOMAIN Lists /\ next \in DOMAIN Lists[list]
      BY EntryFacts
    <2>3. timeout \in 0 .. TWI_TIMEOUT /\ faults \in 0 .. MaxFaults
      BY SensorAssumption
    <2> QED
      BY <2>1, <2>2, <2>3
         DEF TypeOK, Blank, Locals, Bytes, Banks, Registers
  <1>2. Transfer
    BY DEF Transfer
  <1>3. LocalsRead
    BY DEF LocalsRead, Earlier, Blank, Locals
  <1>4. OtherBank
    BY DEF OtherBank, Factory, Banks, Blank, Locals, Identified
  <1> QED
    BY <1>1, <1>2, <1>3, <1>4 DEF SensorInv

\* A transfer that returns leaves the invariant, provided a read that failed
\* has stored nothing and a read that succeeded has stored its byte.
LEMMA ReturnStep ==
    ASSUME SensorInv, NEW ok \in BOOLEAN, Return(ok),
           pc # "done", pc = "list" => Lists[list][next] # Term,
           ~ok => twi # "complete", ok /\ pc \in Reads => twi = "complete",
           bus # "writing",
           UNCHANGED <<addr, rhr, bus, held, sensorVars, gain>>,
           timeout' = timeout, late' \in BOOLEAN,
           sr' \subseteq {"NACK", "RXRDY", "TXRDY", "TXCOMP"}
    PROVE  SensorInv'
  <1> USE StepNames DEF sensorVars
  <1>0. TypeOK /\ Transfer /\ LocalsRead /\ OtherBank
    BY DEF SensorInv
  <1>1. CASE pc = "list"
    <2>1. /\ next' = next + 1 /\ twi' = "idle"
          /\ skipped' = IF ok THEN skipped ELSE skipped \cup {<<list, next>>}
          /\ UNCHANGED <<pc, list, got, missed, spoiled>>
      BY <1>1 DEF Return
    <2>2. next' \in DOMAIN Lists[list] /\ next \in 1 .. 10 /\ list \in DOMAIN Lists
      BY <1>0, <1>1, <2>1, EntryFacts DEF TypeOK
    <2>3. TypeOK'
      BY <1>0, <2>1, <2>2 DEF TypeOK
    <2>4. Transfer'
      BY <1>0, <2>1 DEF Transfer
    <2>5. LocalsRead'
      BY <1>0, <1>1, <2>1 DEF LocalsRead, Earlier
    <2>6. OtherBank'
      BY <1>0, <1>1, <2>1, <2>2, EntryFacts DEF OtherBank, Identified
    <2> QED
      BY <2>3, <2>4, <2>5, <2>6 DEF SensorInv
  <1>2. CASE pc # "list" /\ Passed
    <2>1. /\ pc \in Steps /\ pc' = Then[pc] /\ twi' = "idle"
          /\ missed' = IF ok THEN missed ELSE missed \cup {pc}
          /\ spoiled' \in BOOLEAN
          /\ UNCHANGED <<list, next, got, skipped>>
      BY <1>0, <1>2 DEF Return, TypeOK
    <2>2. pc' \in Places /\ pc' # "bank" /\ Earlier[pc'] \subseteq Steps
      BY <2>1 DEF Places, Then, Earlier
    <2>3. Earlier[pc'] = Earlier[pc] \cup {pc} \/ (Earlier[pc'] = Steps /\ pc \notin {"pidh", "midh", "midl"})
      BY <2>1 DEF Then, Earlier
    <2>4. TypeOK'
      BY <1>0, <2>1, <2>2 DEF TypeOK, Places
    <2>5. Transfer'
      BY <1>0, <2>1 DEF Transfer
    <2>6. LocalsRead'
      BY <1>0, <1>2, <2>1 DEF LocalsRead, Earlier, Then, Passed
    <2>7. OtherBank'
      BY <1>0, <1>2, <2>1 DEF OtherBank, Identified, Then, LocalsRead, Earlier, TypeOK, Banks
    <2> QED
      BY <2>4, <2>5, <2>6, <2>7 DEF SensorInv
  <1>3. CASE pc # "list" /\ ~Passed
    <2>1. /\ pc' = "bank" /\ got' = Blank /\ missed' = {} /\ twi' = "idle"
          /\ spoiled' \in BOOLEAN /\ UNCHANGED <<list, next, skipped>>
      BY <1>0, <1>3 DEF Return, TypeOK
    <2>2. TypeOK'
      BY <1>0, <2>1 DEF TypeOK, Blank, Bytes, Locals
    <2>3. Transfer'
      BY <1>0, <2>1 DEF Transfer
    <2>4. LocalsRead'
      BY <2>1 DEF LocalsRead, Earlier, Blank, Locals
    <2>5. OtherBank'
      BY <1>0, <1>3, <2>1 DEF OtherBank, Identified, Blank, Locals, TypeOK
    <2> QED
      BY <2>2, <2>3, <2>4, <2>5 DEF SensorInv
  <1> QED
    BY <1>1, <1>2, <1>3

LEMMA ReadStep == SensorInv /\ (StartRead \/ PollRead) => SensorInv'
  <1> SUFFICES ASSUME SensorInv, StartRead \/ PollRead PROVE SensorInv'
    OBVIOUS
  <1> USE StepNames DEF place, twiVars, sensorVars, history
  <1>0. TypeOK /\ Transfer /\ LocalsRead /\ OtherBank
    BY DEF SensorInv
  <1>1. CASE StartRead
    <2>0. pc \in {"pidh", "pidl", "midh", "midl", "old", "check", "confirm"}
      BY <1>1 DEF StartRead
    <2>1. Asked[pc] \in Registers
      BY <2>0, AskedFacts
    <2>2. timeout' \in 0 .. TWI_TIMEOUT
      BY <1>1, SensorAssumption DEF StartRead
    <2>3. TypeOK'
      BY <1>0, <1>1, <2>1, <2>2 DEF StartRead, TypeOK
    <2>4. Transfer'
      BY <1>0, <1>1, <2>1 DEF StartRead, Transfer
    <2>5. LocalsRead'
      BY <1>0, <1>1 DEF StartRead, LocalsRead, Earlier
    <2>6. OtherBank'
      BY <1>0, <1>1 DEF StartRead, OtherBank, Identified
    <2> QED
      BY <2>3, <2>4, <2>5, <2>6 DEF SensorInv
  <1>2. ASSUME twi = "read", Return(FALSE), late' \in BOOLEAN,
               timeout' = timeout, sr' \subseteq sr,
               UNCHANGED <<addr, rhr, bus, held, sensorVars, gain>>
        PROVE  SensorInv'
    <2>1. /\ pc \in Reads /\ pc # "done" /\ pc # "list"
          /\ bus # "writing"
          /\ sr' \subseteq {"NACK", "RXRDY", "TXRDY", "TXCOMP"}
      BY <1>0, <1>2 DEF Transfer, TypeOK
    <2> QED
      BY <1>2, <2>1, ReturnStep
  <1>3. ASSUME twi = "read", timeout > 0, sr' = sr \ {"RXRDY"},
               got' = [got EXCEPT ![Into[pc]] = rhr], twi' = "complete",
               timeout' = TWI_TIMEOUT,
               UNCHANGED <<place, history, late, addr, rhr, bus, held,
                           sensorVars, gain>>
        PROVE  SensorInv'
    <2>1. pc \in Reads /\ bus # "writing" /\ Into[pc] \in Locals
      BY <1>0, <1>3 DEF Transfer, Into, Locals
    <2>2. got' \in [Locals -> Bytes]
      BY <1>0, <1>3, <2>1 DEF TypeOK
    <2>3. TypeOK'
      BY <1>0, <1>3, <2>2, SensorAssumption DEF TypeOK
    <2>4. Transfer'
      BY <1>0, <1>3, <2>1 DEF Transfer
    <2>5. LocalsRead'
      BY <1>0, <1>3, <2>1 DEF LocalsRead, Earlier, Into, TypeOK, Locals
    <2>6. OtherBank'
      BY <1>0, <1>3, <2>1 DEF OtherBank, Identified, Into, TypeOK, Locals
    <2> QED
      BY <2>3, <2>4, <2>5, <2>6 DEF SensorInv
  <1>4. ASSUME twi = "read", timeout > 0, timeout' = timeout - 1,
               UNCHANGED <<place, got, twi, sr, history, late, addr, rhr, bus,
                           held, sensorVars, gain>>
        PROVE  SensorInv'
    <2>1. TypeOK'
      BY <1>0, <1>4, SensorAssumption DEF TypeOK
    <2>2. Transfer'
      BY <1>0, <1>4 DEF Transfer, Written
    <2>3. LocalsRead'
      BY <1>0, <1>4 DEF LocalsRead
    <2>4. OtherBank'
      BY <1>0, <1>4 DEF OtherBank, Identified
    <2> QED
      BY <2>1, <2>2, <2>3, <2>4 DEF SensorInv
  <1>5. CASE PollRead
    BY <1>0, <1>2, <1>3, <1>4, <1>5 DEF PollRead, TypeOK
  <1> QED
    BY <1>1, <1>5

LEMMA WriteStep == SensorInv /\ (StartWrite \/ PollSent) => SensorInv'
  <1> SUFFICES ASSUME SensorInv, StartWrite \/ PollSent PROVE SensorInv'
    OBVIOUS
  <1> USE StepNames DEF place, twiVars, sensorVars, history
  <1>0. TypeOK /\ Transfer /\ LocalsRead /\ OtherBank
    BY DEF SensorInv
  <1>1. ASSUME Return(FALSE), twi # "complete", bus # "writing", pc \notin Reads,
               pc # "done", pc = "list" => Lists[list][next] # Term,
               sr' = sr \ {"NACK"},
               UNCHANGED <<timeout, addr, rhr, bus, held, sensorVars, gain, late>>
        PROVE  SensorInv'
    <2>1. sr' \subseteq {"NACK", "RXRDY", "TXRDY", "TXCOMP"} /\ late' \in BOOLEAN
      BY <1>0, <1>1 DEF TypeOK
    <2> QED
      BY <1>1, <2>1, ReturnStep
  <1>2. CASE StartWrite
    <2>0. /\ pc \notin Reads /\ pc # "done" /\ twi = "idle" /\ bus # "writing"
          /\ pc \in Writes \/ (pc = "list" /\ Lists[list][next] # Term)
          /\ pc = "list" => Lists[list][next] # Term
      BY <1>0, <1>2 DEF StartWrite, Writes, Transfer
    <2>1. CASE "NACK" \in sr
      BY <1>1, <1>2, <2>0, <2>1 DEF StartWrite
    <2>2. CASE "NACK" \notin sr
      <3>1. /\ twi' = "sent" /\ addr' = Written.reg /\ bus' = "writing"
            /\ held' = FALSE /\ sr' = sr \ {"TXRDY", "TXCOMP"}
            /\ UNCHANGED <<place, got, history, timeout, rhr, sensorVars, gain, late>>
        BY <1>2, <2>2 DEF StartWrite
      <3>2. Written.reg \in Registers \cup {"bank"}
        BY <1>0, <2>0, EntryFacts DEF Written, Writes, TypeOK, Select, Set, Registers
      <3>3. Written' = Written
        BY <3>1 DEF Written
      <3>4. TypeOK'
        BY <1>0, <3>1, <3>2 DEF TypeOK
      <3>5. Transfer'
        BY <1>0, <2>0, <2>2, <3>1, <3>3 DEF Transfer
      <3>6. LocalsRead'
        BY <1>0, <2>0, <3>1 DEF LocalsRead
      <3>7. OtherBank'
        BY <1>0, <3>1 DEF OtherBank, Identified
      <3> QED
        BY <3>4, <3>5, <3>6, <3>7 DEF SensorInv
    <2> QED
      BY <2>1, <2>2
  <1>3. CASE PollSent
    <2>0. /\ pc \notin Reads /\ pc # "done" /\ twi = "sent"
          /\ pc \in Writes \/ (pc = "list" /\ Lists[list][next] # Term)
          /\ pc = "list" => Lists[list][next] # Term
      BY <1>0, <1>3 DEF PollSent, Writes, Transfer
    <2>1. CASE "NACK" \in sr
      <3>1. bus # "writing"
        BY <1>0, <2>1 DEF Transfer
      <3> QED
        BY <1>1, <1>3, <2>0, <2>1, <3>1 DEF PollSent
    <2>2. CASE "NACK" \notin sr
      <3>1. /\ twi' = "stop" /\ "TXRDY" \in sr
            /\ UNCHANGED <<place, got, sr, history, timeout, addr, rhr, bus, held,
                           sensorVars, gain, late>>
        BY <1>3, <2>2 DEF PollSent
      <3>2. TypeOK'
        BY <1>0, <3>1 DEF TypeOK
      <3>3. Transfer'
        BY <1>0, <2>0, <3>1 DEF Transfer
      <3>4. LocalsRead'
        BY <1>0, <2>0, <3>1 DEF LocalsRead
      <3>5. OtherBank'
        BY <1>0, <3>1 DEF OtherBank, Identified
      <3> QED
        BY <3>2, <3>3, <3>4, <3>5 DEF SensorInv
    <2> QED
      BY <2>1, <2>2
  <1> QED
    BY <1>2, <1>3

LEMMA EndStep == SensorInv /\ (PollComplete \/ EndOfList) => SensorInv'
  <1> SUFFICES ASSUME SensorInv, PollComplete \/ EndOfList PROVE SensorInv'
    OBVIOUS
  <1> USE StepNames DEF place, twiVars, sensorVars, history
  <1>0. TypeOK /\ Transfer /\ LocalsRead /\ OtherBank
    BY DEF SensorInv
  <1>1. CASE PollComplete
    <2>1. /\ pc # "done" /\ bus # "writing" /\ late' \in BOOLEAN
          /\ pc = "list" => Lists[list][next] # Term
          /\ pc \in Reads => twi = "complete"
          /\ sr' \subseteq {"NACK", "RXRDY", "TXRDY", "TXCOMP"}
      BY <1>0, <1>1 DEF PollComplete, Transfer, TypeOK, Writes
    <2>2. /\ Return(TRUE) /\ timeout' = timeout
          /\ UNCHANGED <<addr, rhr, bus, held, sensorVars, gain>>
      BY <1>1 DEF PollComplete
    <2> QED
      BY <2>1, <2>2, ReturnStep
  <1>2. CASE EndOfList
    <2>1. /\ pc = "list" /\ twi = "idle" /\ bus # "writing"
          /\ UNCHANGED <<got, twi, twiVars, bus, held, sensorVars, gain, history, late>>
      BY <1>0, <1>2 DEF EndOfList, Transfer
    <2>2. /\ list' \in DOMAIN Lists /\ next' \in DOMAIN Lists[list']
          /\ pc' \in {"list", "done"}
          /\ list' = 1 => list = list' /\ next = next'
      BY <1>0, <1>2, <2>1, EntryFacts DEF EndOfList, TypeOK
    <2>3. TypeOK'
      BY <1>0, <2>1, <2>2 DEF TypeOK
    <2>4. Transfer'
      BY <1>0, <2>1 DEF Transfer
    <2>5. LocalsRead'
      BY <1>0, <2>1, <2>2 DEF LocalsRead, Earlier
    <2>6. OtherBank'
      BY <1>0, <2>1, <2>2 DEF OtherBank, Identified
    <2> QED
      BY <2>3, <2>4, <2>5, <2>6 DEF SensorInv
  <1> QED
    BY <1>1, <1>2

LEMMA BusStep ==
    SensorInv /\ (Answer \/ StopSent \/ Refuse \/ Stretch \/ Release) => SensorInv'
  <1> SUFFICES ASSUME SensorInv,
                      Answer \/ StopSent \/ Refuse \/ Stretch \/ Release
               PROVE  SensorInv'
    OBVIOUS
  <1> USE StepNames DEF place, twiVars, sensorVars, history
  <1>0. TypeOK /\ Transfer /\ LocalsRead /\ OtherBank
    BY DEF SensorInv
  <1>1. CASE Answer
    <2>1. addr \in Registers /\ file[bank][addr] \in Bytes
      BY <1>0, <1>1 DEF Answer, Transfer, TypeOK
    <2>2. TypeOK'
      BY <1>0, <1>1, <2>1 DEF Answer, TypeOK, GivenUp
    <2>3. Transfer'
      BY <1>0, <1>1 DEF Answer, Transfer
    <2>4. LocalsRead'
      BY <1>0, <1>1 DEF Answer, LocalsRead
    <2>5. OtherBank'
      BY <1>0, <1>1, <2>1 DEF Answer, OtherBank, Identified
    <2> QED
      BY <2>2, <2>3, <2>4, <2>5 DEF SensorInv
  <1>2. CASE StopSent \/ Refuse \/ Stretch \/ Release
    <2>1. /\ UNCHANGED <<place, got, twi, timeout, addr, rhr, bank, file, gain, history>>
          /\ bus' \in {bus, "idle"} /\ held' \in BOOLEAN
          /\ bus' = "idle" \/ sr' = sr
          /\ sr' \subseteq {"NACK", "RXRDY", "TXRDY", "TXCOMP"}
          /\ late' \in BOOLEAN /\ faults' \in 0 .. MaxFaults
      <3>1. CASE StopSent
        BY <1>0, <3>1 DEF StopSent, TypeOK
      <3>2. CASE Refuse
        BY <1>0, <3>2, SensorAssumption DEF Refuse, TypeOK, GivenUp
      <3>3. CASE Stretch
        BY <1>0, <3>3, SensorAssumption DEF Stretch, TypeOK
      <3>4. CASE Release
        BY <1>0, <3>4 DEF Release, TypeOK
      <3> QED
        BY <1>2, <3>1, <3>2, <3>3, <3>4
    <2>2. TypeOK'
      BY <1>0, <2>1 DEF TypeOK
    <2>3. Transfer'
      BY <1>0, <2>1 DEF Transfer, Written
    <2>4. LocalsRead'
      BY <1>0, <2>1 DEF LocalsRead
    <2>5. OtherBank'
      BY <1>0, <2>1 DEF OtherBank, Identified
    <2> QED
      BY <2>2, <2>3, <2>4, <2>5 DEF SensorInv
  <1> QED
    BY <1>1, <1>2

LEMMA AcceptStep == SensorInv /\ Accept => SensorInv'
  <1> SUFFICES ASSUME SensorInv, Accept PROVE SensorInv'
    OBVIOUS
  <1> USE StepNames DEF place, twiVars, sensorVars, history
  <1>0. TypeOK /\ Transfer /\ LocalsRead /\ OtherBank
    BY DEF SensorInv
  <1>1. /\ twi = "sent" /\ addr = Written.reg
        /\ pc \in Writes \/ (pc = "list" /\ Lists[list][next] # Term)
    BY <1>0 DEF Accept, Transfer
  <1>2. /\ Written.val \in Bytes
        /\ addr = "bank" => Written.val \in Banks
        /\ pc = "bank" => addr = "bank" /\ Written.val = "01"
        /\ pc \in {"try", "put"} => addr = "gain" /\ addr # "bank"
    BY <1>0, <1>1, EntryFacts
       DEF Written, Writes, Select, Set, TypeOK, Bytes, Banks, Locals, Registers
  <1>3. pc \in {"try", "put"} => bank = "01"
    BY <1>0 DEF OtherBank, LocalsRead, Earlier, TypeOK, Banks
  <1>4. /\ bank' \in Banks /\ file' \in [Banks -> [Registers -> Bytes]]
        /\ pc \in Steps => bank' = "01" /\ file'["00"] = file["00"]
    <2>1. CASE addr = "bank"
      BY <1>0, <1>1, <1>2, <2>1 DEF Accept, TypeOK, Writes, Banks
    <2>2. CASE addr # "bank"
      <3>1. /\ addr \in Registers /\ bank' = bank
            /\ file' = [file EXCEPT ![bank] = [file[bank] EXCEPT ![addr] = Written.val]]
        BY <1>0, <2>2 DEF Accept, TypeOK
      <3>2. pc \in Steps => bank = "01"
        BY <1>1, <1>2, <1>3, <2>2 DEF Writes
      <3>3. [file[bank] EXCEPT ![addr] = Written.val] \in [Registers -> Bytes]
        BY <1>0, <1>2, <3>1 DEF TypeOK
      <3> QED
        BY <1>0, <3>1, <3>2, <3>3 DEF TypeOK, Banks
    <2> QED
      BY <2>1, <2>2
  <1>5. TypeOK'
    BY <1>0, <1>4 DEF Accept, TypeOK
  <1>6. Transfer'
    BY <1>0, <1>1 DEF Accept, Transfer
  <1>7. LocalsRead'
    BY <1>0 DEF Accept, LocalsRead
  <1>8. OtherBank'
    BY <1>0, <1>1, <1>4 DEF Accept, OtherBank, Identified
  <1> QED
    BY <1>5, <1>6, <1>7, <1>8 DEF SensorInv

LEMMA StutterSensor == SensorInv /\ UNCHANGED vars => SensorInv'
  BY DEF SensorInv, TypeOK, Transfer, LocalsRead, OtherBank, Identified, Written,
         vars, place, twiVars, sensorVars, history

\* What the driver's local variables say of the transfers is right, whatever
\* the sensor refuses, delays or answers late.
THEOREM SensorInvariant == Spec => []SensorInv
  <1>1. SensorInv /\ [Next]_vars => SensorInv'
    BY ReadStep, WriteStep, EndStep, BusStep, AcceptStep, StutterSensor
       DEF Next, Program
  <1> QED
    BY InitSensor, <1>1, PTL DEF Spec

\* The register lists are written only to a sensor whose identity and trial
\* value were read in that very attempt of ov_init(), with its bank selected.
THEOREM ConfiguresTheSensorHolds == Spec => []ConfiguresTheSensor
  <1>1. SensorInv => ConfiguresTheSensor
    <2> SUFFICES ASSUME SensorInv PROVE ConfiguresTheSensor
      OBVIOUS
    <2>1. Identified =>
             \A v \in {"pidh", "midh", "midl"} : v \notin missed
      BY DEF SensorInv, LocalsRead, Identified, Earlier, Steps, Then
    <2> QED
      BY <2>1 DEF SensorInv, ConfiguresTheSensor, LocalsRead, OtherBank
  <1> QED
    BY SensorInvariant, <1>1, PTL

-----------------------------------------------------------------------------
(* The trial of ov_test_write(). *)

LEMMA InitTrial == Init => TrialInv
  <1> SUFFICES ASSUME Init PROVE TrialInv
    OBVIOUS
  <1> USE StepNames DEF Init
  <1>1. \A r \in Registers : file["01"][r] = Factory(gain)["01"][r]
    OBVIOUS
  <1>2. file["01"]["gain"] = gain
    BY DEF Factory, Banks, Registers
  <1>3. Sending /\ Catching /\ Trial
    BY <1>2 DEF Sending, Catching, Trial
  <1> QED
    BY <1>1, <1>3 DEF TrialInv

\* A transfer that returns leaves the parts of TrialInv that name its place.
LEMMA ReturnTrial ==
    ASSUME SensorInv, TrialInv, NEW ok \in BOOLEAN, Return(ok), pc # "done",
           ok /\ pc \in Reads => twi = "complete",
           ok /\ pc = "put" => twi = "stop",
           ~ok => twi # "complete",
           UNCHANGED <<addr, rhr, bus, held, sensorVars, gain>>, sr' \subseteq sr
    PROVE  TrialInv'
  <1> USE StepNames DEF sensorVars
  <1>0. /\ TypeOK /\ LocalsRead /\ OtherBank
        /\ Sending /\ Catching /\ (~spoiled => Trial)
        /\ pc = "midl" /\ got["midh"] = "7f" => Fresh
        /\ pc \in Steps => \A r \in Registers \ {"gain"} :
                               file["01"][r] = Factory(gain)["01"][r]
    BY DEF SensorInv, TrialInv
  <1>1. /\ twi' = "idle" /\ pc' \in Places
        /\ pc = "list" => pc' = "list"
        /\ pc # "list" => /\ pc \in Steps
                          /\ \/ pc' = "bank" /\ ~Passed
                             \/ pc' = Then[pc] /\ Passed /\ got' = got
    BY <1>0 DEF Return, Then, Places, TypeOK
  <1>8. pc # "list" /\ ~spoiled' => ~spoiled /\ (~ok => pc \notin {"old", "check", "put"})
    BY Zenon DEF Return
  <1>2. pc' \in Steps => \A r \in Registers \ {"gain"} :
                             file'["01"][r] = Factory(gain')["01"][r]
    BY <1>0, <1>1
  <1>3. Sending'
    BY <1>1 DEF Sending
  <1>4. Fresh => Fresh' \/ twi = "read"
    BY <1>1 DEF Fresh
  <1>5. Catching'
    <2> SUFFICES ASSUME pc' \in {"pidh", "pidl", "midh"}, got'["pidh"] = "26"
                 PROVE  /\ rhr' \in {"26", "41"}
                        /\ bus' = "reading" => addr' \in {"pidh", "pidl"}
      BY <1>1 DEF Catching
    <2>1. pc \in {"bank", "pidh", "pidl"} /\ got["pidh"] = "26" /\ Passed
      BY <1>1 DEF Then
    <2>2. pc # "bank"
      BY <1>0, <2>1 DEF LocalsRead, Earlier
    <2> QED
      BY <1>0, <2>1, <2>2 DEF Catching
  <1>6. pc' = "midl" /\ got'["midh"] = "7f" => Fresh'
    <2> SUFFICES ASSUME pc' = "midl", got'["midh"] = "7f" PROVE Fresh'
      OBVIOUS
    <2>1. pc = "midh" /\ got["midh"] = "7f"
      BY <1>1 DEF Then
    <2>2. twi = "complete" /\ got["pidh"] = "26"
      BY <1>0, <2>1 DEF LocalsRead, Earlier
    <2>3. Fresh
      BY <1>0, <2>1, <2>2 DEF Catching
    <2> QED
      BY <1>4, <2>2, <2>3
  <1>7. ~spoiled' => Trial'
    <2> SUFFICES ASSUME ~spoiled' PROVE Trial'
      OBVIOUS
    <2>1. CASE pc = "list"
      <3>1. pc' = "list" /\ ~spoiled
        BY <2>1 DEF Return
      <3> QED
        BY <1>0, <1>1, <2>1, <3>1 DEF Trial
    <2>2. CASE pc # "list"
      <3>1. Trial /\ (~ok => pc \notin {"old", "check", "put"})
        BY <1>0, <1>8, <2>2, Zenon
      <3>2. pc \in {"old", "check"} => twi = "complete"
        BY <3>1
      <3>3. pc' \in {"old", "try", "check"} => Fresh'
        <4>1. CASE pc' = "old"
          <5>1. pc = "midl" /\ got["midh"] = "7f" /\ got["midl"] = "a2"
            BY <1>1, <2>2, <4>1 DEF Then, Passed
          <5>2. twi # "read"
            BY <1>0, <5>1 DEF LocalsRead
          <5> QED
            BY <1>0, <1>4, <5>1, <5>2
        <4>2. CASE pc' = "try"
          <5>1. pc = "old"
            BY <1>1, <2>2, <4>2 DEF Then
          <5> QED
            BY <1>4, <3>1, <3>2, <5>1 DEF Trial
        <4>3. CASE pc' = "check"
          <5>1. pc = "try"
            BY <1>1, <2>2, <4>3 DEF Then
          <5>2. twi # "read"
            BY <5>1 DEF SensorInv, Transfer
          <5> QED
            BY <1>4, <3>1, <5>1, <5>2 DEF Trial
        <4> QED
          BY <4>1, <4>2, <4>3
      <3>4. pc' \in {"try", "check", "put"} => got'["old"] = gain'
        <4>1. pc' \in {"try", "check", "put"} => pc \in {"old", "try", "check"} /\ got' = got
          BY <1>1, <2>2 DEF Then
        <4> QED
          BY <3>1, <3>2, <4>1 DEF Trial
      <3>5. \/ file'["01"]["gain"] = gain'
            \/ pc' \in {"try", "check", "put"} /\ file'["01"]["gain"] = "ad"
        <4>1. CASE pc = "check" /\ ~Passed
          BY <3>1, <3>2, <4>1 DEF Trial, Passed
        <4>2. CASE pc = "put"
          BY <3>1, <4>2, <1>0 DEF Trial, Sending
        <4>3. CASE pc \notin {"check", "put"} \/ (pc = "check" /\ Passed)
          <5>1. pc \in {"try", "check"} => pc' \in {"check", "put"}
            BY <1>1, <2>2, <4>3 DEF Then, Passed
          <5> QED
            BY <3>1, <4>3, <5>1 DEF Trial
        <4> QED
          BY <4>1, <4>2, <4>3
      <3> QED
        BY <1>1, <3>3, <3>4, <3>5 DEF Trial
    <2> QED
      BY <2>1, <2>2
  <1> QED
    BY <1>2, <1>3, <1>5, <1>6, <1>7 DEF TrialInv

\* TrialInv in the parts that the steps of the driver and the sensor disturb.
LEMMA TrialParts ==
    ASSUME TrialInv
    PROVE  /\ Sending /\ Catching /\ (~spoiled => Trial)
           /\ pc = "midl" /\ got["midh"] = "7f" => Fresh
           /\ pc \in Steps => \A r \in Registers \ {"gain"} :
                                  file["01"][r] = Factory(gain)["01"][r]
  BY DEF TrialInv

\* A step that stays at its place and writes nothing to the sensor.
LEMMA StayTrial ==
    ASSUME TrialInv, UNCHANGED <<pc, file, gain, spoiled>>,
           Sending', Catching',
           pc = "midl" /\ got'["midh"] = "7f" => Fresh', Trial => Trial'
    PROVE  TrialInv'
  <1>1. ~spoiled' => Trial'
    BY TrialParts, Zenon
  <1>2. pc' \in Steps => \A r \in Registers \ {"gain"} :
                             file'["01"][r] = Factory(gain')["01"][r]
    BY TrialParts
  <1> QED
    BY <1>1, <1>2 DEF TrialInv

LEMMA ReadTrial ==
    SensorInv /\ TrialInv /\ (StartRead \/ PollRead) => TrialInv'
  <1> SUFFICES ASSUME SensorInv, TrialInv, StartRead \/ PollRead PROVE TrialInv'
    OBVIOUS
  <1> USE StepNames DEF place, twiVars, sensorVars, history
  <1>0. /\ TypeOK /\ Transfer /\ LocalsRead /\ OtherBank
        /\ Sending /\ Catching
        /\ pc = "midl" /\ got["midh"] = "7f" => Fresh
    BY TrialParts DEF SensorInv
  <1>1. CASE StartRead
    <2>1. /\ twi = "idle" /\ twi' = "read" /\ sr' = sr \ {"TXCOMP"}
          /\ addr' = Asked[pc] /\ bus' = "reading" /\ pc \in Reads
          /\ UNCHANGED <<pc, got, rhr, file, gain, spoiled>>
      BY <1>1 DEF StartRead
    <2>2. Fresh => Fresh'
      BY <2>1 DEF Fresh
    <2>3. Sending'
      BY <2>1 DEF Sending
    <2>4. Catching'
      BY <1>0, <2>1 DEF Catching, Asked
    <2>5. Trial => Trial'
      BY <2>1, <2>2 DEF Trial, Fresh
    <2> QED
      BY <1>0, <2>1, <2>2, <2>3, <2>4, <2>5, StayTrial
  <1>2. ASSUME twi = "read", Return(FALSE), sr' \subseteq sr,
               UNCHANGED <<addr, rhr, bus, held, sensorVars, gain>>
        PROVE  TrialInv'
    <2>1. pc # "done"
      BY <1>0, <1>2 DEF Transfer
    <2> QED
      BY <1>2, <2>1, ReturnTrial
  <1>3. ASSUME twi = "read", sr' = sr \ {"RXRDY"}, "RXRDY" \in sr,
               got' = [got EXCEPT ![Into[pc]] = rhr], twi' = "complete",
               UNCHANGED <<pc, spoiled, addr, rhr, bus, file, gain>>
        PROVE  TrialInv'
    <2>1. pc \in Reads /\ Into[pc] \in Locals /\ addr = Asked[pc]
      BY <1>0, <1>3 DEF Transfer, Into, Locals, Sending
    <2>2. Fresh => Fresh' /\ bus # "reading"
      BY <1>3 DEF Fresh
    <2>3. Sending'
      BY <1>0, <1>3 DEF Sending
    <2>4. pc = "midl" /\ got'["midh"] = "7f" => Fresh'
      BY <1>0, <1>3, <2>2 DEF Into, TypeOK, Locals
    <2>5. got["pidh"] = "26" => got'["pidh"] = "26" \/ pc = "pidh"
      BY <1>3, <2>1 DEF Into
    <2>6. Catching'
      <3> SUFFICES ASSUME pc \in {"pidh", "pidl", "midh"}, got'["pidh"] = "26"
                   PROVE  Catching'
        BY <1>3 DEF Catching
      <3>1. CASE pc = "pidh"
        BY <1>0, <1>3, <2>1, <3>1 DEF Catching, Into, TypeOK, Locals, Asked
      <3>2. CASE pc = "pidl"
        BY <1>0, <1>3, <2>1, <3>2 DEF Catching, Into, TypeOK, Locals, Asked
      <3>3. CASE pc = "midh"
        <4>1. got["pidh"] = "26" /\ got'["midh"] = rhr
          BY <1>0, <1>3, <2>1, <3>3 DEF Into, TypeOK, Locals
        <4>2. rhr = "7f" => bus # "reading"
          BY <1>0, <4>1, <3>3 DEF Catching
        <4>3. rhr = "7f" => Fresh'
          BY <1>3, <4>2 DEF Fresh
        <4> QED
          BY <1>0, <1>3, <2>1, <3>3, <4>1, <4>2, <4>3 DEF Catching
      <3> QED
        BY <3>1, <3>2, <3>3
    <2>7. Trial => Trial'
      <3> SUFFICES ASSUME Trial PROVE Trial'
        OBVIOUS
      <3>1. pc \in {"old", "try", "check"} => Fresh'
        BY <2>2 DEF Trial
      <3>2. pc = "old" => got'["old"] = gain
        BY <1>0, <1>3 DEF Trial, Into, TypeOK, Locals
      <3>3. pc \in {"try", "check", "put"} => got'["old"] = gain
        BY <1>0, <1>3, <2>1 DEF Trial, Into, TypeOK, Locals
      <3>4. pc = "check" => got'["value"] = file["01"]["gain"]
        BY <1>0, <1>3 DEF Trial, Into, TypeOK, Locals
      <3> QED
        BY <1>3, <3>1, <3>2, <3>3, <3>4 DEF Trial
    <2> QED
      BY <1>3, <2>3, <2>4, <2>6, <2>7, StayTrial
  <1>4. ASSUME UNCHANGED <<pc, got, twi, sr, spoiled, addr, rhr, bus, file, gain>>
        PROVE  TrialInv'
    <2>1. Sending' /\ Catching' /\ (Fresh => Fresh') /\ (Trial => Trial')
      BY <1>0, <1>4 DEF Sending, Catching, Fresh, Trial
    <2> QED
      BY <1>0, <1>4, <2>1, StayTrial
  <1>5. CASE PollRead
    BY <1>2, <1>3, <1>4, <1>5 DEF PollRead
  <1> QED
    BY <1>1, <1>5

LEMMA WriteTrial ==
    SensorInv /\ TrialInv /\ (StartWrite \/ PollSent) => TrialInv'
  <1> SUFFICES ASSUME SensorInv, TrialInv, StartWrite \/ PollSent PROVE TrialInv'
    OBVIOUS
  <1> USE StepNames DEF place, twiVars, sensorVars, history
  <1>0. /\ TypeOK /\ Transfer /\ Sending /\ Catching
    BY TrialParts DEF SensorInv
  <1>1. ASSUME Return(FALSE), twi # "complete", pc # "done", sr' \subseteq sr,
               UNCHANGED <<addr, rhr, bus, held, sensorVars, gain>>
        PROVE  TrialInv'
    BY <1>1, ReturnTrial
  <1>2. CASE StartWrite
    <2>0. /\ twi = "idle" /\ pc \notin Reads /\ pc # "done"
          /\ pc \in {"bank", "try", "put", "list"}
      BY <1>2 DEF StartWrite, Writes
    <2>1. CASE "NACK" \in sr
      BY <1>1, <1>2, <2>0, <2>1 DEF StartWrite
    <2>2. CASE "NACK" \notin sr
      <3>1. /\ twi' = "sent" /\ bus' = "writing" /\ sr' = sr \ {"TXRDY", "TXCOMP"}
            /\ UNCHANGED <<pc, got, spoiled, rhr, file, gain>>
        BY <1>2, <2>2 DEF StartWrite
      <3>2. Sending' /\ Catching'
        BY <2>0, <2>2, <3>1 DEF Sending, Catching
      <3>3. Trial => Trial'
        BY <2>0, <3>1 DEF Trial, Fresh
      <3> QED
        BY <2>0, <3>1, <3>2, <3>3, StayTrial
    <2> QED
      BY <2>1, <2>2
  <1>3. CASE PollSent
    <2>0. /\ twi = "sent" /\ pc # "done" /\ pc \in {"bank", "try", "put", "list"}
      BY <1>0, <1>3 DEF PollSent, Writes, Transfer
    <2>1. CASE "NACK" \in sr
      BY <1>1, <1>3, <2>0, <2>1 DEF PollSent
    <2>2. CASE "NACK" \notin sr
      <3>1. /\ twi' = "stop" /\ "TXRDY" \in sr
            /\ UNCHANGED <<pc, got, sr, spoiled, addr, rhr, bus, file, gain>>
        BY <1>3, <2>2 DEF PollSent
      <3>2. Sending' /\ Catching'
        BY <2>0, <3>1 DEF Sending, Catching
      <3>3. Trial => Trial'
        BY <2>0, <3>1 DEF Trial, Fresh
      <3> QED
        BY <2>0, <3>1, <3>2, <3>3, StayTrial
    <2> QED
      BY <2>1, <2>2
  <1> QED
    BY <1>2, <1>3

LEMMA EndTrial ==
    SensorInv /\ TrialInv /\ (PollComplete \/ EndOfList) => TrialInv'
  <1> SUFFICES ASSUME SensorInv, TrialInv, PollComplete \/ EndOfList
               PROVE  TrialInv'
    OBVIOUS
  <1> USE StepNames DEF place, twiVars, sensorVars, history
  <1>0. /\ TypeOK /\ Transfer /\ Sending
    BY TrialParts DEF SensorInv
  <1>1. CASE PollComplete
    <2>1. /\ pc # "done" /\ (pc \in Reads => twi = "complete")
          /\ pc = "put" => twi = "stop"
      BY <1>0, <1>1 DEF PollComplete, Transfer, Writes
    <2>2. /\ Return(TRUE) /\ sr' \subseteq sr
          /\ UNCHANGED <<addr, rhr, bus, held, sensorVars, gain>>
      BY <1>1 DEF PollComplete
    <2> QED
      BY <2>1, <2>2, ReturnTrial
  <1>2. CASE EndOfList
    <2>1. /\ pc = "list" /\ pc' \in {"list", "done"} /\ twi = "idle"
          /\ UNCHANGED <<got, twi, sr, bus, rhr, file, gain, spoiled>>
      BY <1>2 DEF EndOfList
    <2>2. Sending' /\ Catching'
      BY <2>1 DEF Sending, Catching
    <2>3. Trial => Trial'
      BY <2>1 DEF Trial
    <2>4. ~spoiled' => Trial'
      BY <2>1, <2>3, TrialParts, Zenon
    <2> QED
      BY <2>1, <2>2, <2>4 DEF TrialInv
  <1> QED
    BY <1>1, <1>2

LEMMA AnswerTrial == SensorInv /\ TrialInv /\ Answer => TrialInv'
  <1> SUFFICES ASSUME SensorInv, TrialInv, Answer PROVE TrialInv'
    OBVIOUS
  <1> USE StepNames DEF place, twiVars, sensorVars, history
  <1>0. /\ TypeOK /\ Transfer /\ LocalsRead /\ OtherBank
        /\ Sending /\ Catching
        /\ pc = "midl" /\ got["midh"] = "7f" => Fresh
        /\ pc \in Steps => \A r \in Registers \ {"gain"} :
                               file["01"][r] = Factory(gain)["01"][r]
    BY TrialParts DEF SensorInv
  <1>1. /\ bus = "reading" /\ rhr' = file[bank][addr]
        /\ sr' = sr \cup {"RXRDY", "TXCOMP"} /\ bus' = "idle"
        /\ UNCHANGED <<pc, got, twi, addr, file, gain, spoiled>>
    BY DEF Answer
  <1>2. Fresh => twi = "read" /\ Fresh'
    BY <1>1 DEF Fresh
  <1>3. Sending'
    BY <1>0, <1>1 DEF Sending
  <1>4. pc \in Steps /\ got["pidh"] = "26" => bank = "01"
    BY <1>0 DEF OtherBank, TypeOK, Banks
  <1>5. pc \in {"pidh", "pidl", "midh"} => /\ file["01"]["pidh"] = "26"
                                          /\ file["01"]["pidl"] = "41"
                                          /\ file["01"]["midh"] = "7f"
    BY <1>0 DEF Factory, Registers, Banks
  <1>6. Catching'
    <2> SUFFICES ASSUME pc \in {"pidh", "pidl", "midh"}, got["pidh"] = "26"
                 PROVE  Catching'
      BY <1>1 DEF Catching
    <2>1. rhr' = file["01"][addr]
      BY <1>1, <1>4
    <2>2. CASE addr \in {"pidh", "pidl"}
      BY <1>0, <1>1, <1>2, <1>5, <2>1, <2>2 DEF Catching
    <2>3. CASE addr \notin {"pidh", "pidl"}
      <3>1. pc = "midh" /\ twi \in {"read", "complete"} /\ addr = "midh"
        BY <1>0, <1>1, <2>3 DEF Catching, Sending, Asked
      <3> QED
        BY <1>0, <1>1, <1>2, <1>5, <2>1, <3>1 DEF Catching
    <2> QED
      BY <2>2, <2>3
  <1>7. Trial => Trial'
    <2> SUFFICES ASSUME Trial PROVE Trial'
      OBVIOUS
    <2>1. pc \in {"old", "check"} /\ twi = "read" => rhr' = file["01"]["gain"]
      <3> SUFFICES ASSUME pc \in {"old", "check"}, twi = "read"
                   PROVE  rhr' = file["01"]["gain"]
        OBVIOUS
      <3>1. got["pidh"] = "26" /\ addr = "gain"
        BY <1>0 DEF LocalsRead, Earlier, Sending, Asked
      <3> QED
        BY <1>1, <1>4, <3>1
    <2> QED
      BY <1>1, <1>2, <2>1 DEF Trial
  <1> QED
    BY <1>0, <1>1, <1>2, <1>3, <1>6, <1>7, StayTrial

LEMMA QuietTrial ==
    SensorInv /\ TrialInv /\ (StopSent \/ Refuse \/ Stretch \/ Release \/ UNCHANGED vars)
        => TrialInv'
  <1> SUFFICES ASSUME SensorInv, TrialInv,
                      StopSent \/ Refuse \/ Stretch \/ Release \/ UNCHANGED vars
               PROVE  TrialInv'
    OBVIOUS
  <1> USE StepNames DEF place, twiVars, sensorVars, history
  <1>0. /\ Transfer /\ Sending /\ Catching
        /\ pc = "midl" /\ got["midh"] = "7f" => Fresh
    BY TrialParts DEF SensorInv
  <1>1. /\ UNCHANGED <<pc, got, twi, addr, rhr, file, gain, spoiled>>
        /\ bus' \in {bus, "idle"}
        /\ "RXRDY" \in sr' <=> "RXRDY" \in sr
        /\ "TXRDY" \in sr' <=> "TXRDY" \in sr
    BY DEF StopSent, Refuse, Stretch, Release, vars
  <1>2. twi = "sent" => ~({"NACK", "TXRDY"} \subseteq sr')
    <2>1. CASE Refuse
      BY <1>0, <2>1 DEF Refuse, Sending, Transfer
    <2>2. CASE StopSent \/ Stretch \/ Release \/ UNCHANGED vars
      BY <1>0, <2>2 DEF StopSent, Stretch, Release, vars, Sending
    <2> QED
      BY <2>1, <2>2
  <1>3. Fresh => Fresh'
    BY <1>1 DEF Fresh
  <1>4. Sending'
    BY <1>0, <1>1, <1>2 DEF Sending
  <1>5. Catching'
    BY <1>0, <1>1, <1>3 DEF Catching
  <1>6. Trial => Trial'
    BY <1>1, <1>3 DEF Trial
  <1> QED
    BY <1>0, <1>1, <1>3, <1>4, <1>5, <1>6, StayTrial

\* What Accept writes, to which bank, and where Accept leaves the driver.
LEMMA AcceptFacts ==
    ASSUME SensorInv, Accept
    PROVE  /\ twi = "sent" /\ addr = Written.reg /\ Written.val \in Bytes
           /\ sr \cap {"NACK", "TXRDY"} = {}
           /\ pc \in Writes \/ (pc = "list" /\ Lists[list][next] # Term)
           /\ pc = "bank" => addr = "bank"
           /\ pc = "list" => addr # "gain" /\ Written = Lists[list][next]
           /\ pc \in {"try", "put"} => /\ bank = "01" /\ addr = "gain"
                                       /\ Written.val = IF pc = "try" THEN "ad"
                                                        ELSE got["old"]
           /\ IF addr = "bank"
              THEN bank' = Written.val /\ Written.val \in Banks /\ file' = file
              ELSE /\ addr \in Registers /\ bank' = bank
                   /\ \A b \in Banks : \A r \in Registers :
                        file'[b][r] = IF b = bank /\ r = addr THEN Written.val
                                      ELSE file[b][r]
           /\ sr' = sr \cup {"TXRDY"} /\ bus' = "written"
           /\ UNCHANGED <<place, got, twi, addr, rhr, gain, history>>
  <1> USE StepNames
  <1>0. TypeOK /\ Transfer /\ LocalsRead /\ OtherBank
    BY DEF SensorInv
  <1>1. /\ twi = "sent" /\ addr = Written.reg /\ sr \cap {"NACK", "TXRDY"} = {}
        /\ pc \in Writes \/ (pc = "list" /\ Lists[list][next] # Term)
    BY <1>0 DEF Accept, Transfer
  <1>2. /\ Written.val \in Bytes
        /\ addr = "bank" => Written.val \in Banks
        /\ pc = "bank" => addr = "bank"
        /\ pc = "list" => addr # "gain" /\ Written = Lists[list][next]
        /\ pc \in {"try", "put"} =>
              addr = "gain" /\ Written.val = IF pc = "try" THEN "ad" ELSE got["old"]
    BY <1>0, <1>1, EntryFacts
       DEF Written, Writes, Select, Set, TypeOK, Bytes, Banks, Locals, Registers
  <1>3. pc \in {"try", "put"} => bank = "01"
    BY <1>0 DEF OtherBank, LocalsRead, Earlier, TypeOK, Banks
  <1>4. IF addr = "bank"
        THEN bank' = Written.val /\ Written.val \in Banks /\ file' = file
        ELSE /\ addr \in Registers /\ bank' = bank
             /\ \A b \in Banks : \A r \in Registers :
                  file'[b][r] = IF b = bank /\ r = addr THEN Written.val
                                ELSE file[b][r]
    BY <1>0, <1>2 DEF Accept, TypeOK
  <1> QED
    BY <1>1, <1>2, <1>3, <1>4 DEF Accept

LEMMA AcceptTrial == SensorInv /\ TrialInv /\ Accept => TrialInv'
  <1> SUFFICES ASSUME SensorInv, TrialInv, Accept PROVE TrialInv'
    OBVIOUS
  <1> USE StepNames DEF place, history
  <1>0. /\ Sending /\ Catching
        /\ pc \in Steps => \A r \in Registers \ {"gain"} :
                               file["01"][r] = Factory(gain)["01"][r]
    BY TrialParts
  <1>1. /\ twi = "sent" /\ twi' = twi /\ sr \cap {"NACK", "TXRDY"} = {}
        /\ sr' = sr \cup {"TXRDY"} /\ bus' = "written"
        /\ UNCHANGED <<pc, got, addr, rhr, gain, spoiled>>
        /\ pc \in {"bank", "try", "put", "list"}
        /\ pc \in {"bank", "try", "put"} => addr \in {"bank", "gain"}
        /\ pc \in {"bank", "list"} => addr # "gain"
    BY AcceptFacts DEF Writes
  <1>2. \A r \in Registers \ {addr} : file'["01"][r] = file["01"][r]
    BY AcceptFacts DEF Banks
  <1>3. pc \in Steps => \A r \in Registers \ {"gain"} :
                            file'["01"][r] = Factory(gain')["01"][r]
    <2> SUFFICES ASSUME pc \in Steps, NEW r \in Registers \ {"gain"}
                 PROVE  file'["01"][r] = Factory(gain)["01"][r]
      BY <1>1
    <2>1. r # addr
      BY <1>1 DEF Registers
    <2> QED
      BY <1>0, <1>2, <2>1
  <1>4. Sending' /\ Catching'
    BY <1>0, <1>1 DEF Sending, Catching
  <1>5. pc \in {"try", "put"} =>
           file'["01"]["gain"] = IF pc = "try" THEN "ad" ELSE got["old"]
    BY AcceptFacts DEF Banks, Registers
  <1>6. pc \in {"bank", "list"} => file'["01"]["gain"] = file["01"]["gain"]
    BY <1>1, <1>2 DEF Registers
  <1>7. Trial => Trial'
    BY <1>1, <1>5, <1>6 DEF Trial, Fresh
  <1>8. ~spoiled' => Trial'
    BY <1>1, <1>7, TrialParts, Zenon
  <1> QED
    BY <1>1, <1>3, <1>4, <1>8 DEF TrialInv

\* ov_test_write() can tell what it tries to restore: every byte it takes in
\* an attempt that gets so far is its own read's, although no status is looked
\* at and a late byte may be taken for a later read's.
THEOREM TrialInvariant == Spec => [](SensorInv /\ TrialInv)
  <1>1. Init => SensorInv /\ TrialInv
    BY InitSensor, InitTrial
  <1>2. SensorInv /\ TrialInv /\ [Next]_vars => TrialInv'
    BY ReadTrial, WriteTrial, EndTrial, AnswerTrial, AcceptTrial, QuietTrial
       DEF Next, Program
  <1>3. SensorInv /\ [Next]_vars => SensorInv'
    BY ReadStep, WriteStep, EndStep, BusStep, AcceptStep, StutterSensor
       DEF Next, Program
  <1> QED
    BY <1>1, <1>2, <1>3, PTL DEF Spec

\* The register that ov_test_write() tries keeps what it held at power-up, for
\* every number of faults, unless one of the three transfers it depends on failed.
THEOREM TrialUndoneHolds == Spec => []TrialUndone
  <1>1. TrialInv => TrialUndone
    BY DEF TrialInv, Trial, TrialUndone, Identified
  <1> QED
    BY TrialInvariant, <1>1, PTL

-----------------------------------------------------------------------------
(* The register lists. *)

LEMMA PositionFacts ==
    /\ \A q \in Positions : /\ q[1] \in 1 .. 4 /\ q[2] \in 1 .. 10
                            /\ q = <<q[1], q[2]>> /\ q[2] \in DOMAIN Lists[q[1]]
    /\ \A l \in DOMAIN Lists : \A n \in DOMAIN Lists[l] : <<l, n>> \in Positions
  BY EntryFacts DEF Positions

\* The terminator is the last entry of its list.
LEMMA TermIsLast ==
    \A l \in DOMAIN Lists : \A n \in DOMAIN Lists[l] :
        Lists[l][n] = Term => \A m \in DOMAIN Lists[l] : m <= n
  <1> USE DEF Lists, OV2640_JPEG_INIT, OV2640_YUV422, OV2640_JPEG,
              OV2640_JPEG_320x240, Select, Set, Term
  <1> SUFFICES ASSUME NEW l \in 1 .. 4, NEW n \in DOMAIN Lists[l],
                      Lists[l][n] = Term
               PROVE  \A m \in DOMAIN Lists[l] : m <= n
    BY EntryFacts
  <1>1. CASE l = 1
    BY <1>1
  <1>2. CASE l = 2
    BY <1>2
  <1>3. CASE l = 3
    BY <1>3
  <1>4. CASE l = 4
    BY <1>4
  <1> QED
    BY <1>1, <1>2, <1>3, <1>4

\* Before is the order in which the entries are written.
LEMMA BeforeOrders ==
    /\ \A p, q \in Positions : p # q => Before(p, q) \/ Before(q, p)
    /\ \A p, q \in Positions : ~(Before(p, q) /\ Before(q, p))
  <1> SUFFICES ASSUME NEW p \in Positions, NEW q \in Positions
               PROVE  /\ p # q => Before(p, q) \/ Before(q, p)
                      /\ ~(Before(p, q) /\ Before(q, p))
    OBVIOUS
  <1>1. /\ p[1] \in 1 .. 4 /\ p[2] \in 1 .. 10 /\ p = <<p[1], p[2]>>
        /\ q[1] \in 1 .. 4 /\ q[2] \in 1 .. 10 /\ q = <<q[1], q[2]>>
    BY PositionFacts
  <1> QED
    BY <1>1 DEF Before

LEMMA LatestIs ==
    ASSUME NEW P \in SUBSET Positions, NEW p \in P,
           \A q \in P \ {p} : Before(q, p)
    PROVE  Latest(P) = p
  <1> DEFINE L(x) == \A q \in P \ {x} : Before(q, x)
  <1>1. \A x \in P : L(x) => x = p
    BY BeforeOrders
  <1>2. L(p)
    OBVIOUS
  <1> HIDE DEF L
  <1>3. (CHOOSE x \in P : L(x)) = p
    BY <1>1, <1>2, Zenon
  <1> QED
    BY <1>3 DEF Latest, L

\* The entries before the place that follows p: one more than before p.
Follows(p, q) ==
    \/ p[1] = q[1] /\ q[2] = p[2] + 1
    \/ Entry(p) = Term /\ q = <<p[1] + 1, 1>>

LEMMA BeforeFollowing ==
    ASSUME NEW p \in Positions, NEW q, Follows(p, q), NEW e \in Positions
    PROVE  Before(e, q) <=> Before(e, p) \/ e = p
  <1>1. /\ p[1] \in 1 .. 4 /\ p[2] \in 1 .. 10 /\ p = <<p[1], p[2]>>
        /\ e[1] \in 1 .. 4 /\ e[2] \in 1 .. 10 /\ e = <<e[1], e[2]>>
        /\ p[2] \in DOMAIN Lists[p[1]] /\ e[2] \in DOMAIN Lists[e[1]]
        /\ p[1] \in DOMAIN Lists
    BY PositionFacts, EntryFacts
  <1>2. CASE p[1] = q[1] /\ q[2] = p[2] + 1
    BY <1>1, <1>2 DEF Before
  <1>3. CASE Entry(p) = Term /\ q = <<p[1] + 1, 1>>
    <2>1. e[1] = p[1] => e[2] <= p[2]
      BY <1>1, <1>3, TermIsLast DEF Entry
    <2> QED
      BY <1>1, <1>3, <2>1 DEF Before
  <1> QED
    BY <1>2, <1>3 DEF Follows

LEMMA BankedIs ==
    \A q \in Positions : \A b : <<q, b>> \in Banked <=> b = BankAt(q)
  BY DEF Banked

\* What the entry at p changes of what the lists say.
LEMMA BankFollowing ==
    ASSUME NEW p \in Positions, NEW q, Follows(p, q)
    PROVE  BankAt(q) = IF Entry(p).reg = "bank" /\ Entry(p) # Term
                       THEN Entry(p).val ELSE BankAt(p)
  <1>1. CASE Entry(p).reg = "bank" /\ Entry(p) # Term
    <2>1. /\ SelectsBefore(q) \in SUBSET Positions /\ p \in SelectsBefore(q)
          /\ \A e \in SelectsBefore(q) \ {p} : Before(e, p)
      BY <1>1, BeforeFollowing DEF SelectsBefore
    <2>2. Latest(SelectsBefore(q)) = p
      BY <2>1, LatestIs
    <2> QED
      BY <1>1, <2>1, <2>2 DEF BankAt
  <1>2. CASE ~(Entry(p).reg = "bank" /\ Entry(p) # Term)
    <2>1. SelectsBefore(q) = SelectsBefore(p)
      BY <1>2, BeforeFollowing DEF SelectsBefore
    <2> QED
      BY <1>2, <2>1 DEF BankAt
  <1> QED
    BY <1>1, <1>2

LEMMA IntendedFollowing ==
    ASSUME NEW p \in Positions, NEW q, Follows(p, q), NEW b, NEW r
    PROVE  IntendedAt(q, b, r) = IF Entry(p).reg = r /\ BankAt(p) = b
                                 THEN Entry(p).val ELSE IntendedAt(p, b, r)
  <1>1. CASE Entry(p).reg = r /\ BankAt(p) = b
    <2>1. /\ WritesBefore(q, b, r) \in SUBSET Positions /\ p \in WritesBefore(q, b, r)
          /\ \A e \in WritesBefore(q, b, r) \ {p} : Before(e, p)
      BY <1>1, BeforeFollowing, BankedIs DEF WritesBefore
    <2>2. Latest(WritesBefore(q, b, r)) = p
      BY <2>1, LatestIs
    <2> QED
      BY <1>1, <2>1, <2>2 DEF IntendedAt
  <1>2. CASE ~(Entry(p).reg = r /\ BankAt(p) = b)
    <2>1. WritesBefore(q, b, r) = WritesBefore(p, b, r)
      BY <1>2, BeforeFollowing, BankedIs DEF WritesBefore
    <2> QED
      BY <1>2, <2>1 DEF IntendedAt
  <1> QED
    BY <1>1, <1>2

\* Nothing is written before the first entry.
LEMMA AtStart ==
    /\ BankAt(<<1, 1>>) = "01"
    /\ \A b, r : IntendedAt(<<1, 1>>, b, r) = "xx"
  <1>1. \A e \in Positions : ~Before(e, <<1, 1>>)
    BY PositionFacts DEF Before
  <1>2. SelectsBefore(<<1, 1>>) = {}
    BY <1>1 DEF SelectsBefore
  <1>3. \A b, r : WritesBefore(<<1, 1>>, b, r) = {}
    BY <1>1 DEF WritesBefore
  <1> QED
    BY <1>2, <1>3 DEF BankAt, IntendedAt

LEMMA SkipStep ==
    ASSUME NEW p \in Positions, NEW q, Follows(p, q), Entry(p) # Term, AsSaid(p),
           skipped' = skipped \cup {p}, UNCHANGED <<bank, file>>
    PROVE  AsSaid(q)'
  <1>1. (\A e \in skipped' : Entry(e).reg # "bank") => bank = BankAt(q)
    BY BankFollowing DEF AsSaid
  <1>2. ASSUME NEW r \in Configuration, NEW b \in Banks, Unskipped(r)'
        PROVE  file[b][r] = IntendedAt(q, b, r)
    <2>1. Unskipped(r) /\ Entry(p).reg # r
      BY <1>2 DEF Unskipped
    <2>2. IntendedAt(q, b, r) = IntendedAt(p, b, r)
      BY <2>1, IntendedFollowing
    <2> QED
      BY <2>1, <2>2 DEF AsSaid
  <1> QED
    BY <1>1, <1>2 DEF AsSaid

LEMMA TermStep ==
    ASSUME NEW p \in Positions, NEW q, Follows(p, q), Entry(p) = Term, AsSaid(p)
    PROVE  AsSaid(q)
  <1>1. BankAt(q) = BankAt(p)
    BY BankFollowing
  <1>2. \A r \in Configuration : \A b : IntendedAt(q, b, r) = IntendedAt(p, b, r)
    BY IntendedFollowing DEF Configuration, Term
  <1> QED
    BY <1>1, <1>2 DEF AsSaid

LEMMA SentStep ==
    ASSUME NEW p \in Positions, NEW q, Follows(p, q), Entry(p) # Term, AsSaid(p),
           skipped' = skipped,
           IF Entry(p).reg = "bank"
           THEN bank' = Entry(p).val /\ file' = file
           ELSE /\ bank' = bank
                /\ \A b \in Banks : \A r \in Registers :
                     file'[b][r] = IF b = bank /\ r = Entry(p).reg
                                   THEN Entry(p).val ELSE file[b][r]
    PROVE  AsSaid(q)'
  <1>1. (\A e \in skipped : Entry(e).reg # "bank") => bank' = BankAt(q)
    BY BankFollowing DEF AsSaid
  <1>2. ASSUME NEW r \in Configuration, NEW b \in Banks, Unskipped(r)
        PROVE  file'[b][r] = IntendedAt(q, b, r)
    <2>1. r \in Registers /\ r # "bank"
      BY DEF Configuration, Registers
    <2>2. bank = BankAt(p) /\ file[b][r] = IntendedAt(p, b, r)
      BY <1>2 DEF AsSaid, Unskipped
    <2>3. IntendedAt(q, b, r) = IF Entry(p).reg = r /\ bank = b
                                THEN Entry(p).val ELSE IntendedAt(p, b, r)
      BY <2>2, IntendedFollowing
    <2> QED
      BY <2>1, <2>2, <2>3
  <1> QED
    BY <1>1, <1>2 DEF AsSaid, Unskipped

LEMMA InitLists == Init => ListsInv
  BY StepNames DEF Init, ListsInv, Identified

\* The place in the lists, as a constant, and the place after it.
LEMMA PlaceFacts ==
    ASSUME SensorInv
    PROVE  \E p \in Positions : /\ p = <<list, next>> /\ Entry(p) = Lists[list][next]
                               /\ Follows(p, <<p[1], p[2] + 1>>)
                               /\ Here \in {p, <<p[1], p[2] + 1>>}
  <1>1. list \in DOMAIN Lists /\ next \in DOMAIN Lists[list]
    BY DEF SensorInv, TypeOK
  <1> QED
    BY <1>1, PositionFacts DEF Entry, Follows, Here

LEMMA StayLists ==
    ASSUME ListsInv, UNCHANGED <<pc, list, next, skipped, bank, file>>, Here' = Here
    PROVE  ListsInv'
  BY DEF ListsInv, AsSaid, Identified, Unskipped

LEMMA ReturnLists ==
    ASSUME SensorInv, TrialInv, ListsInv, SensorInv',
           NEW ok \in BOOLEAN, Return(ok), pc # "done",
           pc = "list" => Lists[list][next] # Term,
           pc = "list" /\ ok => twi = "stop",
           ~ok => twi # "stop" /\ (twi = "sent" => "NACK" \in sr),
           UNCHANGED <<bank, file>>
    PROVE  ListsInv'
  <1> USE StepNames
  <1>0. Sending /\ twi' = "idle" /\ Here' = <<list', next'>>
    BY DEF TrialInv, Return, Here
  <1>1. CASE pc = "list"
    <2>1. /\ pc' = "list" /\ list' = list /\ next' = next + 1
          /\ skipped' = IF ok THEN skipped ELSE skipped \cup {<<list, next>>}
      BY <1>1 DEF Return
    <2>2. PICK p \in Positions : /\ p = <<list, next>> /\ Entry(p) = Lists[list][next]
                               /\ Follows(p, <<p[1], p[2] + 1>>)
      BY PlaceFacts
    <2> DEFINE q == <<p[1], p[2] + 1>>
    <2>3. Here' = q
      BY <1>0, <2>1, <2>2
    <2>4. AsSaid(q)'
      <3>1. CASE ok
        <4>1. Here = q
          BY <1>0, <1>1, <2>2, <3>1 DEF Here, Sending
        <4>2. AsSaid(q)
          BY <1>1, <4>1 DEF ListsInv, Identified
        <4> QED
          BY <2>1, <3>1, <4>2 DEF AsSaid, Unskipped
      <3>2. CASE ~ok
        <4>1. Here = p
          BY <1>0, <2>2, <3>2 DEF Here, Sending
        <4>2. AsSaid(p)
          BY <1>1, <4>1 DEF ListsInv, Identified
        <4> QED
          BY <1>1, <2>1, <2>2, <3>2, <4>2, SkipStep
      <3> QED
        BY <3>1, <3>2
    <2> HIDE DEF q
    <2>5. AsSaid(Here)'
      BY <2>3, <2>4 DEF AsSaid
    <2> QED
      BY <2>1, <2>5 DEF ListsInv
  <1>2. CASE pc # "list"
    <2>1. /\ pc \in Steps /\ UNCHANGED <<list, next, skipped>>
          /\ pc' \in Steps \/ pc' = "list"
          /\ list = 1 /\ next = 1 /\ skipped = {}
      BY <1>2 DEF Return, Then, SensorInv, TypeOK, ListsInv
    <2>2. CASE pc' \in Steps
      BY <2>1, <2>2 DEF ListsInv, Identified
    <2>3. CASE pc' = "list"
      <3>1. bank' = "01" /\ Here' = <<1, 1>>
        BY <1>0, <2>1, <2>3 DEF SensorInv, OtherBank, Identified
      <3>2. \A r \in Configuration : \A b \in Banks : file[b][r] = "xx"
        <4>1. /\ \A r \in Registers : file["00"][r] = "xx"
              /\ \A r \in Registers \ {"gain"} :
                    file["01"][r] = Factory(gain)["01"][r]
          BY <2>1 DEF SensorInv, OtherBank, TrialInv
        <4>2. \A r \in Configuration : /\ r \in Registers \ {"gain"}
                                       /\ Factory(gain)["01"][r] = "xx"
          BY DEF Configuration, Registers, Factory, Banks
        <4> QED
          BY <4>1, <4>2 DEF Banks
      <3>3. AsSaid(Here)'
        BY <3>1, <3>2, AtStart DEF AsSaid
      <3> QED
        BY <2>3, <3>3 DEF ListsInv
    <2> QED
      BY <2>1, <2>2, <2>3
  <1> QED
    BY <1>1, <1>2

LEMMA DriverLists ==
    /\ SensorInv /\ TrialInv /\ ListsInv /\ SensorInv'
    /\ StartRead \/ PollRead \/ StartWrite \/ PollSent \/ PollComplete
    => ListsInv'
  <1> SUFFICES ASSUME SensorInv, TrialInv, ListsInv, SensorInv',
                      StartRead \/ PollRead \/ StartWrite \/ PollSent \/ PollComplete
               PROVE  ListsInv'
    OBVIOUS
  <1> USE StepNames DEF place, twiVars, sensorVars, history
  <1>0. Transfer /\ Sending
    BY DEF SensorInv, TrialInv
  <1>1. CASE StartRead
    <2>1. UNCHANGED <<pc, list, next, skipped, bank, file>> /\ Here' = Here
      BY <1>1 DEF StartRead, Here
    <2> QED
      BY <2>1, StayLists
  <1>2. CASE PollRead
    <2>1. pc \in Reads /\ pc \notin {"list", "done"} /\ twi = "read"
          /\ UNCHANGED <<bank, file>>
      BY <1>0, <1>2 DEF PollRead, Transfer
    <2>2. CASE Return(FALSE)
      BY <2>1, <2>2, ReturnLists
    <2>3. CASE ~Return(FALSE)
      <3>1. UNCHANGED <<pc, list, next, skipped, bank, file>> /\ Here' = Here
        BY <1>2, <2>1, <2>3 DEF PollRead, Here
      <3> QED
        BY <3>1, StayLists
    <2> QED
      BY <2>2, <2>3
  <1>3. CASE StartWrite
    <2>1. twi = "idle" /\ pc # "done" /\ (pc = "list" => Lists[list][next] # Term)
          /\ UNCHANGED <<bank, file>>
      BY <1>3 DEF StartWrite, Writes
    <2>2. CASE "NACK" \in sr
      BY <1>3, <2>1, <2>2, ReturnLists DEF StartWrite
    <2>3. CASE "NACK" \notin sr
      <3>1. UNCHANGED <<pc, list, next, skipped, bank, file>> /\ Here' = Here
        BY <1>3, <2>1, <2>3 DEF StartWrite, Here
      <3> QED
        BY <3>1, StayLists
    <2> QED
      BY <2>2, <2>3
  <1>4. CASE PollSent
    <2>1. twi = "sent" /\ pc # "done" /\ (pc = "list" => Lists[list][next] # Term)
          /\ UNCHANGED <<bank, file>>
      BY <1>0, <1>4 DEF PollSent, Writes, Transfer
    <2>2. CASE "NACK" \in sr
      BY <1>4, <2>1, <2>2, ReturnLists DEF PollSent
    <2>3. CASE "NACK" \notin sr
      <3>1. UNCHANGED <<pc, list, next, skipped, bank, file>> /\ Here' = Here
        BY <1>4, <2>1, <2>3 DEF PollSent, Here
      <3> QED
        BY <3>1, StayLists
    <2> QED
      BY <2>2, <2>3
  <1>5. CASE PollComplete
    <2>1. /\ Return(TRUE) /\ pc # "done" /\ (pc = "list" => Lists[list][next] # Term)
          /\ pc = "list" => twi = "stop"
          /\ UNCHANGED <<bank, file>>
      BY <1>0, <1>5 DEF PollComplete, Writes, Transfer
    <2> QED
      BY <2>1, ReturnLists
  <1> QED
    BY <1>1, <1>2, <1>3, <1>4, <1>5

LEMMA EndLists == SensorInv /\ ListsInv /\ EndOfList => ListsInv'
  <1> SUFFICES ASSUME SensorInv, ListsInv, EndOfList PROVE ListsInv'
    OBVIOUS
  <1> USE StepNames DEF history, sensorVars
  <1>1. PICK p \in Positions : p = <<list, next>> /\ Entry(p) = Lists[list][next]
    BY PlaceFacts
  <1>2. /\ Entry(p) = Term /\ pc = "list" /\ Here = p /\ Here' = <<list', next'>>
        /\ UNCHANGED <<skipped, bank, file>>
    BY <1>1 DEF EndOfList, Here
  <1>3. AsSaid(p)
    BY <1>2 DEF ListsInv, Identified
  <1>4. CASE list < Len(Lists)
    <2> DEFINE q == <<p[1] + 1, 1>>
    <2>1. pc' = "list" /\ Here' = q
      BY <1>1, <1>2, <1>4, EntryFacts DEF EndOfList, SensorInv, TypeOK
    <2>2. AsSaid(q)
      BY <1>2, <1>3, TermStep DEF Follows
    <2> HIDE DEF q
    <2>3. AsSaid(Here)'
      BY <1>2, <2>1, <2>2 DEF AsSaid, Unskipped
    <2> QED
      BY <2>1, <2>3 DEF ListsInv
  <1>5. CASE ~(list < Len(Lists))
    <2>1. /\ pc' = "done" /\ list = Len(Lists) /\ UNCHANGED <<list, next>>
          /\ Here' = p
      BY <1>1, <1>2, <1>5 DEF EndOfList
    <2>2. AsSaid(Here)'
      BY <1>2, <1>3, <2>1 DEF AsSaid, Unskipped
    <2> QED
      BY <1>1, <1>2, <2>1, <2>2 DEF ListsInv
  <1> QED
    BY <1>4, <1>5

LEMMA AcceptLists == SensorInv /\ ListsInv /\ Accept => ListsInv'
  <1> SUFFICES ASSUME SensorInv, ListsInv, Accept PROVE ListsInv'
    OBVIOUS
  <1> USE StepNames DEF place, history
  <1>1. /\ twi = "sent" /\ "TXRDY" \notin sr /\ sr' = sr \cup {"TXRDY"}
        /\ UNCHANGED <<pc, list, next, skipped, twi>> /\ pc # "done"
        /\ pc = "list" => Lists[list][next] # Term /\ Written = Lists[list][next]
    BY AcceptFacts DEF Writes
  <1>2. CASE pc # "list"
    BY <1>1, <1>2 DEF ListsInv, Identified
  <1>3. CASE pc = "list"
    <2>1. PICK p \in Positions : /\ p = <<list, next>> /\ Entry(p) = Lists[list][next]
                               /\ Follows(p, <<p[1], p[2] + 1>>)
      BY PlaceFacts
    <2> DEFINE q == <<p[1], p[2] + 1>>
    <2>2. Here = p /\ Here' = q
      BY <1>1, <2>1 DEF Here
    <2>3. AsSaid(p)
      BY <1>3, <2>2 DEF ListsInv, Identified
    <2>4. AsSaid(q)'
      BY <1>1, <1>3, <2>1, <2>3, SentStep, AcceptFacts
    <2> HIDE DEF q
    <2>5. AsSaid(Here)'
      BY <2>2, <2>4 DEF AsSaid
    <2> QED
      BY <1>1, <1>3, <2>5 DEF ListsInv
  <1> QED
    BY <1>2, <1>3

LEMMA QuietLists ==
    /\ ListsInv
    /\ Answer \/ StopSent \/ Refuse \/ Stretch \/ Release \/ UNCHANGED vars
    => ListsInv'
  <1> SUFFICES ASSUME ListsInv,
                      Answer \/ StopSent \/ Refuse \/ Stretch \/ Release \/ UNCHANGED vars
               PROVE  ListsInv'
    OBVIOUS
  <1>1. /\ UNCHANGED <<pc, list, next, skipped, bank, file, twi>>
        /\ "TXRDY" \in sr' <=> "TXRDY" \in sr
    BY DEF Answer, StopSent, Refuse, Stretch, Release, vars, place, twiVars,
           sensorVars, history
  <1>2. Here' = Here
    BY <1>1 DEF Here
  <1> QED
    BY <1>1, <1>2, StayLists

\* Up to the entry that configure_camera() writes next the sensor is as the lists
\* say, in both banks, as far as it refused nothing.
THEOREM ConfigureInvariant == Spec => []ConfigureInv
  <1>1. Init => ListsInv
    BY InitLists
  <1>2. SensorInv /\ TrialInv /\ ListsInv /\ SensorInv' /\ [Next]_vars => ListsInv'
    BY DriverLists, EndLists, AcceptLists, QuietLists DEF Next, Program
  <1> QED
    BY TrialInvariant, <1>1, <1>2, PTL DEF Spec, ConfigureInv

\* configure_camera() leaves every configuration register as its four lists
\* say, whatever was refused before, if none of its own writes and no select was.
THEOREM ConfiguredHolds == Spec => []Configured
  <1>1. ConfigureInv => Configured
    <2> SUFFICES ASSUME ConfigureInv, pc = "done",
                        NEW r \in Configuration, Unskipped(r), NEW b \in Banks
                 PROVE  file[b][r] = Intended(b, r)
      BY DEF Configured
    <2>1. PICK p \in Positions : p = <<list, next>> /\ Entry(p) = Lists[list][next]
      BY PlaceFacts DEF ConfigureInv
    <2>2. Here = p
      BY <2>1, StepNames DEF ConfigureInv, SensorInv, Transfer, Here, Writes
    <2>3. Entry(p) = Term /\ p[1] = Len(Lists) /\ AsSaid(p)
      BY <2>1, <2>2 DEF ConfigureInv, ListsInv, Identified
    <2>4. Follows(p, <<Len(Lists) + 1, 1>>)
      BY <2>3 DEF Follows
    <2>5. AsSaid(<<Len(Lists) + 1, 1>>)
      BY <2>3, <2>4, TermStep
    <2> QED
      BY <2>5 DEF AsSaid, Intended
  <1> QED
    BY ConfigureInvariant, <1>1, PTL
=============================================================================
