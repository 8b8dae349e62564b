-------------------------- MODULE PioHandlerProofs --------------------------
(***************************************************************************)
(* Theorems about the table of interrupt sources and its dispatcher, for   *)
(* every size of the table and all sources that share no pin.              *)
(***************************************************************************)
EXTENDS PioHandler, FiniteSetTheorems, TLAPS

USE PioHandlerAssumption

LEMMA SourceType ==
    /\ \A s \in Sources : s.id \in Nat /\ s.id \in Ids /\ s.mask \subseteq Nat
                          /\ s.mask # {}
    /\ \A s, t \in Sources : s.id = t.id /\ s.mask = t.mask => s = t
    /\ \A s \in Sources : s = [id |-> s.id, mask |-> s.mask]
    /\ Ids \subseteq Nat
  BY DEF Ids

LEMMA InitPio == Init => PioInv
  <1> SUFFICES ASSUME Init PROVE PioInv
    OBVIOUS
  <1> USE SourceType DEF Init, Index, Zero, NoWalk, Nothing
  <1>1. TypeOK
    BY DEF TypeOK
  <1>2. TableInv
    BY DEF TableInv
  <1>3. EnabledInv
    BY DEF EnabledInv, Enabled
  <1> QED
    BY <1>1, <1>2, <1>3 DEF PioInv

-----------------------------------------------------------------------------
(* pio_handler_set() *)

\* The search ends at the entry of the source if it has one, and one past the
\* first free entry if it has none.
LEMMA EntryFound ==
    ASSUME PioInv, Idle, gs_ul_nb_sources < MAX_INTERRUPT_SOURCES, NEW s \in Sources
    PROVE  \/ Entry(s) = gs_ul_nb_sources + 1 /\ ~InTable(s)
           \/ Entry(s) \in Index /\ Entry(s) < gs_ul_nb_sources /\ EntryOf(Entry(s), s)
  <1> DEFINE Found == {k \in 0 .. gs_ul_nb_sources : EntryOf(k, s)}
  <1>1. gs_ul_nb_sources \in Nat /\ gs_ul_nb_sources \in Index
    BY DEF PioInv, TypeOK, Index
  <1>2. ~EntryOf(gs_ul_nb_sources, s)
    BY <1>1, SourceType DEF PioInv, TableInv, Idle, Zero, EntryOf
  <1>3. CASE Found = {}
    <2>1. ~InTable(s)
      BY <1>1, <1>3 DEF InTable, Index
    <2> QED
      BY <1>3, <2>1 DEF Entry
  <1>4. CASE Found # {}
    <2>1. PICK k \in Found : TRUE
      BY <1>4
    <2>2. k \in Index /\ k < gs_ul_nb_sources
      BY <1>1, <1>2, <2>1 DEF Index
    <2>3. \A j \in Found : j = k
      <3> SUFFICES ASSUME NEW j \in Found, j # k PROVE FALSE
        OBVIOUS
      <3>1. j \in Index /\ j < gs_ul_nb_sources
        BY <1>1, <1>2 DEF Index
      <3>2. j < k \/ k < j
        BY <2>2, <3>1 DEF Index
      <3> QED
        BY <2>1, <2>2, <3>1, <3>2 DEF PioInv, TableInv, EntryOf
    <2>4. Entry(s) = CHOOSE j \in Found : \A l \in Found : j <= l
      BY <1>4 DEF Entry
    <2>5. \A l \in Found : k <= l
      BY <2>2, <2>3 DEF Index
    <2>6. Entry(s) = k
      BY <2>1, <2>3, <2>4, <2>5
    <2> QED
      BY <2>1, <2>2, <2>6
  <1> QED
    BY <1>3, <1>4

LEMMA SetHandlerStep == PioInv /\ SetHandler => PioInv'
  <1> SUFFICES ASSUME PioInv, SetHandler PROVE PioInv'
    OBVIOUS
  <1> USE DEF PioInv
  <1>1. PICK s \in Sources, h \in Handlers :
            source' = s /\ p_handler' = h /\ i' = Entry(s)
    BY DEF SetHandler
  <1>2. /\ gs_ul_nb_sources < MAX_INTERRUPT_SOURCES /\ pc = "idle" /\ pc' = "id"
        /\ gs_interrupt_sources' = gs_interrupt_sources
        /\ gs_ul_nb_sources' = gs_ul_nb_sources
        /\ isr' = isr /\ imr' = imr /\ walk' = walk /\ called' = called
        /\ priorities' = priorities
    BY DEF SetHandler, Idle, table
  <1>3. \/ i' = gs_ul_nb_sources + 1 /\ ~InTable(s)
        \/ i' \in Index /\ i' < gs_ul_nb_sources /\ EntryOf(i', s)
    BY <1>1, EntryFound DEF SetHandler
  <1>4. TypeOK'
    BY <1>1, <1>2, <1>3 DEF TypeOK, Index
  <1>5. TableInv'
    <2>1. gs_ul_nb_sources \in Index /\ gs_interrupt_sources[gs_ul_nb_sources] = Zero
      BY <1>2 DEF TypeOK, Index, TableInv
    <2>2. InProgress(gs_ul_nb_sources)'
      BY <1>2, <2>1 DEF InProgress, Zero
    <2>3. InTable(source)' <=> InTable(s)
      BY <1>1, <1>2 DEF InTable, EntryOf
    <2>4. EntryOf(i, source)' <=> EntryOf(i', s)
      BY <1>1, <1>2 DEF EntryOf
    <2> QED
      BY <1>1, <1>2, <1>3, <2>1, <2>2, <2>3, <2>4 DEF TableInv, Used
  <1>6. EnabledInv'
    BY <1>2 DEF EnabledInv, Enabled, InTable, Full, EntryOf, NoWalk
  <1> QED
    BY <1>4, <1>5, <1>6

\* What the steps that fill the entry leave alone, and which entry they fill.
LEMMA FillStep ==
    ASSUME PioInv, NEW from \in {"id", "mask", "handler"}, NEW to, NEW entry,
           Fill(from, to, entry)
    PROVE  /\ gs_ul_nb_sources \in Index /\ Slot \in Index
           /\ gs_interrupt_sources' =
                 [k \in Index |-> IF k = Slot THEN entry ELSE gs_interrupt_sources[k]]
           /\ \/ i = gs_ul_nb_sources + 1 /\ Slot = gs_ul_nb_sources
                 /\ ~InTable(source) /\ InProgress(Slot)
              \/ i < gs_ul_nb_sources /\ Slot = i /\ EntryOf(i, source) /\ Used(i)
                 /\ gs_interrupt_sources[gs_ul_nb_sources] = Zero
           /\ pc = from /\ pc' = to
           /\ gs_ul_nb_sources' = gs_ul_nb_sources /\ i' = i /\ source' = source
           /\ p_handler' = p_handler /\ isr' = isr /\ imr' = imr /\ walk' = walk
           /\ called' = called /\ priorities' = priorities /\ walk = NoWalk
  <1> USE DEF PioInv
  <1>1. /\ walk = NoWalk /\ pc = from /\ pc' = to
        /\ gs_interrupt_sources' = [gs_interrupt_sources EXCEPT ![Slot] = entry]
        /\ gs_ul_nb_sources' = gs_ul_nb_sources /\ i' = i /\ source' = source
        /\ p_handler' = p_handler /\ isr' = isr /\ imr' = imr /\ walk' = walk
        /\ called' = called /\ priorities' = priorities
    BY DEF Fill, Main
  <1>2. pc # "idle"
    BY <1>1
  <1>3. gs_ul_nb_sources \in Index /\ gs_ul_nb_sources \in Nat
    BY <1>2 DEF TypeOK, TableInv, Index
  <1>4. \/ i = gs_ul_nb_sources + 1 /\ Slot = gs_ul_nb_sources
           /\ ~InTable(source) /\ InProgress(Slot)
        \/ i < gs_ul_nb_sources /\ Slot = i /\ EntryOf(i, source) /\ i \in Index
           /\ gs_interrupt_sources[gs_ul_nb_sources] = Zero
    BY <1>2, <1>3 DEF TypeOK, TableInv, Index, Slot
  <1>5. i < gs_ul_nb_sources /\ i \in Index => Used(i)
    BY DEF TableInv
  <1>6. gs_interrupt_sources' =
           [k \in Index |-> IF k = Slot THEN entry ELSE gs_interrupt_sources[k]]
    BY <1>1 DEF TypeOK
  <1> QED
    BY <1>1, <1>3, <1>4, <1>5, <1>6

\* A step that fills a field of the entry keeps PioInv if the entry becomes what
\* the place after it says, or keeps its source and stays complete.
LEMMA FillKeepsInv ==
    ASSUME PioInv, NEW from \in {"id", "mask", "handler"},
           NEW to \in {"mask", "handler", "count"},
           NEW entry \in [id : Nat, mask : SUBSET Nat, handler : {NULL} \cup Handlers],
           Fill(from, to, entry),
           Slot = gs_ul_nb_sources =>
               entry = [id |-> source.id,
                        mask |-> IF to \in {"handler", "count"} THEN source.mask ELSE {},
                        handler |-> IF to = "count" THEN p_handler ELSE NULL],
           Slot # gs_ul_nb_sources =>
               entry.id = source.id /\ entry.mask = source.mask
               /\ entry.handler \in Handlers
    PROVE  PioInv'
  <1> USE DEF PioInv
  <1>1. TypeOK'
    BY FillStep DEF TypeOK
  <1>2. ASSUME NEW k \in Index, k < gs_ul_nb_sources
        PROVE  /\ Used(k)'
               /\ gs_interrupt_sources'[k].id = gs_interrupt_sources[k].id
               /\ gs_interrupt_sources'[k].mask = gs_interrupt_sources[k].mask
    <2>1. CASE k = Slot
      <3>1. Slot # gs_ul_nb_sources
        BY <1>2, <2>1 DEF Index
      <3>2. gs_interrupt_sources'[k] = entry /\ EntryOf(k, source)
        BY <2>1, <3>1, FillStep
      <3>3. entry.id = source.id /\ entry.mask = source.mask /\ entry.handler \in Handlers
        BY <3>1
      <3>4. source \in Sources /\ source = [id |-> source.id, mask |-> source.mask]
        BY SourceType DEF TypeOK
      <3> QED
        BY <3>2, <3>3, <3>4 DEF Used, EntryOf
    <2>2. CASE k # Slot
      BY <1>2, <2>2, FillStep DEF Used, TableInv
    <2> QED
      BY <2>1, <2>2
  <1>3. InTable(source)' <=> InTable(source)
    BY <1>2, FillStep DEF InTable, EntryOf
  <1>4. \A s \in Sources : InTable(s)' <=> InTable(s)
    BY <1>2, FillStep DEF InTable, EntryOf
  <1>5. TableInv'
    <2>1. \A k \in Index : k < gs_ul_nb_sources' => Used(k)'
      BY <1>2, FillStep
    <2>2. \A j, k \in Index :
             j < k /\ k < gs_ul_nb_sources'
                => \/ gs_interrupt_sources'[j].id # gs_interrupt_sources'[k].id
                   \/ gs_interrupt_sources'[j].mask # gs_interrupt_sources'[k].mask
      BY <1>2, FillStep DEF TableInv, Index
    <2>3. \A k \in Index : k > gs_ul_nb_sources' => gs_interrupt_sources'[k] = Zero
      BY FillStep DEF TableInv, Index
    <2>4. CASE Slot = gs_ul_nb_sources
      <3>1. i = gs_ul_nb_sources + 1 /\ ~InTable(source)
        BY <2>4, FillStep DEF Index
      <3>2. InProgress(gs_ul_nb_sources)'
        <4>1. gs_interrupt_sources'[gs_ul_nb_sources] = entry
          BY <2>4, FillStep
        <4>2. pc' = to /\ source' = source /\ p_handler' = p_handler
              /\ gs_ul_nb_sources' = gs_ul_nb_sources
          BY FillStep
        <4>3. /\ entry.id = source.id
              /\ entry.mask = IF to \in {"handler", "count"} THEN source.mask ELSE {}
              /\ entry.handler = IF to = "count" THEN p_handler ELSE NULL
          BY <2>4
        <4> QED
          BY <4>1, <4>2, <4>3 DEF InProgress
      <3> QED
        BY <1>3, <2>1, <2>2, <2>3, <3>1, <3>2, FillStep DEF TableInv, Index
    <2>5. CASE Slot # gs_ul_nb_sources
      <3>1. i < gs_ul_nb_sources /\ i \in Index /\ EntryOf(i, source)
        BY <2>5, FillStep
      <3>2. EntryOf(i, source)'
        BY <1>2, <3>1, FillStep DEF EntryOf
      <3>3. gs_interrupt_sources'[gs_ul_nb_sources] = Zero
        BY <2>5, FillStep
      <3> QED
        BY <2>1, <2>2, <2>3, <3>1, <3>2, <3>3, FillStep DEF TableInv, Index
    <2> QED
      BY <2>4, <2>5
  <1>6. EnabledInv'
    BY <1>4, FillStep DEF EnabledInv, Enabled, Full
  <1> QED
    BY <1>1, <1>5, <1>6

LEMMA WriteSteps == PioInv /\ (WriteId \/ WriteMask \/ WriteHandler) => PioInv'
  <1> SUFFICES ASSUME PioInv, WriteId \/ WriteMask \/ WriteHandler PROVE PioInv'
    OBVIOUS
  <1>0. /\ source \in Sources /\ p_handler \in Handlers
        /\ source.id \in Nat /\ source.mask \in SUBSET Nat
    BY SourceType DEF PioInv, TypeOK
  <1>1. CASE WriteId
    <2> DEFINE entry == [pSource EXCEPT !.id = source.id]
    <2>1. Fill("id", "mask", entry)
      BY <1>1 DEF WriteId
    <2>2. pSource \in [id : Nat, mask : SUBSET Nat, handler : {NULL} \cup Handlers]
      BY <2>1, FillStep DEF PioInv, TypeOK, pSource
    <2>3. Slot = gs_ul_nb_sources =>
             pSource.mask = {} /\ pSource.handler = NULL
      BY <2>1, FillStep DEF InProgress, pSource, Index
    <2>4. Slot # gs_ul_nb_sources =>
             pSource.mask = source.mask /\ pSource.handler \in Handlers
      BY <2>1, FillStep DEF EntryOf, Used, pSource
    <2> QED
      BY <1>0, <2>1, <2>2, <2>3, <2>4, FillKeepsInv
  <1>2. CASE WriteMask
    <2> DEFINE entry == [pSource EXCEPT !.mask = source.mask]
    <2>1. Fill("mask", "handler", entry)
      BY <1>2 DEF WriteMask
    <2>2. pSource \in [id : Nat, mask : SUBSET Nat, handler : {NULL} \cup Handlers]
      BY <2>1, FillStep DEF PioInv, TypeOK, pSource
    <2>3. Slot = gs_ul_nb_sources =>
             pSource.id = source.id /\ pSource.handler = NULL
      BY <2>1, FillStep DEF InProgress, pSource, Index
    <2>4. Slot # gs_ul_nb_sources =>
             pSource.id = source.id /\ pSource.handler \in Handlers
      BY <2>1, FillStep DEF EntryOf, Used, pSource
    <2> QED
      BY <1>0, <2>1, <2>2, <2>3, <2>4, FillKeepsInv
  <1>3. CASE WriteHandler
    <2> DEFINE entry == [pSource EXCEPT !.handler = p_handler]
    <2>1. Fill("handler", "count", entry)
      BY <1>3 DEF WriteHandler
    <2>2. pSource \in [id : Nat, mask : SUBSET Nat, handler : {NULL} \cup Handlers]
      BY <2>1, FillStep DEF PioInv, TypeOK, pSource
    <2>3. Slot = gs_ul_nb_sources =>
             pSource.id = source.id /\ pSource.mask = source.mask
      BY <2>1, FillStep DEF InProgress, pSource, Index
    <2>4. Slot # gs_ul_nb_sources =>
             pSource.id = source.id /\ pSource.mask = source.mask
      BY <2>1, FillStep DEF EntryOf, Used, pSource
    <2> QED
      BY <1>0, <2>1, <2>2, <2>3, <2>4, FillKeepsInv
  <1> QED
    BY <1>1, <1>2, <1>3

LEMMA CountStep == PioInv /\ CountSource => PioInv'
  <1> SUFFICES ASSUME PioInv, CountSource PROVE PioInv'
    OBVIOUS
  <1> USE DEF PioInv
  <1>1. /\ pc = "count" /\ pc' = "idle" /\ i' = 0
        /\ gs_ul_nb_sources' = IF i = gs_ul_nb_sources + 1
                                 THEN gs_ul_nb_sources + 1 ELSE gs_ul_nb_sources
        /\ gs_interrupt_sources' = gs_interrupt_sources
        /\ source' = source /\ p_handler' = p_handler
        /\ isr' = isr /\ imr' = imr /\ walk' = walk /\ called' = called
        /\ priorities' = priorities /\ walk = NoWalk
    BY DEF CountSource, Main
  <1>2. gs_ul_nb_sources \in Index
    BY <1>1 DEF TypeOK, TableInv, Index
  <1>3. TypeOK'
    BY <1>1, <1>2 DEF TypeOK, Index
  <1>4. TableInv'
    <2>1. CASE i = gs_ul_nb_sources + 1
      <3>1. ~InTable(source) /\ InProgress(gs_ul_nb_sources)
        BY <1>1, <1>2, <2>1 DEF TableInv, Index
      <3>2. /\ gs_interrupt_sources[gs_ul_nb_sources].id = source.id
            /\ gs_interrupt_sources[gs_ul_nb_sources].mask = source.mask
            /\ gs_interrupt_sources[gs_ul_nb_sources].handler = p_handler
        BY <1>1, <3>1 DEF InProgress
      <3>3. Used(gs_ul_nb_sources)
        BY <3>2, SourceType DEF Used, TypeOK
      <3>4. \A j \in Index : j < gs_ul_nb_sources =>
               \/ gs_interrupt_sources[j].id # source.id
               \/ gs_interrupt_sources[j].mask # source.mask
        BY <3>1 DEF InTable, EntryOf
      <3> QED
        BY <1>1, <1>2, <2>1, <3>2, <3>3, <3>4 DEF TableInv, Used, Index
    <2>2. CASE i # gs_ul_nb_sources + 1
      <3>1. gs_interrupt_sources[gs_ul_nb_sources] = Zero
        BY <1>1, <2>2 DEF TableInv
      <3> QED
        BY <1>1, <1>2, <2>2, <3>1 DEF TableInv, Used, Index
    <2> QED
      BY <2>1, <2>2
  <1>5. \A s \in Sources : InTable(s) => InTable(s)'
    BY <1>1, <1>2 DEF InTable, EntryOf, Index
  <1>6. ~Full
    BY <1>2 DEF Full, Index
  <1>7. EnabledInv'
    BY <1>1, <1>5, <1>6 DEF EnabledInv, Enabled
  <1> QED
    BY <1>3, <1>4, <1>7

-----------------------------------------------------------------------------
(* Interrupts: enabled, disabled, raised and dispatched. *)

\* What a change of the enabled pins of one source does to the others.
LEMMA MaskStep ==
    ASSUME PioInv, NEW s \in Sources, NEW pins \in SUBSET Nat,
           imr' = [imr EXCEPT ![s.id] = pins],
           \A n \in Nat \ s.mask : n \in pins <=> n \in imr[s.id]
    PROVE  /\ imr' \in [Ids -> SUBSET Nat] /\ imr'[s.id] = pins
           /\ \A t \in Sources : t # s =>
                 t.mask \cap imr'[t.id] = t.mask \cap imr[t.id]
           /\ \A t \in Sources : t # s => Enabled(t)' = Enabled(t)
  <1>1. imr \in [Ids -> SUBSET Nat]
    BY DEF PioInv, TypeOK
  <1>2. imr' \in [Ids -> SUBSET Nat] /\ imr'[s.id] = pins
    BY <1>1, SourceType
  <1>3. ASSUME NEW t \in Sources, t # s
        PROVE  t.mask \cap imr'[t.id] = t.mask \cap imr[t.id]
    <2>1. CASE t.id = s.id
      <3>1. t.mask \cap s.mask = {} /\ t.mask \subseteq Nat
        BY <1>3, <2>1, SourceType
      <3> QED
        BY <1>2, <2>1, <3>1
    <2>2. CASE t.id # s.id
      BY <1>1, <2>2, SourceType
    <2> QED
      BY <2>1, <2>2
  <1>4. ASSUME NEW t \in Sources, t # s PROVE Enabled(t)' = Enabled(t)
    BY <1>3, <1>4 DEF Enabled
  <1> QED
    BY <1>2, <1>3, <1>4

LEMMA MaskSteps == PioInv /\ (EnableInterrupt \/ DisableInterrupt) => PioInv'
  <1> SUFFICES ASSUME PioInv, EnableInterrupt \/ DisableInterrupt PROVE PioInv'
    OBVIOUS
  <1>1. /\ walk = NoWalk /\ UNCHANGED <<table, setCall, isr, walk, called, priorities>>
    BY DEF EnableInterrupt, DisableInterrupt, Idle, Main
  <1>2. TableInv'
    BY <1>1 DEF PioInv, TableInv, Used, InTable, InProgress, EntryOf, table, setCall
  <1>3. \A t \in Sources : InTable(t)' = InTable(t) /\ Full' = Full
    BY <1>1 DEF InTable, Full, EntryOf, table
  <1>4. CASE EnableInterrupt
    <2>1. PICK s \in Sources : /\ InTable(s) \/ Full
                               /\ imr' = [imr EXCEPT ![s.id] = @ \cup s.mask]
      BY <1>4 DEF EnableInterrupt
    <2> DEFINE pins == imr[s.id] \cup s.mask
    <2>2. pins \in SUBSET Nat /\ imr' = [imr EXCEPT ![s.id] = pins]
          /\ \A n \in Nat \ s.mask : n \in pins <=> n \in imr[s.id]
      BY <2>1, SourceType DEF PioInv, TypeOK
    <2> HIDE DEF pins
    <2>6. /\ imr' \in [Ids -> SUBSET Nat] /\ imr'[s.id] = pins
          /\ \A t \in Sources : t # s =>
                t.mask \cap imr'[t.id] = t.mask \cap imr[t.id]
          /\ \A t \in Sources : t # s => Enabled(t)' = Enabled(t)
      BY <2>2, MaskStep
    <2>3. Enabled(s)'
      BY <2>6 DEF Enabled, pins
    <2>4. TypeOK'
      BY <1>1, <2>6 DEF PioInv, TypeOK, table, setCall
    <2>5. EnabledInv'
      <3>1. \A t \in Sources : IF Enabled(t)' THEN InTable(t)' \/ Full'
                              ELSE imr'[t.id] \cap t.mask = {}
        BY <1>3, <2>1, <2>3, <2>6 DEF PioInv, EnabledInv
      <3> QED
        BY <1>1, <3>1 DEF EnabledInv
    <2> QED
      BY <1>2, <2>4, <2>5 DEF PioInv
  <1>5. CASE DisableInterrupt
    <2>1. PICK s \in Sources : imr' = [imr EXCEPT ![s.id] = @ \ s.mask]
      BY <1>5 DEF DisableInterrupt
    <2> DEFINE pins == imr[s.id] \ s.mask
    <2>2. pins \in SUBSET Nat /\ imr' = [imr EXCEPT ![s.id] = pins]
          /\ \A n \in Nat \ s.mask : n \in pins <=> n \in imr[s.id]
      BY <2>1, SourceType DEF PioInv, TypeOK
    <2> HIDE DEF pins
    <2>6. /\ imr' \in [Ids -> SUBSET Nat] /\ imr'[s.id] = pins
          /\ \A t \in Sources : t # s =>
                t.mask \cap imr'[t.id] = t.mask \cap imr[t.id]
          /\ \A t \in Sources : t # s => Enabled(t)' = Enabled(t)
      BY <2>2, MaskStep
    <2>3. imr'[s.id] \cap s.mask = {} /\ ~Enabled(s)'
      BY <2>6, SourceType DEF Enabled, pins
    <2>4. TypeOK'
      BY <1>1, <2>6 DEF PioInv, TypeOK, table, setCall
    <2>5. EnabledInv'
      <3>1. \A t \in Sources : IF Enabled(t)' THEN InTable(t)' \/ Full'
                              ELSE imr'[t.id] \cap t.mask = {}
        BY <1>3, <2>3, <2>6 DEF PioInv, EnabledInv
      <3> QED
        BY <1>1, <3>1 DEF EnabledInv
    <2> QED
      BY <1>2, <2>4, <2>5 DEF PioInv
  <1> QED
    BY <1>4, <1>5

\* Steps that change the status register at most.
LEMMA StatusSteps == PioInv /\ (SetPriority \/ Edge \/ WalkDone) => PioInv'
  <1> SUFFICES ASSUME PioInv, SetPriority \/ Edge \/ WalkDone PROVE PioInv'
    OBVIOUS
  <1>1. UNCHANGED <<table, setCall, imr, walk>>
    BY DEF SetPriority, Edge, WalkDone
  <1>2. isr' \in [Ids -> SUBSET Nat]
    BY SourceType DEF PioInv, TypeOK, SetPriority, Edge, WalkDone
  <1>3. called' \in {Nothing} \cup (Sources \X (Handlers \cup {NULL}))
        /\ priorities' \in 0 .. MaxPriority
    BY DEF PioInv, TypeOK, SetPriority, Edge, WalkDone
  <1> QED
    BY <1>1, <1>2, <1>3
    DEF PioInv, TypeOK, TableInv, EnabledInv, Used, InTable, InProgress, EntryOf,
        Enabled, Full, table, setCall

LEMMA DispatchStep ==
    ASSUME PioInv, NEW id \in Ids, Dispatch(id) PROVE PioInv'
  <1>1. /\ UNCHANGED <<table, setCall, imr, called, priorities>>
        /\ walk' = [id |-> id, status |-> isr[id] \cap imr[id], i |-> 0]
        /\ isr[id] \cap imr[id] # {} /\ isr' = [isr EXCEPT ![id] = {}]
    BY DEF Dispatch
  <1>2. isr' \in [Ids -> SUBSET Nat]
    BY <1>1 DEF PioInv, TypeOK
  <1>3. walk' \in [id : Nat, status : SUBSET Nat, i : Index]
    BY <1>1, SourceType DEF PioInv, TypeOK, Index
  <1>4. TypeOK'
    BY <1>1, <1>2, <1>3 DEF PioInv, TypeOK, table, setCall
  <1>5. TableInv'
    BY <1>1 DEF PioInv, TableInv, Used, InTable, InProgress, EntryOf, table, setCall
  <1>6. /\ walk'.id \in Ids /\ walk'.status # {} /\ walk'.status \subseteq imr'[walk'.id]
        /\ \A k \in Index : ~(k < walk'.i)
    BY <1>1 DEF Index
  <1>7. \A s \in Sources : /\ InTable(s)' = InTable(s) /\ Full' = Full
                           /\ Enabled(s)' = Enabled(s)
    BY <1>1 DEF InTable, Full, Enabled, EntryOf, table
  <1>8. EnabledInv'
    BY <1>1, <1>6, <1>7 DEF PioInv, EnabledInv
  <1> QED
    BY <1>4, <1>5, <1>8 DEF PioInv

\* An entry that a walk finds pending is in use: nothing enables a source whose
\* entry is not complete.
LEMMA HitIsUsed ==
    ASSUME PioInv, walk # NoWalk, NEW k \in Index,
           gs_interrupt_sources[k].id = walk.id,
           walk.status \cap gs_interrupt_sources[k].mask # {}
    PROVE  Used(k) /\ k < gs_ul_nb_sources
  <1> USE DEF PioInv
  <1>1. gs_ul_nb_sources \in 0 .. MAX_INTERRUPT_SOURCES
        /\ walk.status \subseteq imr[walk.id]
    BY DEF TypeOK, EnabledInv
  <1>2. CASE k < gs_ul_nb_sources
    BY <1>2 DEF TableInv
  <1>3. CASE k > gs_ul_nb_sources
    BY <1>3 DEF TableInv, Zero
  <1>4. CASE k = gs_ul_nb_sources
    <2>1. gs_interrupt_sources[k] # Zero
      BY DEF Zero
    <2>2. pc # "idle" /\ i = gs_ul_nb_sources + 1 /\ ~InTable(source) /\ InProgress(k)
      BY <1>1, <1>4, <2>1 DEF TableInv, Index
    <2>3. k < MAX_INTERRUPT_SOURCES /\ ~Full
      BY <1>1, <1>4 DEF Index, Full
    <2>4. gs_interrupt_sources[k].mask = source.mask /\ pc \in {"handler", "count"}
      BY <2>2 DEF InProgress
    <2>5. gs_interrupt_sources[k].id = source.id
      BY <2>2, <2>4 DEF InProgress
    <2>6. source \in Sources /\ imr[source.id] \cap source.mask # {}
      BY <1>1, <2>4, <2>5 DEF TypeOK
    <2> QED
      BY <2>2, <2>3, <2>6 DEF EnabledInv
  <1> QED
    BY <1>1, <1>2, <1>3, <1>4 DEF Index

\* One entry per source.
LEMMA OneEntry ==
    ASSUME PioInv, NEW s \in Sources, NEW j \in Index, NEW k \in Index,
           EntryOf(j, s), EntryOf(k, s), j < gs_ul_nb_sources, k < gs_ul_nb_sources
    PROVE  j = k
  <1>1. ~(j < k) /\ ~(k < j)
    BY DEF PioInv, TableInv, EntryOf
  <1> QED
    BY <1>1 DEF Index

\* The turn of a walk at entry k of source s, or at an entry it does not handle.
LEMMA WalkTurn ==
    ASSUME PioInv, Walk
    PROVE  /\ walk # NoWalk /\ walk.i \in Index
           /\ UNCHANGED <<table, setCall, isr, imr, priorities>>
           /\ \/ \E s \in Sources :
                    /\ EntryOf(walk.i, s) /\ s.id = walk.id
                    /\ walk.status \cap s.mask # {}
                    /\ walk.i < gs_ul_nb_sources /\ Used(walk.i)
                    /\ called' = <<s, gs_interrupt_sources[walk.i].handler>>
                    /\ walk' = IF walk.status \ s.mask = {}
                                  \/ walk.i + 1 = MAX_INTERRUPT_SOURCES
                                 THEN NoWalk
                                 ELSE [id |-> walk.id,
                                       status |-> walk.status \ s.mask,
                                       i |-> walk.i + 1]
              \/ /\ \A s \in Sources : EntryOf(walk.i, s) /\ s.id = walk.id
                                          => walk.status \cap s.mask = {}
                 /\ called' = Nothing
                 /\ walk' = IF walk.i + 1 = MAX_INTERRUPT_SOURCES THEN NoWalk
                            ELSE [id |-> walk.id, status |-> walk.status, i |-> walk.i + 1]
  <1> DEFINE entry == gs_interrupt_sources[walk.i]
             hit == entry.id = walk.id /\ walk.status \cap entry.mask # {}
             left == IF hit THEN walk.status \ entry.mask ELSE walk.status
  <1>1. /\ walk # NoWalk
        /\ walk' = IF left = {} \/ walk.i + 1 = MAX_INTERRUPT_SOURCES THEN NoWalk
                   ELSE [id |-> walk.id, status |-> left, i |-> walk.i + 1]
        /\ called' = IF hit THEN <<[id |-> entry.id, mask |-> entry.mask],
                                   entry.handler>> ELSE Nothing
        /\ UNCHANGED <<table, setCall, isr, imr, priorities>>
    BY DEF Walk
  <1>2. walk \in [id : Nat, status : SUBSET Nat, i : Index] /\ walk.i \in Index
    BY DEF PioInv, TypeOK
  <1>3. CASE hit
    <2>1. Used(walk.i) /\ walk.i < gs_ul_nb_sources
      BY <1>1, <1>2, <1>3, HitIsUsed
    <2> DEFINE s == [id |-> entry.id, mask |-> entry.mask]
    <2>2. s \in Sources /\ s.id = entry.id /\ s.mask = entry.mask
      BY <2>1 DEF Used
    <2>3. EntryOf(walk.i, s)
      BY <2>2 DEF EntryOf
    <2>4. called' = <<s, entry.handler>>
      BY <1>1, <1>3
    <2>5. walk' = IF walk.status \ s.mask = {} \/ walk.i + 1 = MAX_INTERRUPT_SOURCES
                    THEN NoWalk
                    ELSE [id |-> walk.id, status |-> walk.status \ s.mask,
                          i |-> walk.i + 1]
      BY <1>1, <1>2, <1>3, <2>2
    <2>6. s.id = walk.id /\ walk.status \cap s.mask # {}
      BY <1>3, <2>2
    <2> HIDE DEF s, entry
    <2>7. called' = <<s, gs_interrupt_sources[walk.i].handler>>
      BY <2>4 DEF entry
    <2> QED
      BY <1>1, <1>2, <2>1, <2>2, <2>3, <2>5, <2>6, <2>7
  <1>4. CASE ~hit
    <2>1. walk.status # {}
      BY <1>1 DEF PioInv, EnabledInv
    <2>2. \A s \in Sources : EntryOf(walk.i, s) /\ s.id = walk.id
                                => walk.status \cap s.mask = {}
      BY <1>4 DEF EntryOf
    <2>3. called' = Nothing
      BY <1>1, <1>4
    <2>4. walk' = IF walk.i + 1 = MAX_INTERRUPT_SOURCES THEN NoWalk
                  ELSE [id |-> walk.id, status |-> walk.status, i |-> walk.i + 1]
      BY <1>1, <1>2, <1>4, <2>1
    <2> QED
      BY <1>1, <1>2, <2>2, <2>3, <2>4
  <1> QED
    BY <1>3, <1>4

LEMMA WalkStep == PioInv /\ Walk => PioInv'
  <1> SUFFICES ASSUME PioInv, Walk PROVE PioInv'
    OBVIOUS
  <1>1. /\ walk # NoWalk /\ walk.i \in Index
        /\ UNCHANGED <<table, setCall, isr, imr, priorities>>
    BY WalkTurn
  <1>2. walk \in [id : Nat, status : SUBSET Nat, i : Index]
        /\ walk.id \in Ids /\ walk.status \subseteq imr[walk.id]
    BY <1>1 DEF PioInv, TypeOK, EnabledInv
  <1>3. TableInv'
    BY <1>1 DEF PioInv, TableInv, Used, InTable, InProgress, EntryOf, table, setCall
  <1>4. \A s \in Sources : /\ InTable(s)' = InTable(s) /\ Full' = Full
                           /\ Enabled(s)' = Enabled(s)
    BY <1>1 DEF InTable, Full, Enabled, EntryOf, table
  <1>5. walk.i + 1 # MAX_INTERRUPT_SOURCES => walk.i + 1 \in Index
    BY <1>1 DEF Index
  <1>6. NoWalk \in [id : Nat, status : SUBSET Nat, i : Index]
    BY DEF NoWalk, Index
  <1>7. /\ called' \in {Nothing} \cup (Sources \X (Handlers \cup {NULL}))
        /\ walk' \in [id : Nat, status : SUBSET Nat, i : Index]
        /\ walk' # NoWalk =>
              /\ walk'.id \in Ids /\ walk'.status # {}
              /\ walk'.status \subseteq imr[walk'.id]
              /\ \A s \in Sources : walk'.id = s.id /\ walk'.status \cap s.mask # {}
                    => \A k \in Index : k < walk'.i => ~EntryOf(k, s)
    <2>1. ASSUME NEW left \in SUBSET walk.status, left # {},
                 \A s \in Sources : EntryOf(walk.i, s) /\ s.id = walk.id
                                       => left \cap s.mask = {},
                 walk.i + 1 # MAX_INTERRUPT_SOURCES,
                 walk' = [id |-> walk.id, status |-> left, i |-> walk.i + 1]
          PROVE  /\ walk' \in [id : Nat, status : SUBSET Nat, i : Index]
                 /\ walk'.id \in Ids /\ walk'.status # {}
                 /\ walk'.status \subseteq imr[walk'.id]
                 /\ \A s \in Sources : walk'.id = s.id /\ walk'.status \cap s.mask # {}
                       => \A k \in Index : k < walk'.i => ~EntryOf(k, s)
      <3>1. walk'.id = walk.id /\ walk'.status = left /\ walk'.i = walk.i + 1
        BY <2>1
      <3>2. walk' \in [id : Nat, status : SUBSET Nat, i : Index]
        BY <1>2, <1>5, <2>1
      <3>3. \A s \in Sources : walk.id = s.id /\ left \cap s.mask # {}
               => \A k \in Index : k < walk.i + 1 => ~EntryOf(k, s)
        <4> SUFFICES ASSUME NEW s \in Sources, walk.id = s.id, left \cap s.mask # {},
                            NEW k \in Index, k < walk.i + 1
                     PROVE  ~EntryOf(k, s)
          OBVIOUS
        <4>1. CASE k = walk.i
          BY <2>1, <4>1
        <4>2. CASE k < walk.i
          BY <1>1, <4>2 DEF PioInv, EnabledInv
        <4> QED
          BY <1>1, <4>1, <4>2 DEF Index
      <3> QED
        BY <1>2, <2>1, <3>1, <3>2, <3>3
    <2>2. CASE \E s \in Sources :
                  /\ EntryOf(walk.i, s) /\ s.id = walk.id
                  /\ walk.status \cap s.mask # {}
                  /\ walk.i < gs_ul_nb_sources /\ Used(walk.i)
                  /\ called' = <<s, gs_interrupt_sources[walk.i].handler>>
                  /\ walk' = IF walk.status \ s.mask = {}
                                \/ walk.i + 1 = MAX_INTERRUPT_SOURCES
                               THEN NoWalk
                               ELSE [id |-> walk.id, status |-> walk.status \ s.mask,
                                     i |-> walk.i + 1]
      <3>1. PICK s \in Sources :
                  /\ EntryOf(walk.i, s) /\ s.id = walk.id
                  /\ Used(walk.i)
                  /\ called' = <<s, gs_interrupt_sources[walk.i].handler>>
                  /\ walk' = IF walk.status \ s.mask = {}
                                \/ walk.i + 1 = MAX_INTERRUPT_SOURCES
                               THEN NoWalk
                               ELSE [id |-> walk.id, status |-> walk.status \ s.mask,
                                     i |-> walk.i + 1]
        BY <2>2
      <3>2. called' \in Sources \X (Handlers \cup {NULL})
        BY <3>1 DEF Used
      <3>3. \A t \in Sources : EntryOf(walk.i, t) => t = s
        BY <3>1, SourceType DEF EntryOf
      <3>4. CASE walk' = NoWalk
        BY <1>6, <3>2, <3>4
      <3>5. CASE walk' # NoWalk
        <4> DEFINE left == walk.status \ s.mask
        <4>1. left \in SUBSET walk.status /\ left # {} /\ left \cap s.mask = {}
              /\ walk.i + 1 # MAX_INTERRUPT_SOURCES
              /\ walk' = [id |-> walk.id, status |-> left, i |-> walk.i + 1]
          BY <3>1, <3>5
        <4> HIDE DEF left
        <4> QED
          BY <2>1, <3>2, <3>3, <4>1
      <3> QED
        BY <3>4, <3>5
    <2>3. CASE /\ \A s \in Sources : EntryOf(walk.i, s) /\ s.id = walk.id
                                        => walk.status \cap s.mask = {}
               /\ called' = Nothing
               /\ walk' = IF walk.i + 1 = MAX_INTERRUPT_SOURCES THEN NoWalk
                          ELSE [id |-> walk.id, status |-> walk.status,
                                i |-> walk.i + 1]
      <3>1. walk.status # {}
        BY <1>1 DEF PioInv, EnabledInv
      <3>2. CASE walk' = NoWalk
        BY <1>6, <2>3, <3>2
      <3>3. CASE walk' # NoWalk
        BY <2>1, <2>3, <3>1, <3>3
      <3> QED
        BY <3>2, <3>3
    <2> QED
      BY <2>2, <2>3, WalkTurn
  <1>8. TypeOK'
    BY <1>1, <1>7 DEF PioInv, TypeOK, table, setCall
  <1>9. EnabledInv'
    <2>1. \A k \in Index, s \in Sources : EntryOf(k, s)' = EntryOf(k, s)
      BY <1>1 DEF EntryOf, table
    <2> QED
      BY <1>1, <1>4, <1>7, <2>1 DEF PioInv, EnabledInv
  <1> QED
    BY <1>3, <1>8, <1>9 DEF PioInv

LEMMA PioStutters == PioInv /\ UNCHANGED vars => PioInv'
  BY DEF PioInv, TypeOK, TableInv, EnabledInv, Used, InTable, InProgress, EntryOf,
         Enabled, Full, vars, table, setCall

LEMMA PioNext == PioInv /\ [Next]_vars => PioInv'
  BY SetHandlerStep, WriteSteps, CountStep, MaskSteps, StatusSteps, DispatchStep,
     WalkStep, PioStutters DEF Next

\* The table of sources is complete as far as it counts, zero behind, and every
\* enabled source is in it, at each point of pio_handler_set() and of a walk.
THEOREM PioInvariant == Spec => []PioInv
  BY InitPio, PioNext, PTL DEF Spec

\* The dispatcher never calls through an empty or half-written entry.
THEOREM NeverCallsNull == Spec => []NoNullCall
  <1>1. PioInv => NoNullCall
    <2> SUFFICES ASSUME PioInv, walk # NoWalk,
                        gs_interrupt_sources[walk.i].id = walk.id,
                        walk.status \cap gs_interrupt_sources[walk.i].mask # {}
                 PROVE  gs_interrupt_sources[walk.i].handler # NULL
      BY DEF NoNullCall
    <2>1. walk.i \in Index
      BY DEF PioInv, TypeOK
    <2>2. Used(walk.i)
      BY <2>1, HitIsUsed
    <2> QED
      BY <2>2 DEF Used
  <1> QED
    BY <1>1, PioInvariant, PTL

-----------------------------------------------------------------------------
(* The refinement. *)

\* A source is defined by one entry, which is in use or about to be counted.
LEMMA CompleteEntry ==
    PioInv => \A s \in Sources : \A k \in Complete(s) :
                 /\ k \in Index /\ EntryOf(k, s)
                 /\ k < gs_ul_nb_sources \/ (k = gs_ul_nb_sources /\ pc = "count")
                 /\ Complete(s) = {k}
  <1> SUFFICES ASSUME PioInv, NEW s \in Sources, NEW k \in Complete(s)
               PROVE  /\ k \in Index /\ EntryOf(k, s)
                      /\ k < gs_ul_nb_sources \/ (k = gs_ul_nb_sources /\ pc = "count")
                      /\ Complete(s) = {k}
    OBVIOUS
  <1>1. gs_ul_nb_sources \in Nat
    BY DEF PioInv, TypeOK
  <1>2. ASSUME NEW j \in Complete(s)
        PROVE  /\ j \in Index /\ EntryOf(j, s)
               /\ \/ j < gs_ul_nb_sources
                  \/ j = gs_ul_nb_sources /\ pc = "count" /\ ~InTable(s)
    <2>1. j \in Index /\ EntryOf(j, s) /\ gs_interrupt_sources[j].handler # NULL
      BY DEF Complete
    <2>2. gs_interrupt_sources[j] # Zero
      BY <2>1 DEF Zero
    <2>3. CASE j > gs_ul_nb_sources
      BY <2>1, <2>2, <2>3 DEF PioInv, TableInv
    <2>4. CASE j = gs_ul_nb_sources
      <3>1. pc # "idle" /\ ~InTable(source) /\ InProgress(j)
        BY <1>1, <2>1, <2>2, <2>4 DEF PioInv, TableInv, Index
      <3>2. pc = "count"
        BY <2>1, <3>1 DEF InProgress
      <3>3. s = source
        BY <2>1, <3>1, <3>2, SourceType DEF InProgress, EntryOf, PioInv, TypeOK
      <3> QED
        BY <2>1, <2>4, <3>1, <3>2, <3>3
    <2> QED
      BY <1>1, <2>1, <2>3, <2>4 DEF Index
  <1>3. ASSUME NEW j \in Complete(s) PROVE j = k
    <2>1. CASE InTable(s)
      BY <1>2, <2>1, OneEntry
    <2>2. CASE ~InTable(s)
      <3>1. ASSUME NEW l \in Complete(s) PROVE l = gs_ul_nb_sources
        BY <1>2, <2>2 DEF InTable
      <3> QED
        BY <3>1
    <2> QED
      BY <2>1, <2>2
  <1> QED
    BY <1>2, <1>3

\* The handler of a source is that of its entry.
HandlersOfEntries ==
    \A s \in Sources :
        /\ Complete(s) = {} => HandlerOf[s] = NULL
        /\ \A k \in Complete(s) : HandlerOf[s] = gs_interrupt_sources[k].handler
        /\ HandlerOf[s] # NULL <=> Complete(s) # {}

LEMMA HandlerOfEntry == PioInv => HandlersOfEntries
  <1> SUFFICES ASSUME PioInv, NEW s \in Sources
               PROVE  /\ Complete(s) = {} => HandlerOf[s] = NULL
                      /\ \A k \in Complete(s) :
                            /\ HandlerOf[s] = gs_interrupt_sources[k].handler
                            /\ gs_interrupt_sources[k].handler # NULL
    BY DEF HandlersOfEntries
  <1>1. Complete(s) = {} => HandlerOf[s] = NULL
    BY DEF HandlerOf
  <1>2. ASSUME NEW k \in Complete(s)
        PROVE  /\ HandlerOf[s] = gs_interrupt_sources[k].handler
               /\ gs_interrupt_sources[k].handler # NULL
    <2>1. Complete(s) = {k}
      BY CompleteEntry
    <2>2. (CHOOSE j \in Complete(s) : TRUE) = k
      BY <2>1
    <2> QED
      BY <2>1, <2>2 DEF HandlerOf, Complete
  <1> QED
    BY <1>1, <1>2

LEMMA HandlerOfEntryNext == PioInv' => HandlersOfEntries'
  BY HandlerOfEntry, PTL

\* Until an entry is complete there are fewer defined sources than entries.
LEMMA FewerDefined ==
    ASSUME PioInv, pc = "handler"
    PROVE  Cardinality(Promise!Defined) < MAX_INTERRUPT_SOURCES
  <1> DEFINE n == gs_ul_nb_sources
             place == [s \in Promise!Defined |-> CHOOSE k \in Complete(s) : TRUE]
  <1>1. n \in Nat /\ n < MAX_INTERRUPT_SOURCES
    BY DEF PioInv, TypeOK, TableInv
  <1>2. ASSUME NEW s \in Promise!Defined
        PROVE  place[s] \in 0 .. (n - 1) /\ EntryOf(place[s], s) /\ s \in Sources
    <2>1. s \in Sources /\ Complete(s) # {}
      BY HandlerOfEntry DEF HandlersOfEntries, Promise!Defined
    <2>2. place[s] \in Complete(s)
      BY <2>1
    <2> QED
      BY <1>1, <2>1, <2>2, CompleteEntry DEF Index
  <1>3. place \in Injection(Promise!Defined, 0 .. (n - 1))
    <2>1. ASSUME NEW s \in Promise!Defined, NEW t \in Promise!Defined,
                 place[s] = place[t]
          PROVE  s = t
      BY <1>2, <2>1, SourceType DEF EntryOf
    <2>2. place \in [Promise!Defined -> 0 .. (n - 1)]
      BY <1>2
    <2> QED
      BY <2>1, <2>2 DEF Injection, IsInjective
  <1>4. IsFiniteSet(0 .. (n - 1)) /\ Cardinality(0 .. (n - 1)) = n
    BY <1>1, FS_Interval
  <1>5. Cardinality(Promise!Defined) <= n /\ IsFiniteSet(Promise!Defined)
    BY <1>3, <1>4, FS_Injection
  <1>6. Cardinality(Promise!Defined) \in Nat
    BY <1>5, FS_CardinalityType
  <1> QED
    BY <1>1, <1>5, <1>6

\* Steps that change no entry, no enabled pin and nothing pending.
LEMMA QuietStep ==
    ASSUME UNCHANGED <<gs_interrupt_sources, imr, isr, walk, called, priorities>>
    PROVE  UNCHANGED Promise!vars
  BY DEF Promise!vars, HandlerOf, Complete, EntryOf, EnabledSources, Enabled, Raised

\* Steps that change no entry.
LEMMA SameHandlers ==
    ASSUME UNCHANGED gs_interrupt_sources
    PROVE  HandlerOf' = HandlerOf
  BY DEF HandlerOf, Complete, EntryOf

\* The writes of a source's pins complete no entry.
LEMMA FillIsQuiet == PioInv /\ (WriteId \/ WriteMask) => UNCHANGED Promise!vars
  <1> SUFFICES ASSUME PioInv, WriteId \/ WriteMask PROVE UNCHANGED Promise!vars
    OBVIOUS
  <1>1. PICK from \in {"id", "mask"}, to \in {"mask", "handler"},
             entry \in {[pSource EXCEPT !.id = source.id],
                        [pSource EXCEPT !.mask = source.mask]} :
           /\ Fill(from, to, entry)
           /\ \/ entry = [pSource EXCEPT !.id = source.id] /\ from = "id"
              \/ entry = [pSource EXCEPT !.mask = source.mask] /\ from = "mask"
    BY DEF WriteId, WriteMask
  <1>2. /\ Slot \in Index /\ UNCHANGED <<isr, imr, walk, called, priorities>>
        /\ gs_interrupt_sources' =
              [k \in Index |-> IF k = Slot THEN entry ELSE gs_interrupt_sources[k]]
        /\ pc = from
    BY <1>1, FillStep
  <1>3. gs_interrupt_sources \in
            [Index -> [id : Nat, mask : SUBSET Nat, handler : {NULL} \cup Handlers]]
        /\ pSource = gs_interrupt_sources[Slot]
    BY DEF PioInv, TypeOK, pSource
  <1>4. CASE InProgress(Slot)
    <2>1. gs_interrupt_sources[Slot].handler = NULL
      BY <1>1, <1>2, <1>4 DEF InProgress
    <2>2. entry.handler = NULL
      BY <1>1, <1>2, <1>3, <2>1
    <2>3. ASSUME NEW s \in Sources
          PROVE  /\ Complete(s)' = Complete(s)
                 /\ \A k \in Complete(s) :
                       gs_interrupt_sources'[k] = gs_interrupt_sources[k]
      BY <1>2, <2>1, <2>2 DEF Complete, EntryOf
    <2>4. HandlerOf' = HandlerOf
      <3>1. HandlersOfEntries /\ HandlersOfEntries'
        BY WriteSteps, HandlerOfEntry, HandlerOfEntryNext
      <3>2. ASSUME NEW s \in Sources PROVE HandlerOf'[s] = HandlerOf[s]
        BY <2>3, <3>1 DEF HandlersOfEntries
      <3>3. HandlerOf = [s \in Sources |-> HandlerOf[s]]
            /\ HandlerOf' = [s \in Sources |-> HandlerOf'[s]]
        BY DEF HandlerOf
      <3> QED
        BY <3>2, <3>3
    <2> QED
      BY <1>2, <2>4 DEF Promise!vars, EnabledSources, Enabled, Raised
  <1>5. CASE EntryOf(Slot, source)
    <2>1. entry = gs_interrupt_sources[Slot]
      BY <1>1, <1>2, <1>3, <1>5 DEF EntryOf
    <2>2. gs_interrupt_sources' = gs_interrupt_sources
      BY <1>2, <1>3, <2>1
    <2> QED
      BY <1>2, <2>2, QuietStep
  <1> QED
    BY <1>1, <1>4, <1>5, FillStep

\* The write of the handler defines the source.
LEMMA WriteHandlerDefines == PioInv /\ WriteHandler => Promise!Define
  <1> SUFFICES ASSUME PioInv, WriteHandler PROVE Promise!Define
    OBVIOUS
  <1> DEFINE entry == [pSource EXCEPT !.handler = p_handler]
  <1>1. Fill("handler", "count", entry)
    BY DEF WriteHandler
  <1>2. /\ Slot \in Index /\ UNCHANGED <<isr, imr, walk, called, priorities>>
        /\ gs_interrupt_sources' =
              [k \in Index |-> IF k = Slot THEN entry ELSE gs_interrupt_sources[k]]
        /\ pc = "handler" /\ walk = NoWalk
        /\ source' = source /\ p_handler' = p_handler
    BY <1>1, FillStep
  <1>3. gs_interrupt_sources \in
            [Index -> [id : Nat, mask : SUBSET Nat, handler : {NULL} \cup Handlers]]
        /\ pSource = gs_interrupt_sources[Slot]
        /\ source \in Sources /\ p_handler \in Handlers
    BY DEF PioInv, TypeOK, pSource
  <1>4. /\ gs_interrupt_sources[Slot].id = source.id
        /\ gs_interrupt_sources[Slot].mask = source.mask
        /\ gs_interrupt_sources[Slot].handler = NULL => ~Enabled(source)
    <2>1. CASE i = gs_ul_nb_sources + 1
      <3>1. InProgress(Slot) /\ ~InTable(source) /\ Slot = gs_ul_nb_sources
        BY <1>1, <2>1, FillStep DEF PioInv, TypeOK
      <3>2. ~Full
        BY <1>2, <3>1 DEF Full, Index
      <3>3. ~Enabled(source)
        BY <1>3, <3>1, <3>2 DEF PioInv, EnabledInv
      <3> QED
        BY <1>2, <3>1, <3>3 DEF InProgress
    <2>2. CASE i # gs_ul_nb_sources + 1
      <3>1. EntryOf(i, source) /\ Used(i) /\ Slot = i
        BY <1>1, <2>2, FillStep
      <3> QED
        BY <3>1 DEF EntryOf, Used
    <2> QED
      BY <2>1, <2>2
  <1>5. /\ entry.id = source.id /\ entry.mask = source.mask
        /\ entry.handler = p_handler /\ p_handler # NULL
    BY <1>2, <1>3, <1>4
  <1> HIDE DEF entry
  <1>6. PioInv'
    BY WriteSteps
  <1>7. HandlersOfEntries /\ HandlersOfEntries'
    BY <1>6, HandlerOfEntry, HandlerOfEntryNext
  <1>8. HandlerOf'[source] = p_handler
    <2>1. Slot \in Complete(source)'
      BY <1>2, <1>5 DEF Complete, EntryOf
    <2>2. gs_interrupt_sources'[Slot].handler = p_handler
      BY <1>2, <1>5
    <2> QED
      BY <1>2, <1>3, <1>7, <2>1, <2>2 DEF HandlersOfEntries
  <1>9. ASSUME NEW s \in Sources, s # source PROVE HandlerOf'[s] = HandlerOf[s]
    <2>1. s.id # source.id \/ s.mask # source.mask
      BY <1>3, <1>9, SourceType
    <2>2. Complete(s)' = Complete(s) /\ Slot \notin Complete(s)
      BY <1>2, <1>4, <1>5, <2>1 DEF Complete, EntryOf
    <2>3. CASE Complete(s) = {}
      BY <1>7, <2>2, <2>3 DEF HandlersOfEntries
    <2>4. CASE Complete(s) # {}
      <3>1. PICK k \in Complete(s) : k # Slot /\ k \in Index
        BY <2>2, <2>4 DEF Complete
      <3>2. gs_interrupt_sources'[k] = gs_interrupt_sources[k]
        BY <1>2, <3>1
      <3> QED
        BY <1>7, <2>2, <3>1, <3>2 DEF HandlersOfEntries
    <2> QED
      BY <2>3, <2>4
  <1>10. HandlerOf' = [HandlerOf EXCEPT ![source] = p_handler]
    <2>1. HandlerOf = [s \in Sources |-> HandlerOf[s]]
          /\ HandlerOf' = [s \in Sources |-> HandlerOf'[s]]
      BY DEF HandlerOf
    <2> QED
      BY <1>3, <1>8, <1>9, <2>1
  <1>11. EnabledSources' = EnabledSources
    BY <1>2 DEF EnabledSources, Enabled
  <1>12. ASSUME NEW s \in Sources
         PROVE  /\ HandlerOf'[s] # NULL
                /\ \/ s.mask \cap isr'[s.id] \cap imr'[s.id] # {}
                   \/ walk'.id = s.id /\ walk'.status \cap s.mask # {}
                <=>
                /\ HandlerOf[s] # NULL
                /\ \/ s.mask \cap isr[s.id] \cap imr[s.id] # {}
                   \/ walk.id = s.id /\ walk.status \cap s.mask # {}
    <2>1. CASE s = source /\ HandlerOf[s] = NULL
      <3>1. Slot \notin Complete(s)
        BY <1>3, <1>5, <1>7, <2>1 DEF HandlersOfEntries
      <3>2. gs_interrupt_sources[Slot].handler = NULL
        BY <1>2, <1>4, <2>1, <3>1 DEF Complete, EntryOf
      <3>3. ~Enabled(s)
        BY <1>4, <2>1, <3>2
      <3>4. imr[s.id] \cap s.mask = {}
        BY <3>3 DEF PioInv, EnabledInv
      <3>5. walk.status = {}
        BY <1>2 DEF NoWalk
      <3> QED
        BY <1>2, <2>1, <3>4, <3>5
    <2>2. CASE s # source \/ HandlerOf[s] # NULL
      BY <1>2, <1>5, <1>8, <1>9, <2>2
    <2> QED
      BY <2>1, <2>2
  <1>13. Raised' = Raised
    BY <1>12 DEF Raised
  <1>14. Cardinality(Promise!Defined) < MAX_INTERRUPT_SOURCES
    BY <1>2, FewerDefined
  <1>15. Promise!Cardinality(Promise!Defined) = Cardinality(Promise!Defined)
    BY DEF Promise!Cardinality, Cardinality
  <1> QED
    BY <1>2, <1>3, <1>10, <1>11, <1>13, <1>14, <1>15 DEF Promise!Define

\* What Raised says of a source.
Awaited(s) ==
    \/ s.mask \cap isr[s.id] \cap imr[s.id] # {}
    \/ walk.id = s.id /\ walk.status \cap s.mask # {}

LEMMA RaisedIs ==
    /\ Raised = {s \in Sources : HandlerOf[s] # NULL /\ Awaited(s)}
    /\ Raised' = {s \in Sources : HandlerOf'[s] # NULL /\ Awaited(s)'}
  BY DEF Raised, Awaited

LEMMA MasksMap == PioInv /\ (EnableInterrupt \/ DisableInterrupt) =>
                     Promise!Enable \/ Promise!Disable
  <1> SUFFICES ASSUME PioInv, EnableInterrupt \/ DisableInterrupt
               PROVE  Promise!Enable \/ Promise!Disable
    OBVIOUS
  <1>1. walk = NoWalk /\ UNCHANGED <<gs_interrupt_sources, isr, walk, called, priorities>>
    BY DEF EnableInterrupt, DisableInterrupt, Idle, Main, table
  <1>2. HandlerOf' = HandlerOf
    BY <1>1, SameHandlers
  <1>3. walk.status = {}
    BY <1>1 DEF NoWalk
  <1>4. CASE EnableInterrupt
    <2>1. PICK s \in Sources : imr' = [imr EXCEPT ![s.id] = @ \cup s.mask]
      BY <1>4 DEF EnableInterrupt
    <2> DEFINE pins == imr[s.id] \cup s.mask
    <2>2. pins \in SUBSET Nat /\ imr' = [imr EXCEPT ![s.id] = pins]
          /\ \A n \in Nat \ s.mask : n \in pins <=> n \in imr[s.id]
      BY <2>1, SourceType DEF PioInv, TypeOK
    <2>3. s.mask \subseteq pins /\ imr[s.id] \subseteq pins
      OBVIOUS
    <2> HIDE DEF pins
    <2>4. /\ imr'[s.id] = pins
          /\ \A t \in Sources : t # s =>
                t.mask \cap imr'[t.id] = t.mask \cap imr[t.id]
          /\ \A t \in Sources : t # s => Enabled(t)' = Enabled(t)
      BY <2>2, MaskStep
    <2>5. EnabledSources' = EnabledSources \cup {s}
      BY <2>3, <2>4 DEF EnabledSources, Enabled
    <2>6. \A t \in Sources : t # s => Awaited(t)' = Awaited(t)
      BY <1>1, <1>3, <2>4 DEF Awaited
    <2>7. Awaited(s) => Awaited(s)'
      BY <1>1, <1>3, <2>3, <2>4 DEF Awaited
    <2>8. Raised' = Raised \/ (HandlerOf[s] # NULL /\ Raised' = Raised \cup {s})
      BY <1>2, <2>6, <2>7, RaisedIs
    <2>9. HandlerOf[s] # NULL => s \in Promise!Defined
      BY DEF Promise!Defined
    <2> QED
      BY <1>1, <1>2, <2>5, <2>8, <2>9 DEF Promise!Enable
  <1>5. CASE DisableInterrupt
    <2>1. PICK s \in Sources : imr' = [imr EXCEPT ![s.id] = @ \ s.mask]
      BY <1>5 DEF DisableInterrupt
    <2> DEFINE pins == imr[s.id] \ s.mask
    <2>2. pins \in SUBSET Nat /\ imr' = [imr EXCEPT ![s.id] = pins]
          /\ \A n \in Nat \ s.mask : n \in pins <=> n \in imr[s.id]
      BY <2>1, SourceType DEF PioInv, TypeOK
    <2>3. s.mask \cap pins = {} /\ s.mask # {}
      BY SourceType
    <2> HIDE DEF pins
    <2>4. /\ imr'[s.id] = pins
          /\ \A t \in Sources : t # s =>
                t.mask \cap imr'[t.id] = t.mask \cap imr[t.id]
          /\ \A t \in Sources : t # s => Enabled(t)' = Enabled(t)
      BY <2>2, MaskStep
    <2>5. EnabledSources' = EnabledSources \ {s}
      BY <2>3, <2>4 DEF EnabledSources, Enabled
    <2>6. \A t \in Sources : t # s => Awaited(t)' = Awaited(t)
      BY <1>1, <1>3, <2>4 DEF Awaited
    <2>7. ~Awaited(s)'
      BY <1>1, <1>3, <2>3, <2>4 DEF Awaited
    <2>8. Raised' = Raised \ {s}
      BY <1>2, <2>6, <2>7, RaisedIs
    <2> QED
      BY <1>1, <1>2, <2>5, <2>8 DEF Promise!Disable
  <1> QED
    BY <1>4, <1>5

LEMMA PriorityMaps == PioInv /\ SetPriority => Promise!Discard
  <1> SUFFICES ASSUME PioInv, SetPriority PROVE Promise!Discard
    OBVIOUS
  <1>1. PICK id \in Ids : isr' = [isr EXCEPT ![id] = {}]
    BY DEF SetPriority
  <1>2. PICK s \in Sources : s.id = id
    BY DEF Ids
  <1>3. /\ walk = NoWalk /\ UNCHANGED <<gs_interrupt_sources, imr, walk, called>>
        /\ priorities < MaxPriority /\ priorities' = priorities + 1
    BY DEF SetPriority, Idle, Main, table
  <1>4. HandlerOf' = HandlerOf /\ EnabledSources' = EnabledSources
    BY <1>3, SameHandlers DEF EnabledSources, Enabled
  <1>5. walk.status = {} /\ isr \in [Ids -> SUBSET Nat]
    BY <1>3 DEF NoWalk, PioInv, TypeOK
  <1>6. \A t \in Sources : Awaited(t)' <=> Awaited(t) /\ t.id # id
    BY <1>1, <1>3, <1>5, SourceType DEF Awaited
  <1>7. Raised' = {t \in Raised : t.id # s.id}
    BY <1>2, <1>4, <1>6, RaisedIs
  <1> QED
    BY <1>3, <1>4, <1>7 DEF Promise!Discard

LEMMA EdgeMaps == PioInv /\ Edge => Promise!Detect \/ UNCHANGED Promise!vars
  <1> SUFFICES ASSUME PioInv, Edge PROVE Promise!Detect \/ UNCHANGED Promise!vars
    OBVIOUS
  <1>1. PICK s \in Sources :
           \E pin \in s.mask : isr' = [isr EXCEPT ![s.id] = @ \cup {pin}]
    BY DEF Edge
  <1>9. PICK pin \in s.mask : isr' = [isr EXCEPT ![s.id] = @ \cup {pin}]
    BY <1>1
  <1>2. UNCHANGED <<gs_interrupt_sources, imr, walk, called, priorities>>
    BY DEF Edge, table
  <1>3. HandlerOf' = HandlerOf /\ EnabledSources' = EnabledSources
    BY <1>2, SameHandlers DEF EnabledSources, Enabled
  <1>4. ASSUME NEW t \in Sources, t # s PROVE Awaited(t)' = Awaited(t)
    <2>1. t.id = s.id => pin \notin t.mask
      BY <1>4
    <2>2. t.mask \cap isr'[t.id] = t.mask \cap isr[t.id]
      BY <1>9, <2>1, SourceType DEF PioInv, TypeOK
    <2> QED
      BY <1>2, <2>2 DEF Awaited
  <1>5. isr'[s.id] = isr[s.id] \cup {pin}
    BY <1>9, SourceType DEF PioInv, TypeOK
  <1>6. CASE Enabled(s) /\ HandlerOf[s] # NULL
    <2>1. Awaited(s)'
      BY <1>2, <1>5, <1>6 DEF Awaited, Enabled
    <2>2. Raised' = Raised \cup {s}
      BY <1>3, <1>4, <1>6, <2>1, RaisedIs
    <2>3. s \in EnabledSources \cap Promise!Defined
      BY <1>6 DEF EnabledSources, Promise!Defined
    <2> QED
      BY <1>2, <1>3, <2>2, <2>3 DEF Promise!Detect
  <1>7. CASE ~Enabled(s)
    <2>1. imr[s.id] \cap s.mask = {}
      BY <1>7 DEF PioInv, EnabledInv
    <2>2. Awaited(s)' = Awaited(s)
      BY <1>2, <2>1 DEF Awaited
    <2>3. Raised' = Raised
      BY <1>3, <1>4, <2>2, RaisedIs
    <2> QED
      BY <1>2, <1>3, <2>3 DEF Promise!vars
  <1>8. CASE HandlerOf[s] = NULL
    <2>1. Raised' = Raised
      BY <1>3, <1>4, <1>8, RaisedIs
    <2> QED
      BY <1>2, <1>3, <2>1 DEF Promise!vars
  <1> QED
    BY <1>6, <1>7, <1>8

\* What was raised in the status register is raised in the walk.
LEMMA DispatchIsQuiet ==
    ASSUME PioInv, NEW id \in Ids, Dispatch(id) PROVE UNCHANGED Promise!vars
  <1>1. /\ walk = NoWalk /\ UNCHANGED <<gs_interrupt_sources, imr, called, priorities>>
        /\ walk' = [id |-> id, status |-> isr[id] \cap imr[id], i |-> 0]
        /\ isr' = [isr EXCEPT ![id] = {}]
    BY DEF Dispatch, Main, table
  <1>2. HandlerOf' = HandlerOf /\ EnabledSources' = EnabledSources
    BY <1>1, SameHandlers DEF EnabledSources, Enabled
  <1>3. walk.status = {} /\ isr \in [Ids -> SUBSET Nat]
        /\ walk'.id = id /\ walk'.status = isr[id] \cap imr[id]
    BY <1>1 DEF NoWalk, PioInv, TypeOK
  <1>4. ASSUME NEW t \in Sources PROVE Awaited(t)' = Awaited(t)
    <2>1. CASE t.id = id
      <3>1. isr'[t.id] = {}
        BY <1>1, <1>3, <2>1, SourceType
      <3> QED
        BY <1>1, <1>3, <2>1, <3>1 DEF Awaited
    <2>2. CASE t.id # id
      <3>1. isr'[t.id] = isr[t.id]
        BY <1>1, <1>3, <2>2, SourceType
      <3> QED
        BY <1>1, <1>3, <2>2, <3>1 DEF Awaited
    <2> QED
      BY <2>1, <2>2
  <1>5. Raised' = Raised
    BY <1>2, <1>4, RaisedIs
  <1> QED
    BY <1>1, <1>2, <1>5 DEF Promise!vars

\* A turn of the walk calls the handler of a raised source, or none is raised at
\* its entry; at the last entry nothing is left.
LEMMA WalkMaps ==
    PioInv /\ Walk => Promise!Call \/ Promise!Return \/ UNCHANGED Promise!vars
  <1> SUFFICES ASSUME PioInv, Walk
               PROVE  Promise!Call \/ Promise!Return \/ UNCHANGED Promise!vars
    OBVIOUS
  <1>1. /\ walk # NoWalk /\ walk.i \in Index
        /\ UNCHANGED <<gs_interrupt_sources, isr, imr, priorities>>
    BY WalkTurn DEF table
  <1>2. HandlerOf' = HandlerOf /\ EnabledSources' = EnabledSources
    BY <1>1, SameHandlers DEF EnabledSources, Enabled
  <1>3. HandlersOfEntries
    BY HandlerOfEntry
  \* A source that a handler waits for has an entry at or behind the walk.
  <1>4. ASSUME NEW t \in Sources, HandlerOf[t] # NULL, t.id = walk.id,
               walk.status \cap t.mask # {}
        PROVE  \E k \in Complete(t) : k \in Index /\ EntryOf(k, t) /\ k >= walk.i
    <2>1. PICK k \in Complete(t) : k \in Index /\ EntryOf(k, t)
      BY <1>3, <1>4 DEF HandlersOfEntries, Complete
    <2>2. ~(k < walk.i)
      BY <1>1, <1>4, <2>1 DEF PioInv, EnabledInv
    <2> QED
      BY <1>1, <2>1, <2>2 DEF Index
  <1>5. NoWalk.status = {}
    BY DEF NoWalk
  <1>6. CASE \E s \in Sources :
                  /\ EntryOf(walk.i, s) /\ s.id = walk.id
                  /\ walk.status \cap s.mask # {}
                  /\ walk.i < gs_ul_nb_sources /\ Used(walk.i)
                  /\ called' = <<s, gs_interrupt_sources[walk.i].handler>>
                  /\ walk' = IF walk.status \ s.mask = {}
                                \/ walk.i + 1 = MAX_INTERRUPT_SOURCES
                               THEN NoWalk
                               ELSE [id |-> walk.id, status |-> walk.status \ s.mask,
                                     i |-> walk.i + 1]
    <2>1. PICK s \in Sources :
                  /\ EntryOf(walk.i, s) /\ s.id = walk.id
                  /\ walk.status \cap s.mask # {}
                  /\ Used(walk.i)
                  /\ called' = <<s, gs_interrupt_sources[walk.i].handler>>
                  /\ walk' = IF walk.status \ s.mask = {}
                                \/ walk.i + 1 = MAX_INTERRUPT_SOURCES
                               THEN NoWalk
                               ELSE [id |-> walk.id, status |-> walk.status \ s.mask,
                                     i |-> walk.i + 1]
      BY <1>6
    <2>2. walk.i \in Complete(s)
      BY <1>1, <2>1 DEF Complete, Used
    <2>3. HandlerOf[s] = gs_interrupt_sources[walk.i].handler /\ HandlerOf[s] # NULL
      BY <1>3, <2>2 DEF HandlersOfEntries
    <2>4. s \in Raised
      BY <2>1, <2>3, RaisedIs DEF Awaited
    <2>5. ASSUME NEW t \in Sources, t # s, HandlerOf[t] # NULL
          PROVE  Awaited(t)' = Awaited(t)
      <3>1. CASE walk' # NoWalk
        <4>1. walk'.id = walk.id /\ walk'.status = walk.status \ s.mask
          BY <2>1, <3>1
        <4>2. t.id = s.id => t.mask \cap s.mask = {}
          BY <2>5
        <4> QED
          BY <1>1, <2>1, <4>1, <4>2 DEF Awaited
      <3>2. CASE walk' = NoWalk
        <4>1. walk'.status = {}
          BY <1>5, <3>2
        <4>2. ~(walk.id = t.id /\ walk.status \cap t.mask # {})
          <5> SUFFICES ASSUME walk.id = t.id, walk.status \cap t.mask # {} PROVE FALSE
            OBVIOUS
          <5>1. t.mask \cap s.mask = {}
            BY <2>1, <2>5
          <5>2. walk.i + 1 = MAX_INTERRUPT_SOURCES
            <6>1. walk.status \ s.mask # {}
              BY <5>1
            <6>2. [id |-> walk.id, status |-> walk.status \ s.mask,
                   i |-> walk.i + 1] # NoWalk
              BY <6>1 DEF NoWalk
            <6> QED
              BY <2>1, <3>2, <6>1, <6>2
          <5>3. PICK k \in Index : EntryOf(k, t) /\ k >= walk.i
            BY <1>4, <2>5
          <5>4. k = walk.i
            BY <1>1, <5>2, <5>3 DEF Index
          <5>5. s = t
            BY <2>1, <5>3, <5>4, SourceType DEF EntryOf
          <5> QED
            BY <2>5, <5>5
        <4> QED
          BY <1>1, <4>1, <4>2 DEF Awaited
      <3> QED
        BY <3>1, <3>2
    <2>6. Raised' = Raised \/ Raised' = Raised \ {s}
      BY <1>2, <2>4, <2>5, RaisedIs
    <2>7. called' = <<s, HandlerOf[s]>>
      BY <2>1, <2>3
    <2>8. Raised' \in {Raised, Raised \ {s}}
      BY <2>6
    <2> QED
      BY <1>1, <1>2, <2>4, <2>7, <2>8 DEF Promise!Call
  <1>7. CASE /\ \A s \in Sources : EntryOf(walk.i, s) /\ s.id = walk.id
                                      => walk.status \cap s.mask = {}
             /\ called' = Nothing
             /\ walk' = IF walk.i + 1 = MAX_INTERRUPT_SOURCES THEN NoWalk
                        ELSE [id |-> walk.id, status |-> walk.status,
                              i |-> walk.i + 1]
    <2>1. ASSUME NEW t \in Sources, HandlerOf[t] # NULL PROVE Awaited(t)' = Awaited(t)
      <3>1. CASE walk.i + 1 # MAX_INTERRUPT_SOURCES
        <4>1. walk'.id = walk.id /\ walk'.status = walk.status
          BY <1>7, <3>1
        <4> QED
          BY <1>1, <4>1 DEF Awaited
      <3>2. CASE walk.i + 1 = MAX_INTERRUPT_SOURCES
        <4>1. walk'.status = {}
          BY <1>5, <1>7, <3>2
        <4>2. ~(walk.id = t.id /\ walk.status \cap t.mask # {})
          <5> SUFFICES ASSUME walk.id = t.id, walk.status \cap t.mask # {} PROVE FALSE
            OBVIOUS
          <5>1. PICK k \in Index : EntryOf(k, t) /\ k >= walk.i
            BY <1>4, <2>1
          <5>2. k = walk.i
            BY <1>1, <3>2, <5>1 DEF Index
          <5> QED
            BY <1>7, <5>1, <5>2
        <4> QED
          BY <1>1, <4>1, <4>2 DEF Awaited
      <3> QED
        BY <3>1, <3>2
    <2>2. Raised' = Raised
      BY <1>2, <2>1, RaisedIs
    <2>3. CASE called = Nothing
      BY <1>1, <1>2, <1>7, <2>2, <2>3 DEF Promise!vars
    <2>4. CASE called # Nothing
      BY <1>1, <1>2, <1>7, <2>2, <2>4 DEF Promise!Return, Promise!Nothing, Nothing
    <2> QED
      BY <2>3, <2>4
  <1> QED
    BY <1>6, <1>7, WalkTurn

LEMMA WalkDoneMaps == WalkDone => Promise!Return
  <1> SUFFICES ASSUME WalkDone PROVE Promise!Return
    OBVIOUS
  <1>1. called # Nothing /\ called' = Nothing
        /\ UNCHANGED <<gs_interrupt_sources, isr, imr, walk, priorities>>
    BY DEF WalkDone, table
  <1>2. HandlerOf' = HandlerOf /\ EnabledSources' = EnabledSources
    BY <1>1, SameHandlers DEF EnabledSources, Enabled
  <1>3. Raised' = Raised
    BY <1>1, <1>2 DEF Raised
  <1> QED
    BY <1>1, <1>2, <1>3 DEF Promise!Return, Promise!Nothing, Nothing

LEMMA InitMaps == Init => Promise!Init
  <1> SUFFICES ASSUME Init PROVE Promise!Init
    OBVIOUS
  <1>1. \A s \in Sources : Complete(s) = {}
    BY SourceType DEF Init, Complete, EntryOf, Zero
  <1>2. HandlerOf = [s \in Sources |-> NULL]
    BY <1>1 DEF HandlerOf
  <1>3. EnabledSources = {}
    BY SourceType DEF Init, EnabledSources, Enabled
  <1>4. Raised = {}
    BY <1>2 DEF Raised
  <1> QED
    BY <1>2, <1>3, <1>4 DEF Init, Promise!Init, Promise!Nothing, Nothing

\* pio_handler.c keeps its promise to whoever defines a handler, for any number
\* of sources and entries.
THEOREM PinHandlersImplemented == Spec => ImplementsPinHandlers
  <1>1. PioInv /\ [Next]_vars => [Promise!Next]_(Promise!vars)
    <2> SUFFICES ASSUME PioInv, [Next]_vars
                 PROVE  Promise!Next \/ UNCHANGED Promise!vars
      OBVIOUS
    <2>1. CASE SetHandler \/ CountSource \/ UNCHANGED vars
      BY <2>1, QuietStep DEF SetHandler, CountSource, vars, table
    <2>2. CASE WriteId \/ WriteMask
      BY <2>2, FillIsQuiet
    <2>3. CASE WriteHandler
      BY <2>3, WriteHandlerDefines DEF Promise!Next
    <2>4. CASE EnableInterrupt \/ DisableInterrupt
      BY <2>4, MasksMap DEF Promise!Next
    <2>5. CASE SetPriority
      BY <2>5, PriorityMaps DEF Promise!Next
    <2>6. CASE Edge
      BY <2>6, EdgeMaps DEF Promise!Next
    <2>7. ASSUME NEW id \in Ids, Dispatch(id) PROVE UNCHANGED Promise!vars
      BY <2>7, DispatchIsQuiet
    <2>8. CASE Walk
      BY <2>8, WalkMaps DEF Promise!Next
    <2>9. CASE WalkDone
      BY <2>9, WalkDoneMaps DEF Promise!Next
    <2> QED
      BY <2>1, <2>2, <2>3, <2>4, <2>5, <2>6, <2>7, <2>8, <2>9 DEF Next
  <1> QED
    BY <1>1, InitMaps, PioInvariant, PTL DEF Spec, ImplementsPinHandlers, Promise!Spec
=============================================================================
