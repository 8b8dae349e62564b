----------------------------- MODULE PioHandler -----------------------------
(***************************************************************************)
(* pio_handler.c: the table of interrupt sources, which the main program   *)
(* fills one field at a time while the controllers' interrupts may come,   *)
(* and the dispatcher that walks over it.                                  *)
(*                                                                         *)
(* A source is a set of pins of one controller, the mask.  The interrupts  *)
(* of all controllers have the same priority: one dispatcher runs at a     *)
(* time, and no statement of the main program runs meanwhile.  How a pin   *)
(* detects edges (ul_attr, pio_configure_interrupt()) is left out: Edge is *)
(* a detected one.  So is the capture handler, which no program code sets. *)
(***************************************************************************)
EXTENDS Naturals, FiniteSets

CONSTANTS MAX_INTERRUPT_SOURCES,
          Sources,        \* the sources that callers define
          Handlers,
          NULL,
          MaxPriority     \* bound: calls of pio_handler_set_priority()

\* Different sources share no pin, as in this program: one source per pin.
ASSUME PioHandlerAssumption ==
    /\ MAX_INTERRUPT_SOURCES \in Nat \ {0}
    /\ NULL \notin Handlers
    /\ MaxPriority \in Nat
    /\ Sources \subseteq [id : Nat, mask : (SUBSET Nat) \ {{}}]
    /\ \A s, t \in Sources : s # t /\ s.id = t.id => s.mask \cap t.mask = {}

VARIABLES
    gs_interrupt_sources, gs_ul_nb_sources,
    pc, i, source, p_handler,  \* pio_handler_set(): place, index, arguments
    isr, imr,                  \* pins of each controller: edges seen, enabled
    walk,                      \* pio_handler_process(): controller, status, i
    (* history *)
    called,                    \* the call of a handler being made
    priorities

table   == <<gs_interrupt_sources, gs_ul_nb_sources>>
setCall == <<pc, i, source, p_handler>>
vars    == <<table, setCall, isr, imr, walk, called, priorities>>

Index   == 0 .. MAX_INTERRUPT_SOURCES - 1
Zero    == [id |-> 0, mask |-> {}, handler |-> NULL]
NoWalk  == [id |-> 0, status |-> {}, i |-> 0]
Nothing == <<>>
Ids     == {s.id : s \in Sources}

Init ==
    /\ gs_interrupt_sources = [k \in Index |-> Zero] /\ gs_ul_nb_sources = 0
    /\ pc = "idle" /\ i = 0 /\ source \in Sources /\ p_handler \in Handlers
    /\ isr = [id \in Ids |-> {}] /\ imr = [id \in Ids |-> {}]
    /\ walk = NoWalk /\ called = Nothing /\ priorities = 0

-----------------------------------------------------------------------------
(* The main program: it runs while no dispatcher does. *)

Main == walk = NoWalk
Idle == Main /\ pc = "idle"

EntryOf(k, s) == /\ gs_interrupt_sources[k].id = s.id
                 /\ gs_interrupt_sources[k].mask = s.mask

\* The entry the source has, among those in use and the one after them, which
\* is zero; one past that if it has none.
Entry(s) ==
    LET Found == {k \in 0 .. gs_ul_nb_sources : EntryOf(k, s)}
    IN  IF Found = {} THEN gs_ul_nb_sources + 1
        ELSE CHOOSE k \in Found : \A j \in Found : k <= j

\* The index of pSource after the loop.
Slot == IF i = gs_ul_nb_sources + 1 THEN gs_ul_nb_sources ELSE i

\* With the table full it returns 1, even for a source that has an entry.
SetHandler ==
    /\ Idle /\ gs_ul_nb_sources < MAX_INTERRUPT_SOURCES
    /\ \E s \in Sources, h \in Handlers :
          source' = s /\ p_handler' = h /\ i' = Entry(s)
    /\ pc' = "id"
    /\ UNCHANGED <<table, isr, imr, walk, called, priorities>>

Fill(from, to, entry) ==
    /\ Main /\ pc = from /\ pc' = to
    /\ gs_interrupt_sources' = [gs_interrupt_sources EXCEPT ![Slot] = entry]
    /\ UNCHANGED <<gs_ul_nb_sources, i, source, p_handler, isr, imr, walk,
                   called, priorities>>

pSource      == gs_interrupt_sources[Slot]
WriteId      == Fill("id", "mask", [pSource EXCEPT !.id = source.id])
WriteMask    == Fill("mask", "handler", [pSource EXCEPT !.mask = source.mask])
WriteHandler == Fill("handler", "count", [pSource EXCEPT !.handler = p_handler])

CountsAlways ==
    /\ Main /\ pc = "count"
    /\ gs_ul_nb_sources' = gs_ul_nb_sources + 1
    /\ pc' = "idle" /\ i' = 0
    /\ UNCHANGED <<gs_interrupt_sources, source, p_handler, isr, imr, walk,
                   called, priorities>>

\* A new source is counted; pio_handler_set() returns 0.
CountSource ==
    /\ Main /\ pc = "count"
    /\ gs_ul_nb_sources' = IF i = gs_ul_nb_sources + 1
                             THEN gs_ul_nb_sources + 1 ELSE gs_ul_nb_sources
    /\ pc' = "idle" /\ i' = 0
    /\ UNCHANGED <<gs_interrupt_sources, source, p_handler, isr, imr, walk,
                   called, priorities>>

InTable(s) == \E k \in Index : k < gs_ul_nb_sources /\ EntryOf(k, s)
Full == gs_ul_nb_sources = MAX_INTERRUPT_SOURCES

EnableInterruptEarly ==
    /\ Main
    /\ \E s \in Sources : imr' = [imr EXCEPT ![s.id] = @ \cup s.mask]
    /\ UNCHANGED <<table, setCall, isr, walk, called, priorities>>

\* pio_enable_interrupt(): after pio_handler_set() has returned, whatever it
\* returned.
EnableInterrupt ==
    /\ Idle
    /\ \E s \in Sources :
          /\ InTable(s) \/ Full
          /\ imr' = [imr EXCEPT ![s.id] = @ \cup s.mask]
    /\ UNCHANGED <<table, setCall, isr, walk, called, priorities>>

DisableInterrupt ==
    /\ Idle
    /\ \E s \in Sources : imr' = [imr EXCEPT ![s.id] = @ \ s.mask]
    /\ UNCHANGED <<table, setCall, isr, walk, called, priorities>>

\* pio_handler_set_priority(): the read of the status between saving the mask
\* and restoring it loses what is pending for the controller.
SetPriority ==
    /\ Idle /\ priorities < MaxPriority
    /\ \E id \in Ids : isr' = [isr EXCEPT ![id] = {}]
    /\ priorities' = priorities + 1
    /\ UNCHANGED <<table, setCall, imr, walk, called>>

-----------------------------------------------------------------------------
(* Interrupts. *)

\* An edge sets its bit whether or not the interrupt is enabled (external).
Edge ==
    /\ \E s \in Sources : \E pin \in s.mask :
          isr' = [isr EXCEPT ![s.id] = @ \cup {pin}]
    /\ UNCHANGED <<table, setCall, imr, walk, called, priorities>>

\* PIOx_Handler(): reading the status clears the bits of all pins, those of
\* the disabled ones included.
Dispatch(id) ==
    /\ Main /\ isr[id] \cap imr[id] # {}
    /\ walk' = [id |-> id, status |-> isr[id] \cap imr[id], i |-> 0]
    /\ isr' = [isr EXCEPT ![id] = {}]
    /\ UNCHANGED <<table, setCall, imr, called, priorities>>

KeepsStatus ==
    LET entry == gs_interrupt_sources[walk.i]
        hit == entry.id = walk.id /\ walk.status \cap entry.mask # {}
    IN  /\ walk # NoWalk
        /\ walk' = IF walk.i + 1 = MAX_INTERRUPT_SOURCES THEN NoWalk
                   ELSE [walk EXCEPT !.i = @ + 1]
        /\ called' = IF hit THEN <<[id |-> entry.id, mask |-> entry.mask],
                                   entry.handler>> ELSE Nothing
        /\ UNCHANGED <<table, setCall, isr, imr, priorities>>

StaysAtOthers ==
    LET entry == gs_interrupt_sources[walk.i]
        hit == entry.id = walk.id /\ walk.status \cap entry.mask # {}
        left == IF hit THEN walk.status \ entry.mask ELSE walk.status
    IN  /\ walk # NoWalk
        /\ walk' = IF left = {} \/ walk.i + 1 = MAX_INTERRUPT_SOURCES THEN NoWalk
                   ELSE [walk EXCEPT !.status = left,
                                     !.i = IF entry.id = walk.id THEN @ + 1 ELSE @]
        /\ called' = IF hit THEN <<[id |-> entry.id, mask |-> entry.mask],
                                   entry.handler>> ELSE Nothing
        /\ UNCHANGED <<table, setCall, isr, imr, priorities>>

\* One turn of the loop of pio_handler_process(), over all the entries, in use
\* or not, until the status is 0.
Walk ==
    LET entry == gs_interrupt_sources[walk.i]
        hit == entry.id = walk.id /\ walk.status \cap entry.mask # {}
        left == IF hit THEN walk.status \ entry.mask ELSE walk.status
    IN  /\ walk # NoWalk
        /\ walk' = IF left = {} \/ walk.i + 1 = MAX_INTERRUPT_SOURCES THEN NoWalk
                   ELSE [id |-> walk.id, status |-> left, i |-> walk.i + 1]
        /\ called' = IF hit THEN <<[id |-> entry.id, mask |-> entry.mask],
                                   entry.handler>> ELSE Nothing
        /\ UNCHANGED <<table, setCall, isr, imr, priorities>>

\* The last handler of a walk returns.
WalkDone ==
    /\ Main /\ called # Nothing /\ called' = Nothing
    /\ UNCHANGED <<table, setCall, isr, imr, walk, priorities>>

Next ==
    \/ SetHandler \/ WriteId \/ WriteMask \/ WriteHandler \/ CountSource
    \/ EnableInterrupt \/ DisableInterrupt \/ SetPriority
    \/ Edge \/ (\E id \in Ids : Dispatch(id)) \/ Walk \/ WalkDone

Spec == Init /\ [][Next]_vars

\* A dispatcher that runs goes on.  Edges come milliseconds apart and a walk
\* takes microseconds, so those of one controller do not shut out another.
FairSpec == Spec /\ WF_vars(Walk) /\ \A id \in Ids : SF_vars(Dispatch(id))

-----------------------------------------------------------------------------
TypeOK ==
    /\ gs_interrupt_sources \in
          [Index -> [id : Nat, mask : SUBSET Nat, handler : {NULL} \cup Handlers]]
    /\ gs_ul_nb_sources \in 0 .. MAX_INTERRUPT_SOURCES
    /\ pc \in {"idle", "id", "mask", "handler", "count"}
    /\ i \in 0 .. MAX_INTERRUPT_SOURCES
    /\ source \in Sources /\ p_handler \in Handlers
    /\ isr \in [Ids -> SUBSET Nat] /\ imr \in [Ids -> SUBSET Nat]
    /\ walk \in [id : Nat, status : SUBSET Nat, i : Index]
    /\ called \in {Nothing} \cup (Sources \X (Handlers \cup {NULL}))
    /\ priorities \in 0 .. MaxPriority

\* An entry in use.
Used(k) ==
    /\ gs_interrupt_sources[k].handler \in Handlers
    /\ [id |-> gs_interrupt_sources[k].id, mask |-> gs_interrupt_sources[k].mask]
          \in Sources

\* The entry pio_handler_set() has yet to complete: what it wrote so far.
InProgress(k) ==
    /\ gs_interrupt_sources[k].id =
          IF pc \in {"mask", "handler", "count"} THEN source.id ELSE 0
    /\ gs_interrupt_sources[k].mask =
          IF pc \in {"handler", "count"} THEN source.mask ELSE {}
    /\ gs_interrupt_sources[k].handler =
          IF pc = "count" THEN p_handler ELSE NULL

\* The entries in use are complete and no source has two; those behind them
\* are zero, which is what pio_handler_set() relies on when it looks one
\* entry past those in use, but for the one that it is filling.
TableInv ==
    /\ \A k \in Index : k < gs_ul_nb_sources => Used(k)
    /\ \A j, k \in Index :
          j < k /\ k < gs_ul_nb_sources
             => \/ gs_interrupt_sources[j].id # gs_interrupt_sources[k].id
                \/ gs_interrupt_sources[j].mask # gs_interrupt_sources[k].mask
    /\ \A k \in Index : k > gs_ul_nb_sources => gs_interrupt_sources[k] = Zero
    /\ pc = "idle" => \A k \in Index :
          k >= gs_ul_nb_sources => gs_interrupt_sources[k] = Zero
    /\ pc # "idle" =>
          /\ gs_ul_nb_sources < MAX_INTERRUPT_SOURCES
          /\ \/ /\ i = gs_ul_nb_sources + 1
                /\ ~InTable(source) /\ InProgress(gs_ul_nb_sources)
             \/ /\ i < gs_ul_nb_sources
                /\ EntryOf(i, source)
                /\ gs_interrupt_sources[gs_ul_nb_sources] = Zero

Enabled(s) == s.mask \subseteq imr[s.id]

\* Only sources whose pio_handler_set() has returned are enabled, all pins of one
\* together; a dispatcher handles none but those, and is done with the sources of
\* the entries it has passed.
EnabledInv ==
    /\ \A s \in Sources : IF Enabled(s) THEN InTable(s) \/ Full
                          ELSE imr[s.id] \cap s.mask = {}
    /\ walk # NoWalk =>
          /\ walk.id \in Ids /\ walk.status # {}
          /\ walk.status \subseteq imr[walk.id]
          /\ \A s \in Sources : walk.id = s.id /\ walk.status \cap s.mask # {}
                => \A k \in Index : k < walk.i => ~EntryOf(k, s)

\* What makes NoNullCall and the refinement inductive.
PioInv == TypeOK /\ TableInv /\ EnabledInv

\* No walk calls a handler that is not there, wherever in pio_handler_set() the
\* main program was interrupted.
NoNullCall ==
    walk # NoWalk =>
        LET entry == gs_interrupt_sources[walk.i]
        IN  entry.id = walk.id /\ walk.status \cap entry.mask # {}
               => entry.handler # NULL

-----------------------------------------------------------------------------
(* The refinement. *)

Complete(s) ==
    {k \in Index : EntryOf(k, s) /\ gs_interrupt_sources[k].handler # NULL}

\* A source has the handler of its entry from the write of that field on.
HandlerOf ==
    [s \in Sources |-> IF Complete(s) = {} THEN NULL
                       ELSE gs_interrupt_sources[CHOOSE k \in Complete(s) : TRUE].handler]

Raised ==
    {s \in Sources :
        /\ HandlerOf[s] # NULL
        /\ \/ s.mask \cap isr[s.id] \cap imr[s.id] # {}
           \/ walk.id = s.id /\ walk.status \cap s.mask # {}}

EnabledSources == {s \in Sources : Enabled(s)}

Promise == INSTANCE PinHandlers WITH
    handler <- HandlerOf,
    enabled <- EnabledSources,
    raised  <- Raised,
    Limit   <- MAX_INTERRUPT_SOURCES

\* pio_handler.c keeps the promise of its comments: each detected interrupt of a
\* defined source leads to one call of its handler, none is dropped by a walk
\* and none made up, whatever the order of the entries.
ImplementsPinHandlers == Promise!Spec

\* ... and none waits for ever: it is handled unless its interrupt is disabled
\* or its status is discarded first.
InterruptHandled ==
    \A s \in Sources :
        (s \in Raised) ~> (s \notin Raised \/ (called # Nothing /\ called[1] = s))
=============================================================================
