----------------------------- MODULE PinHandlers -----------------------------
(***************************************************************************)
(* What pio_handler.c promises its callers (the comments above             *)
(* pio_handler_set() and pio_handler_process()): a handler is defined for  *)
(* a source, a set of pins of one controller, and "will be called [...] as *)
(* soon as an interrupt is detected".  Each detected interrupt leads to a  *)
(* call of the handler that its source has at that time; detections that   *)
(* come before the call may share it.                                      *)
(***************************************************************************)
EXTENDS Naturals, FiniteSets

CONSTANTS Sources,        \* records of a controller's id and a set of its pins
          Handlers,       \* the handlers
          NULL,           \* no handler
          Limit,          \* sources that may be defined
          MaxPriority     \* bound: changes of an interrupt's priority

VARIABLES handler,        \* handler of each source
          enabled,        \* sources whose interrupt is enabled
          raised,         \* defined sources with an interrupt to be handled
          called,         \* the call being made
          priorities      \* changes of priority so far

vars == <<handler, enabled, raised, called, priorities>>

Nothing == <<>>
Defined == {s \in Sources : handler[s] # NULL}

Init ==
    /\ handler = [s \in Sources |-> NULL] /\ enabled = {} /\ raised = {}
    /\ called = Nothing /\ priorities = 0

\* Past the limit nothing is defined, nor defined anew.
Define ==
    /\ Cardinality(Defined) < Limit
    /\ \E s \in Sources, h \in Handlers : handler' = [handler EXCEPT ![s] = h]
    /\ UNCHANGED <<enabled, raised, called, priorities>>

\* An edge from the time when the interrupt was disabled may show now.
Enable ==
    /\ \E s \in Sources :
          /\ enabled' = enabled \cup {s}
          /\ raised' = raised \/ (s \in Defined /\ raised' = raised \cup {s})
    /\ UNCHANGED <<handler, called, priorities>>

Disable ==
    /\ \E s \in Sources : enabled' = enabled \ {s} /\ raised' = raised \ {s}
    /\ UNCHANGED <<handler, called, priorities>>

Detect ==
    /\ \E s \in enabled \cap Defined : raised' = raised \cup {s}
    /\ UNCHANGED <<handler, enabled, called, priorities>>

\* A new edge during the call calls for another one.
Call ==
    /\ \E s \in raised :
          /\ called' = <<s, handler[s]>>
          /\ raised' \in {raised, raised \ {s}}
    /\ UNCHANGED <<handler, enabled, priorities>>

Return ==
    /\ called # Nothing /\ called' = Nothing
    /\ UNCHANGED <<handler, enabled, raised, priorities>>

\* What is pending for a controller is forgotten with a change of priority.
Discard ==
    /\ priorities < MaxPriority /\ priorities' = priorities + 1
    /\ \E s \in Sources : raised' = {t \in raised : t.id # s.id}
    /\ UNCHANGED <<handler, enabled, called>>

Next == Define \/ Enable \/ Disable \/ Detect \/ Call \/ Return \/ Discard

Spec == Init /\ [][Next]_vars
=============================================================================
