--------------------------- MODULE CommandExchange ---------------------------
(***************************************************************************)
(* What write_wifi_command() promises its caller (the comment above it,    *)
(* wifi.c:248): it "waits either for an acknowledgment or a timeout".      *)
(* A command is issued, and control comes back only once the module has    *)
(* acknowledged that very command or the command's whole timeout elapsed.  *)
(***************************************************************************)
EXTENDS Naturals

CONSTANTS Limits,        \* the timeouts a command may have
          MaxCommands    \* bound: commands issued in one behaviour

VARIABLES phase,      \* "idle" or "waiting"
          issued,     \* number of commands issued: the last one is current
          acked,      \* the current command has been acknowledged
          elapsed,    \* ticks since it was issued
          limit       \* its timeout

vars == <<phase, issued, acked, elapsed, limit>>

Init == phase = "idle" /\ issued = 0 /\ acked = FALSE /\ elapsed = 0 /\ limit = 0

Issue ==
    /\ phase = "idle" /\ issued < MaxCommands
    /\ phase' = "waiting"
    /\ issued' = issued + 1
    /\ acked' = FALSE
    /\ elapsed' = 0
    /\ limit' \in Limits

Elapse ==
    /\ phase = "waiting" /\ elapsed < limit
    /\ elapsed' = elapsed + 1
    /\ UNCHANGED <<phase, issued, acked, limit>>

Acknowledge ==
    /\ phase = "waiting" /\ ~acked
    /\ acked' = TRUE
    /\ UNCHANGED <<phase, issued, elapsed, limit>>

Return ==
    /\ phase = "waiting"
    /\ acked \/ elapsed >= limit
    /\ phase' = "idle" /\ acked' = FALSE /\ elapsed' = 0 /\ limit' = 0
    /\ UNCHANGED issued

Next == Issue \/ Elapse \/ Acknowledge \/ Return

Spec == Init /\ [][Next]_vars
=============================================================================
