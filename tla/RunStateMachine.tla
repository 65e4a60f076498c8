-------------------------- MODULE RunStateMachine --------------------------
(***************************************************************************)
(* The states of a sourcing run and the transitions the program accepts:    *)
(* RunState, ALLOWED_TRANSITIONS and transition_run of                      *)
(* src/backend/app/sourcing/state_machine.py, and the two state sets that   *)
(* src/backend/app/sourcing/service.py derives from them.                   *)
(***************************************************************************)

AllowedTransitions ==
  [queued          |-> {"sourcing", "cancelled", "failed"},
   sourcing        |-> {"matching", "partially_ready", "cancelled", "failed"},
   matching        |-> {"enriching", "partially_ready", "cancelled", "failed"},
   enriching       |-> {"ready", "partially_ready", "cancelled", "failed"},
   partially_ready |-> {"enriching", "ready", "cancelled", "failed"},
   ready           |-> {},
   cancelled       |-> {},
   failed          |-> {}]

RunStates == {"queued", "sourcing", "matching", "enriching",
              "partially_ready", "ready", "cancelled", "failed"}

TerminalStates == {"ready", "cancelled", "failed"}

ActiveStates == RunStates \ TerminalStates

\* transition_run raises InvalidTransition when this is false; no state is
\* its own successor.
CanMove(current, target) == target \in AllowedTransitions[current]
=============================================================================
