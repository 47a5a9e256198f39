------------------------------ MODULE UnitMachine ------------------------------
(***************************************************************************)
(* The lifecycle machine of internal/core/unit/machine.go: the state one   *)
(* incarnation of a unit is in, concluded from inputs and never assigned.  *)
(* It is a pure function of the machine and one input, so this module has  *)
(* no variables: Supervisor and UnitLife apply it.                         *)
(*                                                                         *)
(* A unit's condition (Reported) is its own account beside the state.  It  *)
(* moves nothing, so the machine is modelled without it.                   *)
(***************************************************************************)

Kinds == {"plugin", "oneshot", "interface"}

TerminalStates == {"Completed", "Stopped", "Failed", "Refused"}
States == {"Starting", "Admitted", "Running"} \cup TerminalStates

Terminal(state) == state \in TerminalStates

(* The inputs.  ProcessExited is split by what it reads of its status, and *)
(* SessionEnded by whether a decision withdrew the Session.                *)
Inputs == {"ProcessStarted", "ExitedZero", "ExitedNonzero", "LaunchFailed",
           "WindowElapsed", "StopAsked", "AdmissionAccepted",
           "AdmissionDeclined", "AdmissionWithdrawn", "SessionOpened",
           "SessionLost", "SessionWithdrawn"}

Machines == [state : States, asked : BOOLEAN]

NewMachine == [state |-> "Starting", asked |-> FALSE]
Skipped    == [state |-> "Completed", asked |-> FALSE]
DeclinedAsItsOwnState == [state |-> "Declined", asked |-> FALSE] \* mutant
Declined   == [state |-> "Refused", asked |-> FALSE]

(* Mutants of Exited: a oneshot completes whatever its status; an exit     *)
(* before the Session opens is not concluded.                              *)
ExitedAnyStatus(kind, m, zero) ==
    IF m.asked THEN "Stopped"
    ELSE IF kind = "oneshot" /\ m.state = "Running" THEN "Completed"
    ELSE "Failed"
ExitedWhileAdmitted(kind, m, zero) ==
    IF m.asked THEN "Stopped"
    ELSE IF kind = "oneshot" /\ m.state = "Running" /\ zero THEN "Completed"
    ELSE IF m.state = "Admitted" THEN "Admitted" ELSE "Failed"

(* Where an exit leaves a machine: who ended it decides before how. *)
Exited(kind, m, zero) ==
    IF m.asked THEN "Stopped"
    ELSE IF kind = "oneshot" /\ m.state = "Running" /\ zero THEN "Completed"
    ELSE "Failed"

(* Where an input leaves a machine that is not terminal. *)
Weighed(kind, m, in) ==
    CASE in = "ProcessStarted" /\ kind # "plugin" /\ m.state = "Starting"
           -> "Running"
      [] in = "ExitedZero"    -> Exited(kind, m, TRUE)
      [] in = "ExitedNonzero" -> Exited(kind, m, FALSE)
      [] in \in {"LaunchFailed", "WindowElapsed"} /\ m.state = "Starting"
           -> "Failed"
      [] in = "AdmissionAccepted" /\ kind = "plugin" /\ m.state = "Starting"
           -> "Admitted"
      [] in = "AdmissionDeclined" /\ kind = "plugin" /\ m.state = "Starting"
           -> "Refused"
      [] in = "AdmissionWithdrawn" /\ kind = "plugin"
           /\ m.state \in {"Admitted", "Running"}
           -> "Refused"
      [] in = "SessionOpened" /\ kind = "plugin" /\ m.state = "Admitted"
           -> "Running"
      [] in = "SessionLost" /\ kind = "plugin" /\ m.state = "Running"
           -> IF m.asked THEN "Stopped" ELSE "Failed"
      [] in = "SessionWithdrawn" /\ kind = "plugin" /\ m.state = "Running"
           -> IF m.asked THEN "Stopped" ELSE "Refused"
      [] OTHER -> m.state

Apply(kind, m, in) ==
    IF Terminal(m.state) THEN m
    ELSE [state |-> Weighed(kind, m, in),
          asked |-> m.asked \/ in = "StopAsked"]

(* Whether the restart policy launches a unit again after that state. *)
Restarts(kind, state, onFailure) ==
    state = "Failed" /\ (kind # "oneshot" \/ onFailure)

(* Whether a state is readiness, by the definition the kind fixes. *)
Ready(kind, state) ==
    IF kind = "oneshot" THEN state = "Completed" ELSE state = "Running"

================================================================================
