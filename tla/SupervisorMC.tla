------------------------------ MODULE SupervisorMC ------------------------------
(* Instances of Supervisor for TLC: the deployments its configurations     *)
(* name.                                                                   *)
EXTENDS Supervisor

CONSTANTS a, b, c, d

(* One plugin, or one migration, for the runs about one unit. *)
OnePlugin  == [u \in {a} |-> "plugin"]
OneOneshot == [u \in {a} |-> "oneshot"]
Alone      == [u \in {a} |-> {}]

(* A migration that was applied before, the one after it, what needs that  *)
(* one, and what needs both of these.                                       *)
FourUnits == [u \in {a, b, c, d} |-> IF u = b THEN "interface"
                                     ELSE IF u = c THEN "plugin" ELSE "oneshot"]
Layered   == [u \in {a, b, c, d} |-> IF u = d THEN {}
                                     ELSE IF u = a THEN {d}
                                     ELSE IF u = b THEN {a} ELSE {a, b}]

(* CONSTRAINT: an operator restarts the interface alone, once everything   *)
(* was launched: Stop may begin anywhere in what that takes.               *)
RestartsOne ==
    \A o \in Operators :
        call[o] # Idle => /\ call[o].unit = b /\ call[o].op = "restart"
                          /\ Len(order) = Cardinality(Units)

(* ACTION_CONSTRAINT: who asks for a unit asks before Stop begins, served  *)
(* before it, in it or after it.  Asked for without end, a start that is   *)
(* declined would keep the mutex from those that fairness gives it to.     *)
AsksBeforeStop ==
    stopping => \A o \in Operators : call[o] = Idle => call'[o] = Idle

(* All that a hold needs to end: attempts are made, and its timer runs out. *)
HoldSpec == Spec /\ \A u \in Units : WF_vars(Attempt(u)) /\ WF_vars(NeverArrived(u))
================================================================================
