-------------------------------- MODULE UnitLife --------------------------------
(***************************************************************************)
(* What the supervisor promises about the states of the units, with no     *)
(* process, container, timer or mutex in sight.  A unit's state moves      *)
(* along the diagram its kind fixes, by one input at a time; a terminal    *)
(* state is left by a new attempt alone; and an attempt is owed to a unit  *)
(* for one of three reasons: it was held for the first time and has been   *)
(* released, an operator asked for it, or it is Failed and the policy      *)
(* restarts it.  Supervisor implements it on the host (LifecycleKept).     *)
(***************************************************************************)
EXTENDS UnitMachine, FiniteSets

CONSTANTS Units, Kind, DependsOn, OnFailure, Skips

VARIABLES state,    \* the state of each unit
          held,     \* the units not launched yet, held on their dependencies
          awaiting, \* the dependencies each held unit still waits for
          owed,     \* the units an attempt is owed to
          started   \* the units an operator has asked to start

promised == <<state, held, awaiting, owed, started>>

Init ==
    /\ state = [u \in Units |-> "Starting"]
    /\ held = {u \in Units : DependsOn[u] # {}}
    /\ awaiting = DependsOn
    /\ owed = Units \ held
    /\ started = {}

(* The states one input leads to, by the diagram of the unit's kind. *)
Successors(u) ==
    {Weighed(Kind[u], [state |-> state[u], asked |-> asked], in) :
        asked \in BOOLEAN, in \in Inputs}

(* The states an attempt leaves a unit in: launched, failed to be, and for *)
(* a Plugin unit declined, for a oneshot skipped.                          *)
Attempted(u) ==
    {"Starting", "Failed"}
      \cup (IF Kind[u] = "plugin" THEN {"Refused"} ELSE {"Running"})
      \cup (IF u \in Skips THEN {"Completed"} ELSE {})

(* A unit that becomes ready is waited for no longer, and the units that   *)
(* wait for nothing else are released: an attempt is owed to each.  Once   *)
(* the instance stops, none is.                                            *)
Releases(u, pending) ==
    LET readied == state'[u] # state[u] /\ Ready(Kind[u], state'[u])
    IN /\ awaiting' = IF readied THEN [h \in Units |-> awaiting[h] \ {u}]
                      ELSE awaiting
       /\ \E freed \in {{}, {h \in held \ {u} : awaiting'[h] = {}}} :
            /\ freed # {} => readied
            /\ held' = held \ freed
            /\ owed' = pending \cup freed

Move(u) ==
    /\ ~Terminal(state[u])
    /\ \E s \in Successors(u) : state' = [state EXCEPT ![u] = s]
    /\ Releases(u, owed)
    /\ UNCHANGED started

Begin(u) ==
    /\ u \in owed
    /\ \E s \in Attempted(u) : state' = [state EXCEPT ![u] = s]
    /\ Releases(u, owed \ {u})
    /\ UNCHANGED started

(* Declined where it waits for its next attempt. *)
Decline(u) ==
    /\ Kind[u] = "plugin" /\ Terminal(state[u])
    /\ state' = [state EXCEPT ![u] = "Refused"]
    /\ UNCHANGED <<held, awaiting, owed, started>>

GiveUp(u) ==
    /\ u \in held
    /\ held' = held \ {u}
    /\ awaiting' = [awaiting EXCEPT ![u] = {}]
    /\ UNCHANGED <<state, owed, started>>

AskStart(u) ==
    /\ started' = started \cup {u}
    /\ UNCHANGED <<state, held, awaiting, owed>>

Owe(u) ==
    /\ \/ u \in started
       \/ Restarts(Kind[u], state[u], u \in OnFailure)
    /\ owed' = owed \cup {u}
    /\ started' \in {started, started \ {u}}
    /\ UNCHANGED <<state, held, awaiting>>

LeaveAsItIs(u) ==
    /\ started' = started \ {u}
    /\ UNCHANGED <<state, held, awaiting, owed>>

Next == \E u \in Units :
    \/ Move(u) \/ Begin(u) \/ Decline(u) \/ GiveUp(u)
    \/ AskStart(u) \/ Owe(u) \/ LeaveAsItIs(u)

Spec == Init /\ [][Next]_promised
================================================================================
