--------------------------- MODULE SupervisorProofs ----------------------------
(*****************************************************************************)
(* What TLAPS proves of Supervisor, for every deployment, every number of    *)
(* operators and every bound.  SignalsTheCurrentLife, about the units it     *)
(* launches on the host, is not inductive alone: a launch in flight could    *)
(* record any life, so the invariant says besides that a unit on the host    *)
(* has none.  EndsBeforeRestarts is about every unit, on the host and in     *)
(* containers: SightInv says of each what it signals, what of its lives may  *)
(* be alive, and what a timer, a hold and an attempt find.                   *)
(*   OrderKept has two halves.  That what is launched comes after what it    *)
(* depends on, and a hold is for a reason, rests on what a release has yet   *)
(* to look at (LaunchInv).  That Stop ends them in reverse rests on a        *)
(* process being signalled by its unit or let go of by an attempt (KeptInv)  *)
(* and on where Stop is in the order (StopInv).                              *)
(*   LifecycleKept is by a step of UnitLife for every step of a unit here:   *)
(* a timer armed is one the unit's policy arms (ArmedByPolicy).              *)
(*****************************************************************************)
EXTENDS Supervisor, SequenceTheorems, TLAPS

--------------------------------------------------------------------------------
(* What the helpers return.                                                *)

(* An input leaves a machine a machine of the seven states.                *)
LEMMA WeighedType ==
    ASSUME NEW kind, NEW m \in Machines, NEW in
    PROVE  Weighed(kind, m, in) \in States
BY DEF Weighed, Exited, Machines, States, TerminalStates

LEMMA AppliedType ==
    ASSUME NEW u, NEW r \in Managed, NEW in
    PROVE  Applied(u, r, in) \in Managed
<1> DEFINE m == [state |-> r.state, asked |-> r.asked]
<1>1. m \in Machines
  BY DEF Machines, Managed
<1>2. Weighed(Kind[u], m, in) \in States
  BY <1>1, WeighedType
<1>3. Apply(Kind[u], m, in) \in Machines
  BY <1>1, <1>2 DEF Apply, Machines
<1> HIDE DEF m
<1>4. QED
  BY <1>3 DEF Applied, Managed, Machines, m

LEMMA SettledType ==
    ASSUME NEW u, NEW r \in Managed
    PROVE  Settled(u, r) \in Managed
<1> DEFINE late == IF r.timer /\ r.late < LateCap THEN r.late + 1 ELSE r.late
<1>1. late \in 0..LateCap
  <2>1. r.late \in 0..LateCap
    BY DEF Managed
  <2> QED BY <2>1, BoundsAssumption
<1>2. [r EXCEPT !.waiting = TRUE, !.timer = TRUE, !.late = late] \in Managed
  <2> HIDE DEF late
  <2> QED BY <1>1 DEF Managed
<1>3. QED
  BY <1>2 DEF Settled

LEMMA WithoutType ==
    ASSUME NEW r \in Managed, NEW m \in Machines
    PROVE  Without(r, m) \in Managed
<1>1. 0 \in LifeOrNone
  BY BoundsAssumption DEF LifeOrNone
<1>2. m.state \in States /\ m.asked \in BOOLEAN
  BY DEF Machines
<1>3. QED
  BY <1>1, <1>2 DEF Without, Managed

LEMMA FreshType ==
    ASSUME NEW r \in Managed
    PROVE  Fresh(r) \in Managed
<1>1. 0 \in LifeOrNone
  BY BoundsAssumption DEF LifeOrNone
<1>2. NewMachine.state \in States /\ NewMachine.asked \in BOOLEAN
  BY DEF NewMachine, States
<1>3. QED
  BY <1>1, <1>2 DEF Fresh, Managed

LEMMA SupersededType ==
    ASSUME NEW ls \in [Numbers -> Lives]
    PROVE  Superseded(ls) \in [Numbers -> Lives]
BY DEF Superseded, Lives

LEMMA SetLifeType ==
    ASSUME TypeOK, NEW u \in Units, NEW l \in Numbers, NEW new \in Lives,
           SetLife(u, l, new)
    PROVE  life' \in [Units -> [Numbers -> Lives]]
<1>1. [life[u] EXCEPT ![l] = new] \in [Numbers -> Lives]
  BY DEF TypeOK
<1>2. QED
  BY <1>1 DEF SetLife, TypeOK

LEMMA KilledType ==
    ASSUME NEW ls \in [Numbers -> Lives], NEW l, NEW lost
    PROVE  Killed(ls, l, lost) \in [Numbers -> Lives]
<1>1. [ls[l] EXCEPT !.proc = "killed"] \in Lives \/ l \notin Numbers
  BY DEF Lives
<1>2. QED
  BY <1>1 DEF Killed

LEMMA OverType ==
    ASSUME NEW ls \in [Numbers -> Lives], NEW l
    PROVE  Over(ls, l) \in [Numbers -> Lives]
<1>1. [ls[l] EXCEPT !.launch = "over", !.superseded = FALSE] \in Lives
        \/ l \notin Numbers
  BY DEF Lives
<1>2. QED
  BY <1>1 DEF Over

(* The end of a critical section puts records where records belong.        *)
LEMMA RecordType ==
    ASSUME TypeOK, NEW u \in Units, NEW r \in Managed,
           NEW ls \in [Numbers -> Lives], NEW rest \in SUBSET Units,
           Record(u, r, ls, rest)
    PROVE  /\ units' \in [Units -> Managed]
           /\ life' \in [Units -> [Numbers -> Lives]]
           /\ due' \subseteq Units
<1>1. units' \in [Units -> Managed]
  <2>1. ASSUME NEW x \in Units, NEW held \in BOOLEAN
        PROVE  [units[x] EXCEPT !.awaiting = @ \ {u}, !.held = held] \in Managed
    BY DEF TypeOK, Managed
  <2>2. ASSUME NEW x \in Units PROVE units[x] \in Managed
    BY DEF TypeOK
  <2>3. QED
    BY <2>1, <2>2 DEF Record
<1>2. life' \in [Units -> [Numbers -> Lives]]
  <2>1. [ls EXCEPT ![r.running].doomed = TRUE] \in [Numbers -> Lives]
    BY DEF Lives
  <2>2. QED
    BY <2>1 DEF Record, TypeOK
<1>3. due' \subseteq Units
  BY DEF Record, Freed
<1>4. QED
  BY <1>1, <1>3, <1>2

LEMMA StopGoesOnType ==
    ASSUME TypeOK, StopGoesOn
    PROVE  stop' \in [left : Seq(Units), life : LifeOrNone, pressed : BOOLEAN]
<1> DEFINE rest == SubSeq(stop.left, 1, Len(stop.left) - 1)
<1>1. stop.left \in Seq(Units) /\ Len(stop.left) \in Nat
  BY DEF TypeOK
<1>2. \A i \in 1..(Len(stop.left) - 1) : stop.left[i] \in Units
  BY <1>1
<1>3. rest \in Seq(Units)
  BY <1>1, <1>2, SubSeqProperties
<1>4. 0 \in LifeOrNone
  BY BoundsAssumption DEF LifeOrNone
<1> HIDE DEF rest
<1>5. QED
  BY <1>3, <1>4 DEF StopGoesOn, NoStop, rest

--------------------------------------------------------------------------------
(* Type correctness, by the actions of each actor.                         *)

LEMMA InitType == Init => TypeOK
<1> SUFFICES ASSUME Init PROVE TypeOK
  OBVIOUS
<1>1. 0 \in LifeOrNone /\ 0 \in 0..LateCap
  BY BoundsAssumption DEF LifeOrNone
<1>2. units \in [Units -> Managed]
  BY <1>1, UnitsAssumption DEF Init, NewUnit, Managed, States
<1>3. life \in [Units -> [Numbers -> Lives]]
  BY DEF Init, NoLife, Lives
<1>4. stop \in [left : Seq(Units), life : LifeOrNone, pressed : BOOLEAN]
  BY <1>1 DEF Init, NoStop
<1>5. call \in [Operators -> {Idle} \cup Calls]
  BY DEF Init
<1>6. order \in Seq(Units) /\ due \subseteq Units
  BY DEF Init
<1>7. disabled \subseteq Units /\ withdrawing \subseteq Units
  BY DEF Init
<1>8. QED
  BY <1>2, <1>4, <1>3, <1>5, <1>6, <1>7 DEF Init, TypeOK

(* What an attempt does to the launch order, and to what is beyond Stop.   *)
LEMMA TakenType ==
    ASSUME TypeOK, NEW u \in Units, Taken(u)
    PROVE  order' \in Seq(Units) /\ beyond' \in [Units -> SUBSET Numbers]
<1>1. order' \in Seq(Units)
  BY DEF Taken, TypeOK
<1>2. beyond[u] \cup ({units[u].running} \cap Numbers) \in SUBSET Numbers
  BY DEF TypeOK
<1>3. beyond' \in [Units -> SUBSET Numbers]
  BY <1>2 DEF Taken, TypeOK
<1> QED BY <1>1, <1>3

LEMMA AttemptType ==
    ASSUME TypeOK, NEW u \in Units, Attempt(u)
    PROVE  TypeOK'
<1> DEFINE Typed(r, ls) == r \in Managed /\ ls \in [Numbers -> Lives]
<1> USE DEF Typed
<1>1. units[u] \in Managed /\ life[u] \in [Numbers -> Lives]
  BY DEF TypeOK
<1>2. Taken(u) /\ due \ {u} \in SUBSET Units
  BY DEF TypeOK, Attempt, Skip, Decline, AttemptFaults, StartFaults, Spawn, Ask
<1>3. Skipped \in Machines /\ Declined \in Machines
  BY DEF Skipped, Declined, Machines, States, TerminalStates
<1>4. Fresh(units[u]) \in Managed
  BY <1>1, FreshType
<1>5. Superseded(life[u]) \in [Numbers -> Lives]
  BY <1>1, SupersededType
<1>6. \E r, ls : Typed(r, ls) /\ Record(u, r, ls, due \ {u})
  <2>1. CASE Skip(u)
    BY <2>1, <1>1, <1>3, WithoutType DEF Skip
  <2>2. CASE Decline(u)
    <3>1. Without(units[u], Declined) \in Managed
      BY <1>1, <1>3, WithoutType
    <3>2. DeclinedUnit(units[u]) \in Managed
      BY <3>1 DEF DeclinedUnit, Managed
    <3>3. QED
      BY <2>2, <1>1, <3>2 DEF Decline
  <2>3. CASE AttemptFaults(u)
    BY <2>3, <1>4, <1>5, AppliedType, SettledType DEF AttemptFaults, FailedLaunch
  <2>4. ASSUME units[u].lives < MaxLives
        PROVE  units[u].lives + 1 \in Numbers /\ units[u].lives + 1 \in LifeOrNone
    <3>1. units[u].lives \in 0..MaxLives
      BY <1>1 DEF Managed, LifeOrNone
    <3>2. QED
      BY <2>4, <3>1, BoundsAssumption DEF LifeOrNone, Numbers
  <2>5. CASE StartFaults(u)
    <3>1. [Fresh(units[u]) EXCEPT !.lives = units[u].lives + 1] \in Managed
      BY <2>5, <2>4, <1>4 DEF StartFaults, Managed
    <3>2. Fresh(units[u]).lives = units[u].lives
      BY <1>1 DEF Fresh, Managed
    <3>3. QED
      BY <2>5, <3>1, <3>2, <1>5, AppliedType, SettledType
      DEF StartFaults, FailedLaunch
  <2>6. CASE Spawn(u)
    <3> DEFINE n == units[u].lives + 1
               r == [Fresh(units[u]) EXCEPT !.lives = n, !.incarnation = n,
                                            !.running = n]
               new == [NoLife EXCEPT !.proc = "up", !.launch = "over",
                                     !.watch = "watched"]
    <3>1. n \in Numbers /\ n \in LifeOrNone
      BY <2>6, <2>4 DEF Spawn
    <3>2. new \in Lives
      BY DEF NoLife, Lives
    <3> HIDE DEF n, new
    <3>3. r \in Managed
      BY <3>1, <1>4 DEF Managed
    <3>4. [Superseded(life[u]) EXCEPT ![n] = new] \in [Numbers -> Lives]
      BY <3>1, <3>2, <1>5
    <3>5. Applied(u, r, "ProcessStarted") \in Managed
      BY <3>3, AppliedType
    <3>6. QED
      BY <2>6, <3>4, <3>5 DEF Spawn, n, new
  <2>7. CASE Ask(u)
    <3> DEFINE n == units[u].lives + 1
               new == [NoLife EXCEPT !.launch = "asked"]
    <3>1. n \in Numbers /\ n \in LifeOrNone
      BY <2>7, <2>4 DEF Ask
    <3>2. new \in Lives
      BY DEF NoLife, Lives
    <3> HIDE DEF n, new
    <3>3. [Fresh(units[u]) EXCEPT !.lives = n, !.incarnation = n] \in Managed
      BY <3>1, <1>4 DEF Managed
    <3>4. [Superseded(life[u]) EXCEPT ![n] = new] \in [Numbers -> Lives]
      BY <3>1, <3>2, <1>5
    <3>5. QED
      BY <2>7, <3>3, <3>4 DEF Ask, n, new
  <2>8. QED
    BY <2>1, <2>3, <2>2, <2>5, <2>6, <2>7 DEF Attempt
<1>7. /\ units' \in [Units -> Managed]
      /\ life' \in [Units -> [Numbers -> Lives]]
      /\ due' \subseteq Units
  BY <1>2, <1>6, RecordType
<1>8. order' \in Seq(Units) /\ beyond' \in [Units -> SUBSET Numbers]
  BY <1>2, TakenType
<1>9. QED
  BY <1>2, <1>7, <1>8 DEF Taken, TypeOK, stopVars, operatorVars

(* The variables a critical section on one unit leaves as they are.        *)
LEMMA ErredType ==
    ASSUME NEW ms \in [Numbers -> Lives], NEW l \in Numbers
    PROVE  Erred(ms, l) \in [Numbers -> Lives]
<1> DEFINE m == ms[l]
           w == IF m.watch = "watched" THEN "no" ELSE m.watch
<1>1. m \in Lives
  OBVIOUS
<1> HIDE DEF m
<1>2. w \in {"no", "watched", "heard", "concluded"}
  BY <1>1 DEF Lives
<1> HIDE DEF w
<1>3. [m EXCEPT !.launch = "erred", !.watch = w] \in Lives
  BY <1>1, <1>2 DEF Lives
<1>4. [ms EXCEPT ![l] = [m EXCEPT !.launch = "erred", !.watch = w]] \in [Numbers -> Lives]
  BY <1>3
<1> QED BY <1>4 DEF m, w, Erred

LEMMA RecordedType ==
    ASSUME TypeOK, NEW u \in Units, NEW r \in Managed,
           NEW ls \in [Numbers -> Lives], NEW rest \in SUBSET Units,
           Record(u, r, ls, rest),
           order' = order, beyond' = beyond, stopping' \in BOOLEAN,
           stop' \in [left : Seq(Units), life : LifeOrNone, pressed : BOOLEAN],
           quiet' = quiet, disabled' = disabled,
           withdrawing' \subseteq Units,
           call' \in [Operators -> {Idle} \cup Calls]
    PROVE  TypeOK'
BY RecordType DEF TypeOK

LEMMA LaunchType ==
    ASSUME TypeOK, NEW u \in Units, NEW l \in Numbers, LaunchNext(u, l)
    PROVE  TypeOK'
<1>1. units[u] \in Managed /\ life[u] \in [Numbers -> Lives]
  BY DEF TypeOK
<1>2. due \in SUBSET Units
  BY DEF TypeOK
<1>3. ASSUME NEW ls \in [Numbers -> Lives], RecordFailure(u, l, ls),
             UNCHANGED <<order, beyond, stopVars, quiet, operatorVars>>
      PROVE  TypeOK'
  <2>1. FailedLaunch(u, units[u]) \in Managed
    BY <1>1, AppliedType, SettledType DEF FailedLaunch
  <2>2. CASE life[u][l].superseded \/ stopping
    BY <1>3, <2>2 DEF RecordFailure, TypeOK, stopVars, operatorVars
  <2>3. CASE ~(life[u][l].superseded \/ stopping)
    <3>1. Record(u, FailedLaunch(u, units[u]), ls, due)
      BY <1>3, <2>3 DEF RecordFailure
    <3>2. QED
      BY <1>2, <1>3, <2>1, <3>1, RecordedType DEF TypeOK, stopVars, operatorVars
  <2>4. QED
    BY <2>2, <2>3
<1>4. CASE LaunchFails(u, l)
  <2>1. Over(life[u], l) \in [Numbers -> Lives]
    BY <1>1, OverType
  <2>2. QED
    BY <1>3, <1>4, <2>1 DEF LaunchFails
<1>5. CASE LaunchStarts(u, l)
  <2>1. [life[u][l] EXCEPT !.launch = "started", !.proc = "up",
                           !.watch = "watched"] \in Lives
    BY <1>1 DEF Lives
  <2>2. life' \in [Units -> [Numbers -> Lives]]
    BY <1>5, <2>1, SetLifeType DEF LaunchStarts
  <2>3. QED
    BY <1>5, <2>2 DEF LaunchStarts, TypeOK, stopVars, operatorVars
<1>6. CASE StartErrs(u, l)
  <2>1. PICK ls \in [Numbers -> Lives] : life' = [life EXCEPT ![u] = ls]
    BY <1>1, <1>6, KilledType, ErredType DEF StartErrs
  <2>2. life' \in [Units -> [Numbers -> Lives]]
    BY <2>1 DEF TypeOK
  <2>3. QED
    BY <1>6, <2>2 DEF StartErrs, TypeOK, stopVars, operatorVars
<1>7. CASE LaunchRecorded(u, l)
  <2>1. Over(life[u], l) \in [Numbers -> Lives]
    BY <1>1, OverType
  <2>2. CASE life[u][l].superseded \/ stopping
    <3>1. PICK lost \in MayBeLost(u) :
            /\ life' = [life EXCEPT ![u] = Killed(Over(life[u], l), l, lost)]
            /\ UNCHANGED <<units, due>>
      BY <1>7, <2>2 DEF LaunchRecorded
    <3>2. Killed(Over(life[u], l), l, lost) \in [Numbers -> Lives]
      BY <2>1, KilledType
    <3>3. QED
      BY <1>7, <3>1, <3>2 DEF LaunchRecorded, TypeOK, stopVars, operatorVars
  <2>3. CASE ~(life[u][l].superseded \/ stopping)
    <3> DEFINE r == Applied(u, [units[u] EXCEPT !.running = l], "ProcessStarted")
    <3>1. [units[u] EXCEPT !.running = l] \in Managed
      <4>1. l \in LifeOrNone
        BY DEF Numbers, LifeOrNone
      <4>2. QED
        BY <1>1, <4>1 DEF Managed
    <3>2. r \in Managed
      BY <3>1, AppliedType
    <3>3. Record(u, r, Over(life[u], l), due)
      BY <1>7, <2>3 DEF LaunchRecorded
    <3> HIDE DEF r
    <3>4. QED
      BY <1>2, <1>7, <2>1, <3>2, <3>3, RecordedType
      DEF LaunchRecorded, TypeOK, stopVars, operatorVars
  <2>4. QED
    BY <2>2, <2>3
<1>8. QED
  BY <1>4, <1>6, <1>5, <1>7 DEF LaunchNext

LEMMA EndType ==
    ASSUME TypeOK, NEW u \in Units, NEW l \in Numbers, EndNext(u, l)
    PROVE  TypeOK'
<1>1. units[u] \in Managed /\ life[u] \in [Numbers -> Lives]
  BY DEF TypeOK
<1>2. due \in SUBSET Units
  BY DEF TypeOK
<1>3. CASE Ends(u, l)
  <2>1. PICK how \in {"zero", "nonzero"} :
          life' = [life EXCEPT ![u][l] = [life[u][l] EXCEPT !.proc = how]]
    BY <1>3 DEF Ends, SetLife
  <2>2. [life[u][l] EXCEPT !.proc = how] \in Lives
    BY <1>1 DEF Lives
  <2>3. QED
    BY <1>3, <2>1, <2>2 DEF Ends, TypeOK, stopVars, operatorVars
<1>4. CASE HearEnd(u, l)
  <2>1. [life[u][l] EXCEPT !.watch = "heard"] \in Lives
    BY <1>1 DEF Lives
  <2>2. life' \in [Units -> [Numbers -> Lives]]
    BY <1>4, <2>1, SetLifeType DEF HearEnd
  <2>3. QED
    BY <1>4, <2>2 DEF HearEnd, TypeOK, stopVars, operatorVars
<1>5. CASE Conclude(u, l)
  <2> DEFINE ls == [life[u] EXCEPT ![l] = [@ EXCEPT !.watch = "concluded", !.doomed = FALSE]]
             r == [units[u] EXCEPT !.running = 0]
             in == IF r.windowOut THEN "WindowElapsed" ELSE ExitOf(life[u][l])
  <2>1. ls \in [Numbers -> Lives]
    <3>1. [life[u][l] EXCEPT !.watch = "concluded", !.doomed = FALSE] \in Lives
      BY <1>1 DEF Lives
    <3>2. QED
      BY <1>1, <3>1
  <2>2. r \in Managed
    <3>1. 0 \in LifeOrNone
      BY BoundsAssumption DEF LifeOrNone
    <3>2. QED
      BY <1>1, <3>1 DEF Managed
  <2>3. \/ life' = [life EXCEPT ![u] = ls] /\ UNCHANGED <<units, due>>
        \/ Record(u, Settled(u, Applied(u, r, in)), ls, due)
    BY <1>5 DEF Conclude
  <2>4. UNCHANGED <<order, beyond, stopVars, quiet, operatorVars>>
    BY <1>5 DEF Conclude
  <2> HIDE DEF ls, r, in
  <2>5. Settled(u, Applied(u, r, in)) \in Managed
    BY <2>2, AppliedType, SettledType
  <2>6. CASE Record(u, Settled(u, Applied(u, r, in)), ls, due)
    BY <1>2, <2>1, <2>4, <2>5, <2>6, RecordedType DEF TypeOK, stopVars, operatorVars
  <2>7. CASE life' = [life EXCEPT ![u] = ls] /\ UNCHANGED <<units, due>>
    BY <2>1, <2>4, <2>7 DEF TypeOK, stopVars, operatorVars
  <2>8. QED
    BY <2>3, <2>6, <2>7
<1>6. CASE DisposeKill(u, l)
  <2>1. PICK lost \in MayBeLost(u) :
          life' = [life EXCEPT ![u] =
                     [Killed(life[u], l, lost) EXCEPT ![l].doomed = FALSE]]
    BY <1>6 DEF DisposeKill
  <2>2. Killed(life[u], l, lost) \in [Numbers -> Lives]
    BY <1>1, KilledType
  <2>3. [Killed(life[u], l, lost) EXCEPT ![l].doomed = FALSE]
          \in [Numbers -> Lives]
    BY <2>2 DEF Lives
  <2>4. QED
    BY <1>6, <2>1, <2>3 DEF DisposeKill, TypeOK, stopVars, operatorVars
<1>7. QED
  BY <1>3, <1>5, <1>4, <1>6 DEF EndNext

LEMMA TimerType ==
    ASSUME TypeOK, NEW u \in Units, TimerNext(u)
    PROVE  TypeOK'
<1>1. units[u] \in Managed /\ life[u] \in [Numbers -> Lives]
  BY DEF TypeOK
<1>2. \A w \in Managed : units' = [units EXCEPT ![u] = w]
        => units' \in [Units -> Managed]
  BY DEF TypeOK
<1>3. CASE WindowElapsed(u)
  <2>1. [units[u] EXCEPT !.windowOut = TRUE] \in Managed
    BY <1>1 DEF Managed
  <2>2. units' \in [Units -> Managed]
    BY <1>2, <1>3, <2>1 DEF WindowElapsed
  <2>3. PICK lost \in MayBeLost(u) :
          life' = [life EXCEPT ![u] = Killed(@, units[u].running, lost)]
    BY <1>3 DEF WindowElapsed
  <2>4. Killed(life[u], units[u].running, lost) \in [Numbers -> Lives]
    BY <1>1, KilledType
  <2>5. QED
    BY <1>3, <2>2, <2>3, <2>4 DEF WindowElapsed, TypeOK, stopVars, operatorVars
<1>4. CASE NeverArrived(u)
  <2>1. [units[u] EXCEPT !.held = FALSE, !.awaiting = {}, !.notStarted = TRUE]
          \in Managed
    BY <1>1 DEF Managed
  <2>2. units' \in [Units -> Managed]
    BY <1>2, <1>4, <2>1 DEF NeverArrived
  <2>3. QED
    BY <1>4, <2>2 DEF NeverArrived, TypeOK, stopVars, operatorVars
<1>5. CASE TimerFires(u)
  <2>1. [units[u] EXCEPT !.timer = FALSE] \in Managed
    BY <1>1 DEF Managed
  <2>2. units' \in [Units -> Managed]
    BY <1>2, <1>5, <2>1 DEF TimerFires
  <2>3. QED
    BY <1>5, <2>2 DEF TimerFires, TypeOK, stopVars, operatorVars
<1>6. CASE TimerIsLate(u)
  <2>1. units[u].late + 1 \in 0..LateCap
    <3>1. units[u].late \in 0..LateCap
      BY <1>1 DEF Managed
    <3>2. QED
      BY <1>6, <3>1, BoundsAssumption DEF TimerIsLate
  <2>2. [units[u] EXCEPT !.timer = FALSE, !.late = units[u].late + 1] \in Managed
    BY <1>1, <2>1 DEF Managed
  <2>3. units' \in [Units -> Managed]
    BY <1>2, <1>6, <2>2 DEF TimerIsLate
  <2>4. QED
    BY <1>6, <2>3 DEF TimerIsLate, TypeOK, stopVars, operatorVars
<1>7. CASE LateCallback(u)
  <2>1. units[u].late - 1 \in 0..LateCap
    <3>1. units[u].late \in 0..LateCap
      BY <1>1 DEF Managed
    <3>2. QED
      BY <1>7, <3>1, BoundsAssumption DEF LateCallback
  <2>2. [units[u] EXCEPT !.late = units[u].late - 1] \in Managed
    BY <1>1, <2>1 DEF Managed
  <2>3. units' \in [Units -> Managed]
    BY <1>2, <1>7, <2>2 DEF LateCallback
  <2>4. QED
    BY <1>7, <2>3 DEF LateCallback, TypeOK, stopVars, operatorVars
<1>8. QED
  BY <1>3, <1>5, <1>4, <1>6, <1>7 DEF TimerNext

LEMMA InputType ==
    ASSUME TypeOK, NEW u \in Units, NEW in \in PluginInputs, Input(u, in)
    PROVE  TypeOK'
<1>1. units[u] \in Managed /\ life[u] \in [Numbers -> Lives]
  BY DEF TypeOK
<1>2. Applied(u, units[u], in) \in Managed
  BY <1>1, AppliedType
<1>3. Record(u, Applied(u, units[u], in), life[u], {})
  BY DEF Input
<1>4. order' = order /\ beyond' = beyond /\ quiet' = quiet /\ disabled' = disabled
  BY DEF Input, operatorVars
<1>5. /\ stopping' \in BOOLEAN /\ withdrawing' \subseteq Units
      /\ stop' \in [left : Seq(Units), life : LifeOrNone, pressed : BOOLEAN]
      /\ call' \in [Operators -> {Idle} \cup Calls]
  BY DEF Input, TypeOK, stopVars, operatorVars
<1>6. QED
  BY <1>2, <1>1, <1>3, <1>4, <1>5, RecordedType

LEMMA EngineType ==
    ASSUME TypeOK, GoQuiet \/ Reconcile
    PROVE  TypeOK'
<1>1. CASE GoQuiet
  BY <1>1 DEF GoQuiet, TypeOK, stopVars, operatorVars
<1>2. CASE Reconcile
  <2>1. ASSUME NEW l \in Lives, NEW lost PROVE Reconciled(l, lost) \in Lives
    <3>1. CASE lost
      <4>1. [l EXCEPT !.watch = "heard", !.proc = "unknown"] \in Lives
        BY DEF Lives
      <4>2. [l EXCEPT !.proc = "killed"] \in Lives
        BY DEF Lives
      <4>3. QED
        BY <3>1, <4>1, <4>2 DEF Reconciled
    <3>2. CASE ~lost
      <4>1. [l EXCEPT !.watch = "heard", !.proc = @] \in Lives
        BY DEF Lives
      <4>2. [l EXCEPT !.proc = "killed"] \in Lives
        BY DEF Lives
      <4>3. QED
        BY <3>2, <4>1, <4>2 DEF Reconciled
    <3>3. QED
      BY <3>1, <3>2
  <2>2. \A u \in Units : life[u] \in [Numbers -> Lives]
    BY DEF TypeOK
  <2>3. life' \in [Units -> [Numbers -> Lives]]
    BY <1>2, <2>1, <2>2 DEF Reconcile
  <2>4. QED
    BY <1>2, <2>3 DEF Reconcile, TypeOK, stopVars, operatorVars
<1>3. QED
  BY <1>1, <1>2

(* stopOne, whoever calls it.                                              *)
LEMMA StopOneType ==
    ASSUME TypeOK, NEW u \in Units, StopOne(u)
    PROVE  /\ units' \in [Units -> Managed]
           /\ life' \in [Units -> [Numbers -> Lives]]
           /\ due' \subseteq Units
<1> DEFINE r == [units[u] EXCEPT !.timer = FALSE]
           asked == IF r.running = 0 THEN r ELSE Applied(u, r, "StopAsked")
<1>1. units[u] \in Managed /\ life[u] \in [Numbers -> Lives]
  BY DEF TypeOK
<1>2. r \in Managed
  BY <1>1 DEF Managed
<1>3. Record(u, asked, Superseded(life[u]), {})
  BY DEF StopOne
<1> HIDE DEF r
<1>4. asked \in Managed
  BY <1>2, AppliedType
<1>5. Superseded(life[u]) \in [Numbers -> Lives]
  BY <1>1, SupersededType
<1> HIDE DEF asked
<1>6. QED
  BY <1>3, <1>4, <1>5, RecordType

LEMMA StopReturnsType ==
    ASSUME TypeOK, NEW o \in Operators, call[o] # Idle, StopReturns(o)
    PROVE  call' \in [Operators -> {Idle} \cup Calls]
<1>1. call[o] \in Calls
  BY DEF TypeOK
<1>2. [call[o] EXCEPT !.at = "start"] \in Calls
  BY <1>1 DEF Calls
<1>3. QED
  BY <1>2 DEF StopReturns, Answered, TypeOK

LEMMA OperatorType ==
    ASSUME TypeOK, NEW o \in Operators, OperatorNext(o)
    PROVE  TypeOK'
<1>1. call[o] # Idle => call[o] \in Calls
  BY DEF TypeOK
<1>2. \A u \in Units :
        units[u] \in Managed /\ life[u] \in [Numbers -> Lives]
  BY DEF TypeOK
<1>3. ASSUME NEW op \in Ops, NEW u \in Units, Asks(o, op, u)
      PROVE  TypeOK'
  <2> DEFINE asked == [at |-> IF op = "start" THEN "start" ELSE "stop", op |-> op,
                       unit |-> u, life |-> 0, pressed |-> FALSE]
  <2>1. 0 \in LifeOrNone
    BY BoundsAssumption DEF LifeOrNone
  <2>2. asked \in Calls
    BY <2>1 DEF Calls
  <2>3. call' = [call EXCEPT ![o] = asked]
    BY <1>3 DEF Asks
  <2> HIDE DEF asked
  <2>4. call' \in [Operators -> {Idle} \cup Calls]
    BY <2>2, <2>3 DEF TypeOK
  <2>5. QED
    BY <1>3, <2>4 DEF Asks, TypeOK, stopVars
<1>4. CASE StopUnit(o)
  <2>1. call[o] \in Calls /\ call[o].unit \in Units
    BY <1>1, <1>4 DEF StopUnit, Calls
  <2>2. /\ units' \in [Units -> Managed]
        /\ life' \in [Units -> [Numbers -> Lives]]
        /\ due' \subseteq Units
    BY <1>4, <2>1, StopOneType DEF StopUnit
  <2>3. units[call[o].unit].running \in LifeOrNone
    BY <1>2, <2>1 DEF Managed
  <2>4. [call[o] EXCEPT !.at = "wait", !.life = units[call[o].unit].running]
          \in Calls
    BY <2>1, <2>3 DEF Calls
  <2>5. call' \in [Operators -> {Idle} \cup Calls]
    <3>1. CASE units[call[o].unit].running = 0
      BY <1>4, <3>1, StopReturnsType DEF StopUnit
    <3>2. CASE units[call[o].unit].running # 0
      BY <1>4, <2>4, <3>2 DEF StopUnit, TypeOK
    <3>3. QED
      BY <3>1, <3>2
  <2>6. QED
    BY <1>4, <2>2, <2>5 DEF StopUnit, TypeOK, stopVars
<1>5. CASE PressUnit(o)
  <2>1. call[o] \in Calls /\ call[o].unit \in Units
    BY <1>1, <1>5 DEF PressUnit, Calls
  <2>2. [call[o] EXCEPT !.pressed = TRUE] \in Calls
    BY <2>1 DEF Calls
  <2>3. PICK lost \in MayBeLost(call[o].unit) :
          life' = [life EXCEPT ![call[o].unit] = Killed(@, call[o].life, lost)]
    BY <1>5 DEF PressUnit
  <2>4. Killed(life[call[o].unit], call[o].life, lost) \in [Numbers -> Lives]
    BY <1>2, <2>1, KilledType
  <2>5. life' \in [Units -> [Numbers -> Lives]]
    BY <2>3, <2>4 DEF TypeOK
  <2>6. call' \in [Operators -> {Idle} \cup Calls]
    BY <1>5, <2>2 DEF PressUnit, TypeOK
  <2>7. QED
    BY <1>5, <2>5, <2>6 DEF PressUnit, TypeOK, stopVars
<1>6. CASE UnitStopped(o)
  <2>1. call' \in [Operators -> {Idle} \cup Calls]
    BY <1>6, StopReturnsType DEF UnitStopped
  <2>2. QED
    BY <1>6, <2>1 DEF UnitStopped, TypeOK, stopVars
<1>7. CASE StartUnit(o)
  <2>1. call[o] \in Calls /\ call[o].unit \in Units
    BY <1>1, <1>7 DEF StartUnit, Calls
  <2>2. [units[call[o].unit] EXCEPT !.timer = FALSE] \in Managed
    <3> DEFINE r == units[call[o].unit]
    <3>1. r \in Managed
      BY <1>2, <2>1
    <3> HIDE DEF r
    <3>2. [r EXCEPT !.timer = FALSE] \in Managed
      BY <3>1 DEF Managed
    <3>3. QED
      BY <3>2 DEF r
  <2>3. units' \in [Units -> Managed] /\ due' \subseteq Units
    BY <1>7, <2>1, <2>2 DEF StartUnit, TypeOK
  <2>4. call' \in [Operators -> {Idle} \cup Calls]
    BY <1>7 DEF StartUnit, Answered, TypeOK
  <2>5. beyond' \in [Units -> SUBSET Numbers]
    <3> DEFINE u == call[o].unit
    <3>1. WithinBound(u) => units[u].lives + 1 \in Numbers
      <4>1. units[u].lives \in 0..MaxLives
        BY <1>2, <2>1 DEF Managed, LifeOrNone
      <4> HIDE DEF u
      <4> QED BY <4>1, BoundsAssumption DEF WithinBound, Numbers
    <3>2. beyond' = beyond \/ (WithinBound(u) /\ GoesBeyond(u))
      BY <1>7 DEF StartUnit
    <3>3. u \in Units /\ beyond \in [Units -> SUBSET Numbers]
      BY <2>1 DEF TypeOK
    <3> HIDE DEF u
    <3> QED BY <3>1, <3>2, <3>3 DEF GoesBeyond
  <2>6. QED
    BY <1>7, <2>3, <2>4, <2>5 DEF StartUnit, TypeOK, stopVars
<1>8. QED
  BY <1>3, <1>5, <1>4, <1>6, <1>7 DEF OperatorNext

LEMMA PolicyType ==
    ASSUME TypeOK, NEW u \in Units, PolicyNext(u)
    PROVE  TypeOK'
<1>1. units[u] \in Managed /\ life[u] \in [Numbers -> Lives]
  BY DEF TypeOK
<1>2. CASE Disable(u)
  BY <1>2 DEF Disable, TypeOK, stopVars
<1>3. CASE Enable(u)
  BY <1>3 DEF Enable, TypeOK, stopVars
<1>4. CASE Withdraw(u)
  <2>1. Settled(u, Applied(u, units[u], "AdmissionDeclined")) \in Managed
    BY <1>1, AppliedType, SettledType
  <2>2. Settled(u, Applied(u, units[u], "AdmissionWithdrawn")) \in Managed
    BY <1>1, AppliedType, SettledType
  <2>3. DeclinedUnit(units[u]) \in Managed
    <3>1. Declined \in Machines
      BY DEF Declined, Machines, States, TerminalStates
    <3>2. Without(units[u], Declined) \in Managed
      BY <1>1, <3>1, WithoutType
    <3>3. QED
      BY <3>2 DEF DeclinedUnit, Managed
  <2>4. \/ \E r \in Managed : Record(u, r, life[u], {})
        \/ UNCHANGED <<units, life, due>>
    BY <1>4, <2>1, <2>2, <2>3 DEF Withdraw
  <2>5. withdrawing' \subseteq Units
    BY <1>4 DEF Withdraw, TypeOK
  <2>6. UNCHANGED <<order, beyond, stopVars, quiet, disabled, call>>
    BY <1>4 DEF Withdraw
  <2>7. CASE \E r \in Managed : Record(u, r, life[u], {})
    <3>1. PICK r \in Managed : Record(u, r, life[u], {})
      BY <2>7
    <3>2. {} \in SUBSET Units
      OBVIOUS
    <3>3. life[u] \in [Numbers -> Lives]
      BY <1>1
    <3>4. /\ stopping' \in BOOLEAN
          /\ stop' \in [left : Seq(Units), life : LifeOrNone, pressed : BOOLEAN]
          /\ call' \in [Operators -> {Idle} \cup Calls]
      BY <2>6 DEF TypeOK, stopVars
    <3>5. order' = order /\ beyond' = beyond /\ quiet' = quiet /\ disabled' = disabled
      BY <2>6
    <3>6. QED
      BY <2>5, <3>2, <3>1, <3>3, <3>4, <3>5, RecordedType
  <2>8. CASE UNCHANGED <<units, life, due>>
    BY <2>5, <2>6, <2>8 DEF TypeOK, stopVars
  <2>9. QED
    BY <2>4, <2>7, <2>8
<1>5. QED
  BY <1>2, <1>3, <1>4 DEF PolicyNext

LEMMA StopType ==
    ASSUME TypeOK, StopNext
    PROVE  TypeOK'
<1>1. \A u \in Units :
        units[u] \in Managed /\ life[u] \in [Numbers -> Lives]
  BY DEF TypeOK
<1>2. stop.left \in Seq(Units) /\ stop.life \in LifeOrNone
  BY DEF TypeOK
<1>3. CASE StopBegins
  <2>0. \A r \in Managed : [r EXCEPT !.timer = FALSE] \in Managed
    BY DEF Managed
  <2>1. \A u \in Units : [units[u] EXCEPT !.timer = FALSE] \in Managed
    BY <1>1, <2>0
  <2>2. units' \in [Units -> Managed]
    BY <1>3, <2>1 DEF StopBegins
  <2>3. stop' \in [left : Seq(Units), life : LifeOrNone, pressed : BOOLEAN]
    BY <1>3 DEF StopBegins, TypeOK
  <2>4. QED
    BY <1>3, <2>2, <2>3 DEF StopBegins, TypeOK, operatorVars
<1>4. CASE StopTakes
  <2> DEFINE u == NextToStop
  <2>1. u \in Units
    BY <1>2, <1>4 DEF StopTakes, NextToStop
  <2>2. /\ units' \in [Units -> Managed]
        /\ life' \in [Units -> [Numbers -> Lives]]
        /\ due' \subseteq Units
    <3>1. CASE Unreachable(u)
      BY <1>4, <3>1 DEF StopTakes, TypeOK
    <3>2. CASE ~Unreachable(u)
      BY <1>4, <2>1, <3>2, StopOneType DEF StopTakes
    <3>3. QED
      BY <3>1, <3>2
  <2>3. units[u].running \in LifeOrNone
    BY <1>1, <2>1 DEF Managed
  <2>4. \/ StopGoesOn
        \/ stop' = [stop EXCEPT !.life = units[u].running]
    BY <1>4 DEF StopTakes
  <2>5. stop' \in [left : Seq(Units), life : LifeOrNone, pressed : BOOLEAN]
    BY <2>3, <2>4, StopGoesOnType DEF TypeOK
  <2>6. QED
    BY <1>4, <2>2, <2>5 DEF StopTakes, TypeOK, operatorVars
<1>5. CASE StopPresses
  <2>1. PICK lost \in MayBeLost(NextToStop) :
          life' = [life EXCEPT ![NextToStop] = Killed(@, stop.life, lost)]
    BY <1>5 DEF StopPresses
  <2>2. \A u \in Units : Killed(life[u], stop.life, lost) \in [Numbers -> Lives]
    BY <1>1, KilledType
  <2>3. life' \in [Units -> [Numbers -> Lives]]
    BY <2>1, <2>2 DEF TypeOK
  <2>4. stop' \in [left : Seq(Units), life : LifeOrNone, pressed : BOOLEAN]
    BY <1>5 DEF StopPresses, TypeOK
  <2>5. QED
    BY <1>5, <2>3, <2>4 DEF StopPresses, TypeOK, operatorVars
<1>6. CASE StopHasStopped
  <2>1. stop' \in [left : Seq(Units), life : LifeOrNone, pressed : BOOLEAN]
    BY <1>6, StopGoesOnType DEF StopHasStopped
  <2>2. QED
    BY <1>6, <2>1 DEF StopHasStopped, TypeOK, operatorVars
<1>7. QED
  BY <1>3, <1>5, <1>4, <1>6 DEF StopNext

LEMMA NextType ==
    ASSUME TypeOK, [Next]_vars
    PROVE  TypeOK'
<1>1. CASE UNCHANGED vars
  BY <1>1 DEF TypeOK, vars
<1>2. CASE Next
  BY <1>2, AttemptType, LaunchType, EndType, TimerType, InputType, EngineType,
     OperatorType, PolicyType, StopType DEF Next
<1>3. QED
  BY <1>1, <1>2

(* Every behaviour keeps every variable what the handlers declare it to    *)
(* be: no record is ever half written, no life is numbered past the        *)
(* counter, whatever interleaves (all of supervisor.go and containers.go). *)
THEOREM TypeCorrect == Spec => []TypeOK
<1>1. Init => TypeOK
  BY InitType
<1>2. TypeOK /\ [Next]_vars => TypeOK'
  BY NextType
<1>3. QED
  BY <1>2, <1>1, PTL DEF Spec


--------------------------------------------------------------------------------

(* What is kept of one unit on the host: its record and its lives.         *)
HostUnit(r, ls) ==
    /\ \A l \in Numbers : ~InFlight(ls[l])
    /\ r.running # 0 => /\ r.running = r.incarnation
                        /\ r.running = r.lives
                        /\ ls[r.running].watch = "watched"

HostInv == \A u \in Units \ Image : HostUnit(units[u], life[u])

(* Two records of the same life.                                           *)
SameLife(r, s) == /\ s.running = r.running
                  /\ s.incarnation = r.incarnation
                  /\ s.lives = r.lives

(* Two lists of lives, launched and watched alike.                         *)
SameWatch(ls, ms) == \A l \in Numbers : /\ ms[l].launch = ls[l].launch
                                        /\ ms[l].watch = ls[l].watch

--------------------------------------------------------------------------------
(* What the helpers keep.                                                  *)

LEMMA AppliedKeeps ==
    ASSUME NEW u, NEW r \in Managed, NEW in
    PROVE  SameLife(r, Applied(u, r, in))
BY DEF SameLife, Applied, Managed

LEMMA SettledKeeps ==
    ASSUME NEW u, NEW r \in Managed
    PROVE  SameLife(r, Settled(u, r))
BY DEF SameLife, Settled, Managed

LEMMA KilledKeeps ==
    ASSUME NEW ls \in [Numbers -> Lives], NEW l \in LifeOrNone, NEW lost
    PROVE  SameWatch(ls, Killed(ls, l, lost))
BY DEF SameWatch, Killed, Lives

LEMMA SupersededKeeps ==
    ASSUME NEW ls \in [Numbers -> Lives]
    PROVE  SameWatch(ls, Superseded(ls))
BY DEF SameWatch, Superseded, Lives

(* A unit is kept by what moves neither its life nor its watch.            *)
LEMMA HostUnitKept ==
    ASSUME NEW r \in Managed, NEW s \in Managed, NEW ls, NEW ms,
           HostUnit(r, ls), SameLife(r, s), SameWatch(ls, ms)
    PROVE  HostUnit(s, ms)
<1>1. \A l \in Numbers : ~InFlight(ms[l])
  BY DEF HostUnit, SameWatch, InFlight
<1>2. r.running # 0 => r.running \in Numbers
  <2>1. r.running \in LifeOrNone
    BY DEF Managed
  <2>2. QED
    BY <2>1, BoundsAssumption DEF LifeOrNone, Numbers
<1>3. QED
  BY <1>1, <1>2 DEF HostUnit, SameLife, SameWatch

(* A unit without a process is kept whatever its record says.              *)
LEMMA HostUnitIdle ==
    ASSUME NEW r, NEW s, NEW ls, NEW ms,
           HostUnit(r, ls), s.running = 0, SameWatch(ls, ms)
    PROVE  HostUnit(s, ms)
BY DEF HostUnit, SameWatch, InFlight

(* A step that keeps each unit on the host keeps the invariant.            *)
LEMMA HostKept ==
    ASSUME TypeOK, TypeOK', HostInv,
           \A u \in Units \ Image : /\ SameLife(units[u], units'[u])
                                    /\ SameWatch(life[u], life'[u])
    PROVE  HostInv'
<1> SUFFICES ASSUME NEW u \in Units \ Image
             PROVE  HostUnit(units'[u], life'[u])
  BY DEF HostInv
<1>1. units[u] \in Managed /\ units'[u] \in Managed
  BY DEF TypeOK
<1>2. HostUnit(units[u], life[u])
  BY DEF HostInv
<1>3. QED
  BY <1>1, <1>2, HostUnitKept

(* What a critical section on u leaves of the other units.                 *)
LEMMA RecordHost ==
    ASSUME TypeOK, TypeOK', HostInv,
           NEW u \in Units, NEW r \in Managed,
           NEW ls \in [Numbers -> Lives], NEW rest,
           Record(u, r, ls, rest),
           u \notin Image => HostUnit(r, ls)
    PROVE  HostInv'
<1> SUFFICES ASSUME NEW x \in Units \ Image
             PROVE  HostUnit(units'[x], life'[x])
  BY DEF HostInv
<1>1. units[x] \in Managed /\ units'[x] \in Managed
  BY DEF TypeOK
<1>2. CASE x = u
  <2>1. units'[u] = r
    BY <1>2 DEF Record, TypeOK
  <2>2. SameWatch(ls, life'[u])
    <3>1. SameWatch(ls, [ls EXCEPT ![r.running].doomed = TRUE])
      BY DEF SameWatch, Lives
    <3>2. SameWatch(ls, ls)
      BY DEF SameWatch
    <3>3. life[u] \in [Numbers -> Lives]
      BY DEF TypeOK
    <3>4. \/ life'[u] = ls
          \/ life'[u] = [ls EXCEPT ![r.running].doomed = TRUE]
      BY DEF Record, TypeOK
    <3>5. QED
      BY <3>1, <3>2, <3>4
  <2>3. SameLife(r, r)
    BY DEF SameLife
  <2>4. QED
    BY <1>1, <1>2, <2>1, <2>2, <2>3, HostUnitKept
<1>3. CASE x # u
  <2>1. life'[x] = life[x]
    BY <1>3 DEF Record, TypeOK
  <2>2. SameLife(units[x], units'[x])
    BY <1>1, <1>3 DEF Record, TypeOK, SameLife, Managed
  <2>3. HostUnit(units[x], life[x])
    BY DEF HostInv
  <2>4. SameWatch(life[x], life[x])
    BY DEF SameWatch
  <2>5. QED
    BY <1>1, <2>2, <2>1, <2>3, <2>4, HostUnitKept
<1>4. QED
  BY <1>2, <1>3

LEMMA InitHost == Init => HostInv
<1> SUFFICES ASSUME Init, NEW u \in Units \ Image
             PROVE  HostUnit(units[u], life[u])
  BY DEF HostInv
<1>1. units[u].running = 0
  BY DEF Init, NewUnit
<1>2. \A l \in Numbers : life[u][l].launch = "none"
  BY DEF Init, NoLife
<1>3. QED
  BY <1>1, <1>2 DEF HostUnit, InFlight

--------------------------------------------------------------------------------
(* Each actor keeps the invariant.                                         *)

LEMMA AttemptHost ==
    ASSUME TypeOK, TypeOK', HostInv, NEW u \in Units, Attempt(u)
    PROVE  HostInv'
<1>1. units[u] \in Managed /\ life[u] \in [Numbers -> Lives]
  BY DEF TypeOK
<1>2. u \notin Image => HostUnit(units[u], life[u])
  BY DEF HostInv
<1>3. SameWatch(life[u], life[u]) /\ SameWatch(life[u], Superseded(life[u]))
  BY <1>1, SupersededKeeps DEF SameWatch
<1>4. Superseded(life[u]) \in [Numbers -> Lives] /\ Fresh(units[u]) \in Managed
  BY <1>1, SupersededType, FreshType
<1>5. Fresh(units[u]).running = 0 /\ Fresh(units[u]).lives = units[u].lives
  BY <1>1 DEF Fresh, Managed
<1>6. Skipped \in Machines /\ Declined \in Machines
  BY DEF Skipped, Declined, Machines, States, TerminalStates
<1>7. CASE Skip(u)
  <2>1. Without(units[u], Skipped) \in Managed
    BY <1>1, <1>6, WithoutType
  <2>2. Without(units[u], Skipped).running = 0
    BY <1>1 DEF Without, Managed
  <2>3. QED
    BY <1>1, <1>3, <1>2, <1>7, <2>1, <2>2, HostUnitIdle, RecordHost DEF Skip
<1>8. CASE Decline(u)
  <2>1. Without(units[u], Declined) \in Managed
    BY <1>1, <1>6, WithoutType
  <2>2. DeclinedUnit(units[u]) \in Managed
    BY <2>1 DEF DeclinedUnit, Managed
  <2>3. DeclinedUnit(units[u]).running = 0
    BY <1>1 DEF DeclinedUnit, Without, Managed
  <2>4. QED
    BY <1>1, <1>3, <1>2, <1>8, <2>2, <2>3, HostUnitIdle, RecordHost DEF Decline
<1>9. ASSUME NEW r \in Managed, r.running = 0
      PROVE  FailedLaunch(u, r) \in Managed /\ FailedLaunch(u, r).running = 0
  <2>1. Applied(u, r, "LaunchFailed") \in Managed
    BY <1>9, AppliedType
  <2>2. Settled(u, Applied(u, r, "LaunchFailed")) \in Managed
    BY <2>1, SettledType
  <2>3. Settled(u, Applied(u, r, "LaunchFailed")).running = r.running
    BY <1>9, <2>1, AppliedKeeps, SettledKeeps DEF SameLife
  <2>4. QED
    BY <1>9, <2>2, <2>3 DEF FailedLaunch
<1>10. CASE AttemptFaults(u)
  BY <1>2, <1>4, <1>3, <1>5, <1>9, <1>10, HostUnitIdle, RecordHost
  DEF AttemptFaults
<1>11. ASSUME units[u].lives < MaxLives
       PROVE  units[u].lives + 1 \in Numbers /\ units[u].lives + 1 \in LifeOrNone
  <2>1. units[u].lives \in 0..MaxLives
    BY <1>1 DEF Managed, LifeOrNone
  <2>2. QED
    BY <1>11, <2>1, BoundsAssumption DEF LifeOrNone, Numbers
<1>12. CASE StartFaults(u)
  <2> DEFINE r == [Fresh(units[u]) EXCEPT !.lives = units[u].lives + 1]
  <2>1. r \in Managed
    BY <1>4, <1>11, <1>12 DEF StartFaults, Managed
  <2>2. r.running = 0
    BY <1>4, <1>5 DEF Managed
  <2>3. Record(u, FailedLaunch(u, r), Superseded(life[u]), due \ {u})
    BY <1>5, <1>12 DEF StartFaults
  <2> HIDE DEF r
  <2>4. QED
    BY <1>2, <1>3, <1>4, <1>9, <2>1, <2>2, <2>3, HostUnitIdle, RecordHost
<1>13. CASE Spawn(u)
  <2> DEFINE n == units[u].lives + 1
             r == [Fresh(units[u]) EXCEPT !.lives = n, !.incarnation = n,
                                          !.running = n]
             new == [NoLife EXCEPT !.proc = "up", !.launch = "over",
                                   !.watch = "watched"]
             ls == [Superseded(life[u]) EXCEPT ![n] = new]
  <2>1. n \in Numbers /\ n \in LifeOrNone
    BY <1>11, <1>13 DEF Spawn
  <2>2. new \in Lives /\ new.launch = "over" /\ new.watch = "watched"
    BY DEF NoLife, Lives
  <2>3. Record(u, Applied(u, r, "ProcessStarted"), ls, due \ {u})
    BY <1>13 DEF Spawn
  <2> HIDE DEF n, new
  <2>4. r \in Managed
    BY <1>4, <2>1 DEF Managed
  <2>5. r.lives = n /\ r.incarnation = n /\ r.running = n
    BY <1>4 DEF Managed
  <2>6. ls \in [Numbers -> Lives]
    BY <1>4, <2>1, <2>2
  <2>7. u \notin Image => HostUnit(r, ls)
    <3>1. u \notin Image => \A l \in Numbers : ~InFlight(Superseded(life[u])[l])
      BY <1>2, <1>3 DEF HostUnit, SameWatch, InFlight
    <3>2. ls[n].watch = "watched" /\ ~InFlight(ls[n])
      BY <1>4, <2>1, <2>2 DEF InFlight
    <3>3. \A l \in Numbers : l # n => ls[l] = Superseded(life[u])[l]
      BY <1>4
    <3> HIDE DEF r, ls
    <3>4. QED
      BY <2>5, <3>1, <3>2, <3>3 DEF HostUnit
  <2> HIDE DEF r, ls
  <2>8. Applied(u, r, "ProcessStarted") \in Managed
    BY <2>4, AppliedType
  <2>9. SameLife(r, Applied(u, r, "ProcessStarted")) /\ SameWatch(ls, ls)
    BY <2>4, AppliedKeeps DEF SameWatch
  <2>10. u \notin Image => HostUnit(Applied(u, r, "ProcessStarted"), ls)
    BY <2>4, <2>7, <2>8, <2>9, HostUnitKept
  <2>11. QED
    BY <2>3, <2>6, <2>8, <2>10, RecordHost
<1>14. CASE Ask(u)
  <2> DEFINE n == units[u].lives + 1
             new == [NoLife EXCEPT !.launch = "asked"]
  <2>1. n \in Numbers /\ n \in LifeOrNone
    BY <1>11, <1>14 DEF Ask
  <2>2. new \in Lives
    BY DEF NoLife, Lives
  <2> HIDE DEF n, new
  <2>3. [Fresh(units[u]) EXCEPT !.lives = n, !.incarnation = n] \in Managed
    BY <1>4, <2>1 DEF Managed
  <2>4. [Superseded(life[u]) EXCEPT ![n] = new] \in [Numbers -> Lives]
    BY <1>4, <2>1, <2>2
  <2>5. u \in Image
    BY <1>14 DEF Ask
  <2>6. QED
    BY <1>14, <2>3, <2>4, <2>5, RecordHost DEF Ask, n, new
<1>15. QED
  BY <1>7, <1>8, <1>10, <1>12, <1>13, <1>14 DEF Attempt

(* The engine is asked for containers alone: what it answers is recorded   *)
(* of a unit that is not on the host.                                      *)
LEMMA ImageHost ==
    ASSUME TypeOK, TypeOK', HostInv, NEW u \in Image, NEW r \in Managed,
           NEW ls \in [Numbers -> Lives],
           \/ Record(u, r, ls, due)
           \/ life' = [life EXCEPT ![u] = ls] /\ UNCHANGED units
    PROVE  HostInv'
<1>1. u \in Units
  BY UnitsAssumption
<1>2. CASE Record(u, r, ls, due)
  BY <1>1, <1>2, RecordHost
<1>3. CASE life' = [life EXCEPT ![u] = ls] /\ UNCHANGED units
  <2>1. \A x \in Units \ Image : life'[x] = life[x] /\ units'[x] = units[x]
    BY <1>3 DEF TypeOK
  <2>2. QED
    BY <2>1, HostKept DEF SameLife, SameWatch
<1>4. QED
  BY <1>2, <1>3

LEMMA LaunchHost ==
    ASSUME TypeOK, TypeOK', HostInv,
           NEW u \in Units, NEW l \in Numbers, LaunchNext(u, l)
    PROVE  HostInv'
<1>1. units[u] \in Managed /\ life[u] \in [Numbers -> Lives]
  BY DEF TypeOK
<1>2. u \in Image
  BY DEF LaunchNext, LaunchFails, LaunchStarts, StartErrs, LaunchRecorded,
         HostInv, HostUnit, InFlight
<1>3. Over(life[u], l) \in [Numbers -> Lives]
  BY <1>1, OverType
<1>4. ASSUME NEW ls \in [Numbers -> Lives], RecordFailure(u, l, ls)
      PROVE  HostInv'
  <2>1. Applied(u, units[u], "LaunchFailed") \in Managed
    BY <1>1, AppliedType
  <2>2. FailedLaunch(u, units[u]) \in Managed
    BY <2>1, SettledType DEF FailedLaunch
  <2>3. QED
    BY <1>2, <1>4, <2>2, ImageHost DEF RecordFailure
<1>5. CASE LaunchFails(u, l)
  BY <1>3, <1>4, <1>5 DEF LaunchFails
<1>6. CASE LaunchStarts(u, l)
  <2>1. [life[u] EXCEPT ![l] = [life[u][l] EXCEPT !.launch = "started",
                                 !.proc = "up", !.watch = "watched"]]
          \in [Numbers -> Lives]
    BY <1>1 DEF Lives
  <2>2. life' = [life EXCEPT ![u] =
                   [life[u] EXCEPT ![l] = [life[u][l] EXCEPT
                      !.launch = "started", !.proc = "up",
                      !.watch = "watched"]]]
    BY <1>6 DEF LaunchStarts, SetLife, TypeOK
  <2>3. UNCHANGED units
    BY <1>6 DEF LaunchStarts
  <2>4. QED
    BY <1>1, <1>2, <2>1, <2>2, <2>3, ImageHost
<1>7. CASE StartErrs(u, l)
  <2>1. PICK ls \in [Numbers -> Lives] : life' = [life EXCEPT ![u] = ls]
    BY <1>1, <1>7, KilledType, ErredType DEF StartErrs
  <2>2. UNCHANGED units
    BY <1>7 DEF StartErrs
  <2>3. QED
    BY <1>1, <1>2, <2>1, <2>2, ImageHost
<1>8. CASE LaunchRecorded(u, l)
  <2>1. CASE life[u][l].superseded \/ stopping
    <3>1. PICK lost \in MayBeLost(u) :
            life' = [life EXCEPT ![u] = Killed(Over(life[u], l), l, lost)]
      BY <1>8, <2>1 DEF LaunchRecorded
    <3>2. Killed(Over(life[u], l), l, lost) \in [Numbers -> Lives]
      BY <1>3, KilledType
    <3>3. UNCHANGED units
      BY <1>8, <2>1 DEF LaunchRecorded
    <3>4. QED
      BY <1>1, <1>2, <3>1, <3>2, <3>3, ImageHost
  <2>2. CASE ~(life[u][l].superseded \/ stopping)
    <3>1. l \in LifeOrNone
      BY BoundsAssumption DEF Numbers, LifeOrNone
    <3>2. [units[u] EXCEPT !.running = l] \in Managed
      BY <1>1, <3>1 DEF Managed
    <3>3. Applied(u, [units[u] EXCEPT !.running = l], "ProcessStarted")
            \in Managed
      BY <3>2, AppliedType
    <3>4. QED
      BY <1>2, <1>3, <1>8, <2>2, <3>3, ImageHost DEF LaunchRecorded
  <2>3. QED
    BY <2>1, <2>2
<1>9. QED
  BY <1>5, <1>7, <1>6, <1>8 DEF LaunchNext

LEMMA EndHost ==
    ASSUME TypeOK, TypeOK', HostInv,
           NEW u \in Units, NEW l \in Numbers, EndNext(u, l)
    PROVE  HostInv'
<1>1. units[u] \in Managed /\ life[u] \in [Numbers -> Lives]
  BY DEF TypeOK
<1>2. \A x \in Units : SameLife(units[x], units[x]) /\ SameWatch(life[x], life[x])
  BY DEF SameLife, SameWatch
<1>3. CASE Ends(u, l)
  <2>1. PICK how : life' = [life EXCEPT ![u][l] = [life[u][l] EXCEPT !.proc = how]]
    BY <1>3 DEF Ends, SetLife
  <2>2. \A x \in Units : SameWatch(life[x], life'[x])
    BY <2>1 DEF TypeOK, SameWatch, Lives
  <2>3. QED
    BY <1>2, <1>3, <2>2, HostKept DEF Ends
<1>4. CASE HearEnd(u, l)
  <2>1. [life[u] EXCEPT ![l] = [life[u][l] EXCEPT !.watch = "heard"]]
          \in [Numbers -> Lives]
    BY <1>1 DEF Lives
  <2>2. life' = [life EXCEPT ![u] =
                   [life[u] EXCEPT ![l] = [life[u][l] EXCEPT !.watch = "heard"]]]
    BY <1>4 DEF HearEnd, SetLife, TypeOK
  <2>3. QED
    BY <1>1, <1>4, <2>1, <2>2, ImageHost DEF HearEnd
<1>5. CASE Conclude(u, l)
  <2> DEFINE ls == [life[u] EXCEPT ![l] = [@ EXCEPT !.watch = "concluded", !.doomed = FALSE]]
             r == [units[u] EXCEPT !.running = 0]
             in == IF r.windowOut THEN "WindowElapsed" ELSE ExitOf(life[u][l])
  <2>1. ls \in [Numbers -> Lives]
    <3>1. [life[u][l] EXCEPT !.watch = "concluded", !.doomed = FALSE] \in Lives
      BY <1>1 DEF Lives
    <3>2. QED
      BY <1>1, <3>1
  <2>2. r \in Managed /\ r.running = 0
    <3>1. 0 \in LifeOrNone
      BY BoundsAssumption DEF LifeOrNone
    <3>2. QED
      BY <1>1, <3>1 DEF Managed
  <2>3. \A k \in Numbers : /\ ls[k].launch = life[u][k].launch
                           /\ k # l => ls[k].watch = life[u][k].watch
    BY <1>1 DEF Lives
  <2>4. CASE units[u].incarnation # l
    <3>1. life' = [life EXCEPT ![u] = ls] /\ UNCHANGED units
      BY <1>5, <2>4 DEF Conclude
    <3>2. \A x \in Units \ Image : HostUnit(units'[x], life'[x])
      <4>1. SUFFICES ASSUME NEW x \in Units \ Image
                     PROVE  HostUnit(units[x], life'[x])
        BY <3>1
      <4>2. HostUnit(units[x], life[x])
        BY DEF HostInv
      <4>3. CASE x # u
        BY <3>1, <4>2, <4>3 DEF TypeOK
      <4>4. CASE x = u
        <5> HIDE DEF ls
        <5>1. life'[x] = ls
          BY <3>1, <4>4 DEF TypeOK
        <5>2. units[u].running # 0 =>
                units[u].running \in Numbers /\ units[u].running # l
          <6>1. units[u].running \in LifeOrNone
            BY <1>1 DEF Managed
          <6>2. QED
            BY <2>4, <4>2, <4>4, <6>1, BoundsAssumption
            DEF HostUnit, LifeOrNone, Numbers
        <5>3. QED
          BY <2>3, <4>2, <4>4, <5>1, <5>2 DEF HostUnit, InFlight
      <4>5. QED
        BY <4>3, <4>4
    <3>3. QED
      BY <3>2 DEF HostInv
  <2>5. CASE units[u].incarnation = l
    <3>1. Record(u, Settled(u, Applied(u, r, in)), ls, due)
      BY <1>5, <2>5 DEF Conclude
    <3> HIDE DEF r, in, ls
    <3>2. Applied(u, r, in) \in Managed
      BY <2>2, AppliedType
    <3>3. Settled(u, Applied(u, r, in)) \in Managed
      BY <3>2, SettledType
    <3>4. Settled(u, Applied(u, r, in)).running = 0
      BY <2>2, <3>2, AppliedKeeps, SettledKeeps DEF SameLife
    <3>5. u \notin Image => HostUnit(Settled(u, Applied(u, r, in)), ls)
      BY <2>3, <3>4 DEF HostInv, HostUnit, InFlight
    <3>6. QED
      BY <2>1, <3>1, <3>3, <3>5, RecordHost
  <2>6. QED
    BY <2>4, <2>5
<1>6. CASE DisposeKill(u, l)
  <2>1. PICK lost \in MayBeLost(u) :
          life' = [life EXCEPT ![u] =
                     [Killed(life[u], l, lost) EXCEPT ![l].doomed = FALSE]]
    BY <1>6 DEF DisposeKill
  <2>2. l \in LifeOrNone
    BY BoundsAssumption DEF Numbers, LifeOrNone
  <2>3. SameWatch(life[u], Killed(life[u], l, lost))
    BY <1>1, <2>2, KilledKeeps
  <2>4. Killed(life[u], l, lost) \in [Numbers -> Lives]
    BY <1>1, KilledType
  <2>5. SameWatch(life[u], [Killed(life[u], l, lost) EXCEPT ![l].doomed = FALSE])
    BY <2>3, <2>4 DEF SameWatch, Lives
  <2>6. \A x \in Units : SameWatch(life[x], life'[x])
    BY <1>2, <2>1, <2>5 DEF TypeOK
  <2>7. QED
    BY <1>2, <1>6, <2>6, HostKept DEF DisposeKill
<1>7. QED
  BY <1>3, <1>5, <1>4, <1>6 DEF EndNext

(* A kill moves neither the lives of a unit nor who watches them.          *)
LEMMA KillHost ==
    ASSUME TypeOK, TypeOK', HostInv, NEW u \in Units, NEW l \in LifeOrNone,
           NEW lost, life' = [life EXCEPT ![u] = Killed(@, l, lost)],
           \A x \in Units : SameLife(units[x], units'[x])
    PROVE  HostInv'
<1>1. life[u] \in [Numbers -> Lives]
  BY DEF TypeOK
<1>2. SameWatch(life[u], Killed(life[u], l, lost))
  BY <1>1, KilledKeeps
<1>3. \A x \in Units : SameWatch(life[x], life'[x])
  BY <1>2 DEF TypeOK, SameWatch
<1>4. QED
  BY <1>3, HostKept

LEMMA TimerHost ==
    ASSUME TypeOK, TypeOK', HostInv, NEW u \in Units, TimerNext(u)
    PROVE  HostInv'
<1>1. units[u] \in Managed
  BY DEF TypeOK
<1>2. \A x \in Units : SameLife(units[x], units'[x])
  <2>1. \A r \in Managed :
          /\ SameLife(r, r)
          /\ SameLife(r, [r EXCEPT !.windowOut = TRUE])
          /\ SameLife(r, [r EXCEPT !.held = FALSE, !.awaiting = {},
                                   !.notStarted = TRUE])
          /\ SameLife(r, [r EXCEPT !.timer = FALSE])
          /\ SameLife(r, [r EXCEPT !.timer = FALSE, !.late = @ + 1])
          /\ SameLife(r, [r EXCEPT !.late = @ - 1])
    BY DEF SameLife, Managed
  <2>2. \A x \in Units : units[x] \in Managed
    BY DEF TypeOK
  <2>3. /\ units'[u] \in
             {[units[u] EXCEPT !.windowOut = TRUE],
              [units[u] EXCEPT !.held = FALSE, !.awaiting = {},
                               !.notStarted = TRUE],
              [units[u] EXCEPT !.timer = FALSE],
              [units[u] EXCEPT !.timer = FALSE, !.late = @ + 1],
              [units[u] EXCEPT !.late = @ - 1]}
        /\ \A x \in Units \ {u} : units'[x] = units[x]
    BY <1>1 DEF TimerNext, WindowElapsed, NeverArrived, TimerFires, TimerIsLate,
                LateCallback, TypeOK
  <2>4. SameLife(units[u], units'[u])
    <3>1. units[u] \in Managed
      BY <2>2
    <3>2. QED
      BY <2>1, <2>3, <3>1, Zenon
  <2>5. ASSUME NEW x \in Units \ {u}
        PROVE  SameLife(units[x], units'[x])
    BY <2>1, <2>2, <2>3
  <2>6. QED
    BY <2>4, <2>5
<1>3. CASE WindowElapsed(u)
  <2>1. PICK lost : life' = [life EXCEPT ![u] = Killed(@, units[u].running, lost)]
    BY <1>3 DEF WindowElapsed
  <2>2. units[u].running \in LifeOrNone
    BY <1>1 DEF Managed
  <2>3. QED
    BY <1>2, <2>1, <2>2, KillHost
<1>4. CASE life' = life
  BY <1>2, <1>4, HostKept DEF SameWatch
<1>5. QED
  BY <1>3, <1>4 DEF TimerNext, NeverArrived, TimerFires, TimerIsLate, LateCallback

LEMMA InputHost ==
    ASSUME TypeOK, TypeOK', HostInv,
           NEW u \in Units, NEW in \in PluginInputs, Input(u, in)
    PROVE  HostInv'
<1>1. units[u] \in Managed /\ life[u] \in [Numbers -> Lives]
  BY DEF TypeOK
<1>2. Applied(u, units[u], in) \in Managed
  BY <1>1, AppliedType
<1>3. u \notin Image => HostUnit(Applied(u, units[u], in), life[u])
  BY <1>1, <1>2, AppliedKeeps, HostUnitKept DEF HostInv, SameWatch
<1>4. Record(u, Applied(u, units[u], in), life[u], {})
  BY DEF Input
<1>5. QED
  BY <1>2, <1>1, <1>3, <1>4, RecordHost

LEMMA EngineHost ==
    ASSUME TypeOK, TypeOK', HostInv, GoQuiet \/ Reconcile
    PROVE  HostInv'
<1>1. \A u \in Units \ Image : units'[u] = units[u] /\ life'[u] = life[u]
  BY DEF GoQuiet, Reconcile, TypeOK
<1>2. QED
  BY <1>1, HostKept DEF SameLife, SameWatch

(* stopOne asks, and moves no life.                                        *)
LEMMA StopOneHost ==
    ASSUME TypeOK, TypeOK', HostInv, NEW u \in Units, StopOne(u)
    PROVE  HostInv'
<1> DEFINE r == [units[u] EXCEPT !.timer = FALSE]
           s == IF r.running = 0 THEN r ELSE Applied(u, r, "StopAsked")
<1>1. units[u] \in Managed /\ life[u] \in [Numbers -> Lives]
  BY DEF TypeOK
<1>2. r \in Managed /\ SameLife(units[u], r)
  BY <1>1 DEF Managed, SameLife
<1>3. Record(u, s, Superseded(life[u]), {})
  BY DEF StopOne
<1> HIDE DEF r
<1>4. s \in Managed
  BY <1>2, AppliedType
<1>5. SameLife(units[u], s)
  BY <1>2, AppliedKeeps DEF SameLife
<1> HIDE DEF s
<1>6. Superseded(life[u]) \in [Numbers -> Lives]
  BY <1>1, SupersededType
<1>7. SameWatch(life[u], Superseded(life[u]))
  BY <1>1, SupersededKeeps
<1>8. u \notin Image => HostUnit(s, Superseded(life[u]))
  BY <1>1, <1>4, <1>5, <1>7, HostUnitKept DEF HostInv
<1>9. QED
  BY <1>3, <1>4, <1>6, <1>8, RecordHost

LEMMA OperatorHost ==
    ASSUME TypeOK, TypeOK', HostInv, NEW o \in Operators, OperatorNext(o)
    PROVE  HostInv'
<1>1. call[o] # Idle => call[o].unit \in Units /\ call[o].life \in LifeOrNone
  BY DEF TypeOK, Calls, Idle
<1>2. \A x \in Units : SameLife(units[x], units[x]) /\ SameWatch(life[x], life[x])
  BY DEF SameLife, SameWatch
<1>3. CASE UNCHANGED <<units, life>>
  BY <1>2, <1>3, HostKept
<1>4. CASE StopUnit(o)
  BY <1>1, <1>4, StopOneHost DEF StopUnit
<1>5. CASE PressUnit(o)
  <2>1. PICK lost : life' = [life EXCEPT ![call[o].unit] =
                               Killed(@, call[o].life, lost)]
    BY <1>5 DEF PressUnit
  <2>2. QED
    BY <1>1, <1>2, <1>5, <2>1, KillHost DEF PressUnit
<1>6. CASE StartUnit(o)
  <2>1. \A x \in Units : SameLife(units[x], units'[x])
    <3>1. \A r \in Managed : SameLife(r, [r EXCEPT !.timer = FALSE])
      BY DEF SameLife, Managed
    <3>2. \A x \in Units : /\ units[x] \in Managed
                           /\ SameLife(units[x], units[x])
      BY <1>2 DEF TypeOK
    <3>3. \/ units' = units
          \/ units' = [units EXCEPT ![call[o].unit] =
                         [units[call[o].unit] EXCEPT !.timer = FALSE]]
      BY <1>6 DEF StartUnit, TypeOK
    <3>4. CASE units' = units
      BY <3>2, <3>4
    <3>5. CASE units' = [units EXCEPT ![call[o].unit] =
                           [units[call[o].unit] EXCEPT !.timer = FALSE]]
      <4>1. \A x \in Units : \/ units'[x] = units[x]
                             \/ units'[x] = [units[x] EXCEPT !.timer = FALSE]
        BY <3>5 DEF TypeOK
      <4>2. QED
        BY <3>1, <3>2, <4>1
    <3>6. QED
      BY <3>3, <3>4, <3>5
  <2>2. QED
    BY <1>2, <1>6, <2>1, HostKept DEF StartUnit
<1>7. QED
  BY <1>3, <1>5, <1>4, <1>6 DEF OperatorNext, Asks, UnitStopped

LEMMA PolicyHost ==
    ASSUME TypeOK, TypeOK', HostInv, NEW u \in Units, PolicyNext(u)
    PROVE  HostInv'
<1>1. units[u] \in Managed /\ life[u] \in [Numbers -> Lives]
  BY DEF TypeOK
<1>2. u \notin Image => HostUnit(units[u], life[u])
  BY DEF HostInv
<1>3. CASE UNCHANGED <<units, life>>
  BY <1>3, HostKept DEF SameLife, SameWatch
<1>4. ASSUME NEW in PROVE Record(u, Settled(u, Applied(u, units[u], in)),
                                 life[u], {}) => HostInv'
  <2>1. Applied(u, units[u], in) \in Managed
    BY <1>1, AppliedType
  <2>2. Settled(u, Applied(u, units[u], in)) \in Managed
    BY <2>1, SettledType
  <2>3. SameLife(units[u], Settled(u, Applied(u, units[u], in)))
    BY <1>1, <2>1, AppliedKeeps, SettledKeeps DEF SameLife
  <2>4. u \notin Image =>
          HostUnit(Settled(u, Applied(u, units[u], in)), life[u])
    BY <1>1, <1>2, <2>2, <2>3, HostUnitKept DEF SameWatch
  <2>5. QED
    BY <1>1, <2>2, <2>4, RecordHost
<1>5. Record(u, DeclinedUnit(units[u]), life[u], {}) => HostInv'
  <2>1. Declined \in Machines
    BY DEF Declined, Machines, States, TerminalStates
  <2>2. Without(units[u], Declined) \in Managed
    BY <1>1, <2>1, WithoutType
  <2>3. DeclinedUnit(units[u]) \in Managed
    BY <2>2 DEF DeclinedUnit, Managed
  <2>4. DeclinedUnit(units[u]).running = 0
    BY <1>1 DEF DeclinedUnit, Without, Managed
  <2>5. u \notin Image => HostUnit(DeclinedUnit(units[u]), life[u])
    BY <1>2, <2>4, HostUnitIdle DEF SameWatch
  <2>6. QED
    BY <1>1, <2>3, <2>5, RecordHost
<1>6. CASE Withdraw(u)
  BY <1>3, <1>5, <1>4, <1>6 DEF Withdraw
<1>7. QED
  BY <1>3, <1>6 DEF PolicyNext, Disable, Enable

LEMMA StopHost ==
    ASSUME TypeOK, TypeOK', HostInv, StopNext
    PROVE  HostInv'
<1>1. \A x \in Units : SameLife(units[x], units[x]) /\ SameWatch(life[x], life[x])
  BY DEF SameLife, SameWatch
<1>2. stop.left # <<>> => NextToStop \in Units
  <2>1. stop.left \in Seq(Units)
    BY DEF TypeOK
  <2>2. QED
    BY <2>1 DEF NextToStop
<1>3. CASE UNCHANGED <<units, life>>
  BY <1>1, <1>3, HostKept
<1>4. CASE StopBegins
  <2>1. \A x \in Units : SameLife(units[x], units'[x])
    <3>1. \A r \in Managed : SameLife(r, [r EXCEPT !.timer = FALSE])
      BY DEF SameLife, Managed
    <3>2. \A x \in Units : units[x] \in Managed
      BY DEF TypeOK
    <3>3. QED
      BY <1>4, <3>1, <3>2 DEF StopBegins
  <2>2. QED
    BY <1>1, <1>4, <2>1, HostKept DEF StopBegins
<1>5. CASE StopTakes
  BY <1>2, <1>3, <1>5, StopOneHost DEF StopTakes
<1>6. CASE StopPresses
  <2>1. PICK lost : life' = [life EXCEPT ![NextToStop] = Killed(@, stop.life, lost)]
    BY <1>6 DEF StopPresses
  <2>2. CASE NextToStop \in Units
    BY <1>1, <1>6, <2>1, <2>2, KillHost DEF StopPresses, TypeOK
  <2>3. CASE NextToStop \notin Units
    BY <1>3, <1>6, <2>1, <2>3 DEF StopPresses, TypeOK
  <2>4. QED
    BY <2>2, <2>3
<1>7. QED
  BY <1>3, <1>5, <1>4, <1>6 DEF StopNext, StopHasStopped

LEMMA NextHost ==
    ASSUME TypeOK, TypeOK', HostInv, [Next]_vars
    PROVE  HostInv'
<1>1. CASE UNCHANGED vars
  BY <1>1, HostKept DEF vars, SameLife, SameWatch
<1>2. CASE Next
  BY <1>2, AttemptHost, LaunchHost, EndHost, TimerHost, InputHost, EngineHost,
     OperatorHost, PolicyHost, StopHost DEF Next
<1>3. QED
  BY <1>1, <1>2

(* The process a unit on the host signals is the one of its current life,  *)
(* whose end is still to be concluded, whatever overtakes whatever: a      *)
(* stop's kill, a window's and a disposal's reach no later life (stopOne,  *)
(* windowElapsed, apply; attempt and ended forget the process).            *)
THEOREM SignalsCorrect == Spec => []SignalsTheCurrentLife
<1>1. Init => TypeOK /\ HostInv
  BY InitType, InitHost
<1>2. TypeOK /\ HostInv /\ [Next]_vars => TypeOK' /\ HostInv'
  BY NextType, NextHost
<1>3. HostInv => SignalsTheCurrentLife
  BY DEF HostInv, HostUnit, SignalsTheCurrentLife
<1>4. QED
  BY <1>1, <1>3, <1>2, PTL DEF Spec

--------------------------------------------------------------------------------
(* No process is lost sight of.  Where a timer is served as it fires, and   *)
(* the engine answers a launch without an error and is heard, and no plugin *)
(* is in a container: each theorem that needs it says so.                   *)
EngineServes == \A u \in Image : ~EngineErrs /\ ~EngineQuiets /\ Kind[u] # "plugin"

(* A process whose end is under way, or that ended.                        *)
Ending(l) == l.doomed \/ l.proc # "up"

(* The process a unit signals is that of the life it will conclude, and one *)
(* that outlives its terminal state is being disposed of.                   *)
Signalled(r, ls) ==
    r.running # 0 => /\ r.running = r.incarnation
                     /\ Terminal(r.state) => Ending(ls[r.running])

(* A process lives where the unit signals it, it is being ended, or the     *)
(* engine is being asked for it.                                            *)
Seen(r, ls) == \A l \in Numbers :
    Alive(ls[l]) => r.running = l \/ Ending(ls[l]) \/ InFlight(ls[l])

(* A launch in flight is superseded, or is of the unit's life that starts. *)
Launching(u, r, ls) == \A l \in Numbers :
    InFlight(ls[l]) =>
        /\ u \in Image \ Skips /\ r.running # l /\ ls[l].watch # "concluded"
        /\ ls[l].launch # "erred"
        /\ ls[l].superseded \/ (r.incarnation = l /\ r.running = 0 /\ r.state = "Starting")

(* A timer is armed once the life before was concluded, and by one end.    *)
Timed(r, ls) ==
    /\ r.timer => /\ r.running = 0 /\ r.state = "Failed"
                  /\ r.incarnation # 0 => ls[r.incarnation].watch = "concluded"
    /\ r.late = 0

(* A unit that is held has not been attempted.                             *)
Unattempted(r) == r.held => r.running = 0 /\ r.incarnation = 0 /\ ~r.timer

Concluded(r, ls) ==
    r.incarnation # 0 /\ ls[r.incarnation].watch = "concluded" => Terminal(r.state) \/ r.windowOut

(* What an attempt finds.                                                  *)
Attemptable(r) == ~r.timer /\ ~r.held /\ (r.running # 0 => Terminal(r.state))

Steady(u, r, ls) ==
    Seen(r, ls) /\ Launching(u, r, ls) /\ Timed(r, ls) /\ Unattempted(r) /\ Concluded(r, ls)

UnitSound(u, r, ls) == Signalled(r, ls) /\ Steady(u, r, ls)

Plugins == {u \in Units : Kind[u] = "plugin"}

UnitsSound ==
    \A u \in Units : /\ UnitSound(u, units[u], life[u])
                     /\ u \in due => Attemptable(units[u])

SightInv ==
    /\ ~quiet /\ withdrawing \subseteq Plugins
    /\ UnitsSound

(* What may befall a life without the unit's losing sight of it.           *)
Gently(l, m) ==
    /\ Alive(m) => Alive(l)
    /\ Ending(l) => Ending(m)
    /\ m.launch = l.launch
    /\ m.watch = l.watch
    /\ l.superseded /\ InFlight(l) => m.superseded

(* A life so dealt with leaves the unit as sound as it was: killed,         *)
(* superseded or doomed.                                                   *)
LEMMA GentlySound ==
    ASSUME NEW u, NEW r \in Managed, NEW ls, NEW ms, \A l \in Numbers : Gently(ls[l], ms[l])
    PROVE  /\ Steady(u, r, ls) => Steady(u, r, ms)
           /\ UnitSound(u, r, ls) => UnitSound(u, r, ms)
<1>1. \A n \in LifeOrNone : n # 0 => n \in Numbers
  BY BoundsAssumption DEF LifeOrNone, Numbers
<1>2. r.running \in LifeOrNone /\ r.incarnation \in LifeOrNone
  BY DEF Managed
<1>3. Signalled(r, ls) => Signalled(r, ms)
  BY <1>1, <1>2 DEF Signalled, Gently
<1>4. Seen(r, ls) => Seen(r, ms)
  BY DEF Seen, Gently, InFlight
<1>5. Launching(u, r, ls) => Launching(u, r, ms)
  BY DEF Launching, Gently, InFlight
<1>6. (Timed(r, ls) => Timed(r, ms)) /\ (Concluded(r, ls) => Concluded(r, ms))
  BY <1>1, <1>2 DEF Timed, Concluded, Gently
<1> QED BY <1>3, <1>5, <1>4, <1>6 DEF Steady, UnitSound

LEMMA KilledGently ==
    ASSUME NEW ls \in [Numbers -> Lives], NEW n \in LifeOrNone, NEW lost, NEW l \in Numbers
    PROVE  Gently(ls[l], Killed(ls, n, lost)[l])
<1>1. ls[l] \in Lives
  OBVIOUS
<1>2. \/ Killed(ls, n, lost)[l] = ls[l]
      \/ Killed(ls, n, lost)[l] = [ls[l] EXCEPT !.proc = "killed"] /\ ls[l].proc = "up"
  BY DEF Killed
<1> QED BY <1>1, <1>2 DEF Gently, Lives, Alive, Ending, InFlight

LEMMA SupersededGently ==
    ASSUME NEW ls \in [Numbers -> Lives], NEW l \in Numbers
    PROVE  /\ Gently(ls[l], Superseded(ls)[l])
           /\ InFlight(ls[l]) => Superseded(ls)[l].superseded
<1>1. ls[l] \in Lives
  OBVIOUS
<1> QED BY <1>1 DEF Superseded, Gently, Lives, Alive, Ending, InFlight

LEMMA DoomedGently ==
    ASSUME NEW ls \in [Numbers -> Lives], NEW n \in Numbers, NEW l \in Numbers
    PROVE  /\ Gently(ls[l], [ls EXCEPT ![n].doomed = TRUE][l])
           /\ Ending([ls EXCEPT ![n].doomed = TRUE][n])
<1>1. ls[l] \in Lives /\ ls[n] \in Lives
  OBVIOUS
<1> QED BY <1>1 DEF Gently, Lives, Alive, Ending, InFlight

(* What an input, and the policy after it, leave of a record.              *)
LEMMA AppliedLeaves ==
    ASSUME NEW u, NEW r \in Managed, NEW in
    PROVE  LET s == Applied(u, r, in)
           IN /\ SameLife(r, s) /\ s.late = r.late
              /\ (s.timer <=> r.timer) /\ (s.held <=> r.held) /\ (s.windowOut <=> r.windowOut)
              /\ Terminal(r.state) => s.state = r.state
              /\ ~Terminal(r.state) => s.state = Weighed(Kind[u], [state |-> r.state, asked |-> r.asked], in)
BY DEF SameLife, Applied, Managed, Apply

LEMMA SettledLeaves ==
    ASSUME NEW u, NEW r \in Managed
    PROVE  LET s == Settled(u, r)
           IN /\ SameLife(r, s) /\ s.state = r.state
              /\ (s.held <=> r.held) /\ (s.windowOut <=> r.windowOut)
              /\ s.timer => r.timer \/ r.state = "Failed"
              /\ ~r.timer => s.late = r.late
              /\ r.state # "Failed" => s = r
BY DEF SameLife, Settled, Managed, Restarts

(* The end of a critical section on a unit, where what it leaves of the    *)
(* unit is steady: the disposal it begins is of what the unit signals.     *)
LEMMA RecordSound ==
    ASSUME TypeOK, UnitsSound, NEW u \in Units, NEW r \in Managed, NEW ls \in [Numbers -> Lives],
           NEW rest \in SUBSET due, u \notin rest,
           Record(u, r, ls, rest), Steady(u, r, ls),
           r.running # 0 => r.running = r.incarnation,
           r.running # 0 /\ Terminal(r.state) => r.state # units[u].state \/ Ending(ls[r.running])
    PROVE  UnitsSound'
<1>1. \A n \in LifeOrNone : n # 0 => n \in Numbers
  BY BoundsAssumption DEF LifeOrNone, Numbers
<1>2. UnitSound(u, units'[u], life'[u])
  <2>1. units'[u] = r
    BY DEF Record, TypeOK
  <2>2. CASE r.state # units[u].state /\ Terminal(r.state) /\ r.running # 0
    <3>1. r.running \in Numbers
      BY <1>1, <2>2 DEF Managed
    <3>2. life'[u] = [ls EXCEPT ![r.running].doomed = TRUE]
      BY <2>2 DEF Record, TypeOK
    <3>3. Steady(u, r, life'[u])
      BY <3>1, <3>2, DoomedGently, GentlySound
    <3>4. Signalled(r, life'[u])
      BY <3>1, <3>2, DoomedGently DEF Signalled
    <3> QED BY <2>1, <3>3, <3>4 DEF UnitSound
  <2>3. CASE ~(r.state # units[u].state /\ Terminal(r.state) /\ r.running # 0)
    <3>1. life'[u] = ls
      BY <2>3 DEF Record, TypeOK
    <3> QED BY <2>1, <2>3, <3>1 DEF UnitSound, Signalled
  <2> QED BY <2>2, <2>3
<1>3. u \notin due'
  BY DEF Record, Freed
<1>4. ASSUME NEW x \in Units, x # u
      PROVE  UnitSound(x, units'[x], life'[x]) /\ (x \in due' => Attemptable(units'[x]))
  <2>1. life'[x] = life[x]
    BY <1>4 DEF Record, TypeOK
  <2>2. units[x] \in Managed /\ UnitSound(x, units[x], life[x]) /\ (x \in due => Attemptable(units[x]))
    BY DEF TypeOK, UnitsSound
  <2>3. CASE units'[x] = units[x]
    <3>1. x \in due' => x \in due \/ (units[x].held /\ ~units'[x].held)
      BY <1>4 DEF Record, Freed, TypeOK, Managed
    <3> QED BY <2>1, <2>3, <2>2, <3>1
  <2>4. CASE units'[x] # units[x]
    <3>1. PICK awaiting \in SUBSET Units, held \in BOOLEAN :
              units'[x] = [units[x] EXCEPT !.awaiting = awaiting, !.held = held] /\ units[x].held
              /\ (x \in due' => x \in due \/ ~held)
      BY <1>4, <2>4 DEF Record, Freed, TypeOK, Managed
    <3> DEFINE s == [units[x] EXCEPT !.awaiting = awaiting, !.held = held]
    <3>2. /\ s.running = units[x].running /\ s.incarnation = units[x].incarnation
          /\ s.state = units[x].state /\ s.timer = units[x].timer /\ s.late = units[x].late
          /\ s.windowOut = units[x].windowOut /\ s.held = held
      BY <2>2 DEF Managed
    <3> HIDE DEF s
    <3>3. units'[x] = s
      BY <3>1 DEF s
    <3>4. UnitSound(x, s, life[x])
      BY <2>2, <3>1, <3>2 DEF UnitSound, Signalled, Steady, Seen, Launching, Timed, Unattempted, Concluded
    <3>5. x \in due' => Attemptable(s)
      BY <2>2, <3>1, <3>2 DEF UnitSound, Steady, Unattempted, Attemptable
    <3> QED BY <2>1, <3>3, <3>4, <3>5
  <2> QED BY <2>3, <2>4
<1> QED BY <1>2, <1>3, <1>4 DEF UnitsSound

(* A unit whose process is gone, or going, is sound without it: given up,  *)
(* begun again with no life yet, with one on the host, or with one the     *)
(* engine is asked for.                                                    *)
LEMMA GivenUp ==
    ASSUME NEW u, NEW r \in Managed, NEW s \in Managed, NEW ls \in [Numbers -> Lives],
           UnitSound(u, r, ls), r.running # 0 => Terminal(r.state),
           \A l \in Numbers : ~InFlight(ls[l]),
           s.running = 0, s.incarnation = 0, ~s.timer, s.late = 0
    PROVE  Steady(u, s, ls)
<1>1. Seen(s, ls)
  BY DEF UnitSound, Signalled, Steady, Seen
<1> QED BY <1>1 DEF Steady, Launching, Timed, Unattempted, Concluded

LEMMA BegunAgain ==
    ASSUME NEW u, NEW r \in Managed, NEW s \in Managed, NEW ls \in [Numbers -> Lives],
           UnitSound(u, r, ls), r.running # 0 => Terminal(r.state),
           s.running = 0, s.incarnation = 0, ~s.held, s.late = 0, s.timer => s.state = "Failed"
    PROVE  Steady(u, s, Superseded(ls))
<1> DEFINE ms == Superseded(ls)
<1>1. \A l \in Numbers : Gently(ls[l], ms[l]) /\ (InFlight(ls[l]) => ms[l].superseded)
  BY SupersededGently
<1> HIDE DEF ms
<1>2. UnitSound(u, r, ms)
  BY <1>1, GentlySound
<1>3. Seen(s, ms)
  BY <1>2 DEF UnitSound, Signalled, Steady, Seen
<1>4. Launching(u, s, ms)
  BY <1>1, <1>2 DEF UnitSound, Steady, Launching, Gently, InFlight, Numbers
<1> QED BY <1>3, <1>4 DEF Steady, Timed, Unattempted, Concluded, ms

LEMMA BegunOnHost ==
    ASSUME NEW u \in Units \ Image, NEW r \in Managed, NEW s \in Managed,
           NEW ls \in [Numbers -> Lives], NEW n \in Numbers, NEW m \in Lives,
           UnitSound(u, r, ls), r.running # 0 => Terminal(r.state),
           s.running = n, s.incarnation = n, ~s.held, s.late = 0, ~s.timer,
           m.launch = "over", m.watch = "watched"
    PROVE  Steady(u, s, [Superseded(ls) EXCEPT ![n] = m])
<1> DEFINE ms == Superseded(ls)
           ns == [ms EXCEPT ![n] = m]
<1>1. ms \in [Numbers -> Lives] /\ \A l \in Numbers : Gently(ls[l], ms[l])
  BY SupersededGently, SupersededType
<1>2. UnitSound(u, r, ms)
  BY <1>1, GentlySound
<1>3. \A l \in Numbers : ns[l] = IF l = n THEN m ELSE ms[l]
  BY <1>1
<1> HIDE DEF ms, ns
<1>4. Seen(s, ns)
  BY <1>2, <1>3, BoundsAssumption DEF UnitSound, Signalled, Steady, Seen, Numbers
<1>5. Launching(u, s, ns)
  BY <1>2, <1>3 DEF UnitSound, Steady, Launching, InFlight
<1> QED BY <1>3, <1>4, <1>5 DEF Steady, Timed, Unattempted, Concluded, ms, ns

LEMMA BegunInContainer ==
    ASSUME NEW u \in Image \ Skips, NEW r \in Managed, NEW s \in Managed,
           NEW ls \in [Numbers -> Lives], NEW n \in Numbers, NEW m \in Lives,
           UnitSound(u, r, ls), r.running # 0 => Terminal(r.state),
           s.running = 0, s.incarnation = n, ~s.held, s.late = 0, ~s.timer, s.state = "Starting",
           m.launch = "asked", m.watch = "no", m.proc = "none"
    PROVE  Steady(u, s, [Superseded(ls) EXCEPT ![n] = m])
<1> DEFINE ms == Superseded(ls)
           ns == [ms EXCEPT ![n] = m]
<1>1. /\ ms \in [Numbers -> Lives]
      /\ \A l \in Numbers : Gently(ls[l], ms[l]) /\ (InFlight(ls[l]) => ms[l].superseded)
  BY SupersededGently, SupersededType
<1>2. UnitSound(u, r, ms)
  BY <1>1, GentlySound
<1>3. \A l \in Numbers : ns[l] = IF l = n THEN m ELSE ms[l]
  BY <1>1
<1> HIDE DEF ms, ns
<1>4. Seen(s, ns)
  BY <1>2, <1>3 DEF UnitSound, Signalled, Steady, Seen, Alive
<1>5. Launching(u, s, ns)
  BY <1>1, <1>2, <1>3 DEF UnitSound, Steady, Launching, Gently, InFlight, Numbers
<1> QED BY <1>3, <1>4, <1>5 DEF Steady, Timed, Unattempted, Concluded, ms, ns

(* A launch that fails before a process leaves no life to signal.          *)
LEMMA FailsLaunch ==
    ASSUME NEW u, NEW r \in Managed, r.running = 0, r.incarnation = 0, ~r.timer, r.late = 0, ~r.held
    PROVE  LET s == FailedLaunch(u, r)
           IN /\ s \in Managed /\ s.running = 0 /\ s.incarnation = 0 /\ ~s.held /\ s.late = 0
              /\ s.timer => s.state = "Failed"
<1> DEFINE a == Applied(u, r, "LaunchFailed")
<1>1. a \in Managed
  BY AppliedType
<1>2. /\ SameLife(r, a) /\ a.late = r.late
      /\ (a.timer <=> r.timer) /\ (a.held <=> r.held)
  BY AppliedLeaves
<1> HIDE DEF a
<1> QED BY <1>1, <1>2, SettledType, SettledLeaves DEF FailedLaunch, SameLife, a

(* An attempt forgets a process only where its end is under way, and        *)
(* supersedes the launch it overtakes.                                     *)
LEMMA AttemptSight ==
    ASSUME TypeOK, SightInv, EngineServes, NEW u \in Units, Attempt(u)
    PROVE  UnitsSound'
<1>1. /\ units[u] \in Managed /\ life[u] \in [Numbers -> Lives] /\ u \in due
      /\ UnitsSound /\ UnitSound(u, units[u], life[u]) /\ Attemptable(units[u])
      /\ due \ {u} \in SUBSET due /\ u \notin due \ {u}
  BY DEF TypeOK, SightInv, UnitsSound, Attempt, Taken, Skip, Decline, AttemptFaults, StartFaults, Spawn, Ask
<1>2. /\ units[u].running # 0 => Terminal(units[u].state)
      /\ ~units[u].timer /\ ~units[u].held /\ units[u].late = 0
  BY <1>1 DEF Attemptable, UnitSound, Steady, Timed
<1>3. Superseded(life[u]) \in [Numbers -> Lives]
  BY <1>1, SupersededType
<1> DEFINE f == Fresh(units[u])
<1>4. /\ f \in Managed /\ f.running = 0 /\ f.incarnation = 0 /\ ~f.held /\ ~f.timer /\ f.late = 0
      /\ f.state = "Starting" /\ f.lives = units[u].lives
  <2>1. f \in Managed
    BY <1>1, FreshType
  <2> QED BY <1>1, <1>2, <2>1 DEF Fresh, NewMachine, Managed
<1> HIDE DEF f
<1>5. CASE Skip(u) \/ Decline(u)
  <2>1. Skipped \in Machines /\ Declined \in Machines
    BY DEF Skipped, Declined, Machines, States, TerminalStates
  <2>2. PICK s \in {Without(units[u], Skipped), DeclinedUnit(units[u])} :
            Record(u, s, life[u], due \ {u})
    BY <1>5 DEF Skip, Decline
  <2>3. Without(units[u], Skipped) \in Managed /\ Without(units[u], Declined) \in Managed
    BY <1>1, <2>1, WithoutType
  <2>4. s \in Managed /\ s.running = 0 /\ s.incarnation = 0 /\ ~s.timer /\ s.late = 0
    <3>1. CASE s = Without(units[u], Skipped)
      BY <1>1, <1>2, <2>3, <3>1 DEF Without, Managed
    <3>2. CASE s = DeclinedUnit(units[u])
      <4> DEFINE w == Without(units[u], Declined)
      <4>1. w \in Managed /\ w.running = 0 /\ w.incarnation = 0 /\ w.late = 0
        BY <1>1, <1>2, <2>3 DEF Without, Managed
      <4> HIDE DEF w
      <4>2. s = [w EXCEPT !.timer = FALSE]
        BY <3>2 DEF DeclinedUnit, w
      <4> QED BY <4>1, <4>2 DEF Managed
    <3> QED BY <2>2, <3>1, <3>2
  <2>5. \A l \in Numbers : ~InFlight(life[u][l])
    BY <1>1, <1>5 DEF UnitSound, Steady, Launching, Skip, Decline, IsDeclined, EngineServes
  <2>6. Steady(u, s, life[u])
    BY <1>1, <1>2, <2>4, <2>5, GivenUp
  <2> QED BY <1>1, <2>2, <2>4, <2>6, RecordSound
<1>6. CASE AttemptFaults(u)
  <2>1. /\ FailedLaunch(u, f) \in Managed /\ FailedLaunch(u, f).running = 0
        /\ Steady(u, FailedLaunch(u, f), Superseded(life[u]))
    BY <1>1, <1>2, <1>4, FailsLaunch, BegunAgain
  <2> QED BY <1>1, <1>3, <1>6, <2>1, RecordSound DEF AttemptFaults, f
<1>7. CASE StartFaults(u)
  <2> DEFINE g == [f EXCEPT !.lives = @ + 1]
  <2>1. /\ g \in Managed /\ g.running = 0 /\ g.incarnation = 0 /\ ~g.held /\ ~g.timer /\ g.late = 0
    <3>1. f.lives + 1 \in LifeOrNone
      <4>1. f.lives \in LifeOrNone
        BY <1>4 DEF Managed
      <4>2. f.lives < MaxLives
        BY <1>4, <1>7 DEF StartFaults
      <4> QED BY <4>1, <4>2, BoundsAssumption DEF LifeOrNone
    <3> QED BY <1>4, <3>1 DEF Managed
  <2> HIDE DEF g
  <2>2. /\ FailedLaunch(u, g) \in Managed /\ FailedLaunch(u, g).running = 0
        /\ Steady(u, FailedLaunch(u, g), Superseded(life[u]))
    BY <1>1, <1>2, <2>1, FailsLaunch, BegunAgain
  <2> QED BY <1>1, <1>3, <1>7, <2>2, RecordSound DEF StartFaults, f, g
<1>8. ASSUME units[u].lives < MaxLives
      PROVE  units[u].lives + 1 \in Numbers /\ units[u].lives + 1 \in LifeOrNone
  <2>1. units[u].lives \in LifeOrNone
    BY <1>1 DEF Managed
  <2> QED BY <1>8, <2>1, BoundsAssumption DEF LifeOrNone, Numbers
<1> DEFINE n == units[u].lives + 1
<1>9. CASE Spawn(u)
  <2> DEFINE g == [f EXCEPT !.lives = n, !.incarnation = n, !.running = n]
             m == [NoLife EXCEPT !.proc = "up", !.launch = "over", !.watch = "watched"]
             s == Applied(u, g, "ProcessStarted")
  <2>1. n \in Numbers /\ n \in LifeOrNone /\ u \in Units \ Image
    BY <1>8, <1>9 DEF Spawn
  <2> HIDE DEF n
  <2>2. /\ g \in Managed /\ g.running = n /\ g.incarnation = n /\ ~g.held /\ ~g.timer /\ g.late = 0
        /\ g.state = "Starting"
    BY <1>4, <2>1 DEF Managed
  <2>3. m \in Lives /\ m.launch = "over" /\ m.watch = "watched"
    BY DEF NoLife, Lives
  <2>4. Record(u, s, [Superseded(life[u]) EXCEPT ![n] = m], due \ {u})
    BY <1>9 DEF Spawn, f, n
  <2> HIDE DEF g, m
  <2>5. /\ s \in Managed /\ SameLife(g, s) /\ ~s.held /\ ~s.timer /\ s.late = 0
        /\ s.state = Weighed(Kind[u], [state |-> g.state, asked |-> g.asked], "ProcessStarted")
    <3>1. s \in Managed
      BY <2>2, AppliedType
    <3>2. /\ SameLife(g, s) /\ s.late = g.late /\ (s.timer <=> g.timer) /\ (s.held <=> g.held)
          /\ ~Terminal(g.state)
               => s.state = Weighed(Kind[u], [state |-> g.state, asked |-> g.asked], "ProcessStarted")
      BY <2>2, AppliedLeaves
    <3> QED BY <2>2, <3>1, <3>2 DEF Terminal, TerminalStates
  <2>6. s.state \in {"Starting", "Running"}
    BY <2>2, <2>5 DEF Weighed
  <2> HIDE DEF s
  <2>7. s.running = n /\ s.incarnation = n
    BY <2>2, <2>5 DEF SameLife
  <2>8. Steady(u, s, [Superseded(life[u]) EXCEPT ![n] = m])
    BY <1>1, <1>2, <2>1, <2>3, <2>5, <2>7, BegunOnHost
  <2>9. [Superseded(life[u]) EXCEPT ![n] = m] \in [Numbers -> Lives]
    BY <1>3, <2>3
  <2> QED BY <1>1, <2>4, <2>6, <2>5, <2>7, <2>8, <2>9, RecordSound DEF Terminal, TerminalStates
<1>10. CASE Ask(u)
  <2> DEFINE s == [f EXCEPT !.lives = n, !.incarnation = n]
             m == [NoLife EXCEPT !.launch = "asked"]
  <2>1. n \in Numbers /\ n \in LifeOrNone /\ u \in Image \ Skips
    BY <1>8, <1>10 DEF Ask, GoesAhead
  <2> HIDE DEF n
  <2>2. /\ s \in Managed /\ s.running = 0 /\ s.incarnation = n /\ ~s.held /\ ~s.timer /\ s.late = 0
        /\ s.state = "Starting"
    BY <1>4, <2>1 DEF Managed
  <2>3. m \in Lives /\ m.launch = "asked" /\ m.watch = "no" /\ m.proc = "none"
    BY DEF NoLife, Lives
  <2>4. Record(u, s, [Superseded(life[u]) EXCEPT ![n] = m], due \ {u})
    BY <1>10 DEF Ask, f, n
  <2> HIDE DEF s, m
  <2>5. Steady(u, s, [Superseded(life[u]) EXCEPT ![n] = m])
    BY <1>1, <1>2, <2>1, <2>2, <2>3, BegunInContainer
  <2>6. [Superseded(life[u]) EXCEPT ![n] = m] \in [Numbers -> Lives]
    BY <1>3, <2>3
  <2> QED BY <1>1, <2>2, <2>4, <2>5, <2>6, RecordSound
<1> QED BY <1>5, <1>6, <1>7, <1>9, <1>10 DEF Attempt

(* A step that is no end of a critical section touches one unit.           *)
LEMMA UnitSet ==
    ASSUME TypeOK, UnitsSound, NEW u \in Units, NEW s, NEW ms,
           units' = [units EXCEPT ![u] = s], life' = [life EXCEPT ![u] = ms],
           UnitSound(u, s, ms), u \in due' => Attemptable(s), due' \subseteq due \cup {u}
    PROVE  UnitsSound'
<1>1. units'[u] = s /\ life'[u] = ms
  BY DEF TypeOK
<1>2. ASSUME NEW x \in Units, x # u
      PROVE  /\ units'[x] = units[x] /\ life'[x] = life[x]
             /\ x \in due' => x \in due
  BY <1>2 DEF TypeOK
<1> QED BY <1>1, <1>2 DEF UnitsSound

LEMMA UnitAlone ==
    ASSUME TypeOK, UnitsSound, NEW u \in Units, NEW s,
           units' = [units EXCEPT ![u] = s], life' = life,
           UnitSound(u, s, life[u]), u \in due' => Attemptable(s), due' \subseteq due \cup {u}
    PROVE  UnitsSound'
<1>1. units'[u] = s
  BY DEF TypeOK
<1>2. ASSUME NEW x \in Units, x # u
      PROVE  units'[x] = units[x] /\ (x \in due' => x \in due)
  BY <1>2 DEF TypeOK
<1> QED BY <1>1, <1>2 DEF UnitsSound

(* A record that asks for no more than it did.                             *)
LEMMA Eased ==
    ASSUME NEW u, NEW r \in Managed, NEW s \in Managed, NEW ls, UnitSound(u, r, ls),
           SameLife(r, s), s.state = r.state, s.late = 0,
           s.timer => r.timer, s.held => r.held, r.windowOut => s.windowOut
    PROVE  UnitSound(u, s, ls)
BY DEF UnitSound, Signalled, Steady, Seen, Launching, Timed, Unattempted, Concluded, SameLife

(* What may befall one life of a unit.                                     *)
LEMMA LifeSet ==
    ASSUME NEW u, NEW r \in Managed, NEW ls \in [Numbers -> Lives], NEW l \in Numbers, NEW m,
           UnitSound(u, r, ls),
           r.running = l => Ending(m),
           Alive(m) => r.running = l \/ Ending(m) \/ InFlight(m),
           InFlight(m) => /\ InFlight(ls[l]) /\ m.superseded = ls[l].superseded
                          /\ m.watch # "concluded" /\ m.launch # "erred",
           ls[l].watch = "concluded" => m.watch = "concluded",
           m.watch = "concluded" => ls[l].watch = "concluded" \/ r.incarnation # l
    PROVE  UnitSound(u, r, [ls EXCEPT ![l] = m])
<1> DEFINE ms == [ls EXCEPT ![l] = m]
<1>1. \A k \in Numbers : ms[k] = IF k = l THEN m ELSE ls[k]
  OBVIOUS
<1>2. \A n \in LifeOrNone : n # 0 => n \in Numbers
  BY BoundsAssumption DEF LifeOrNone, Numbers
<1>3. r.running \in LifeOrNone /\ r.incarnation \in LifeOrNone
  BY DEF Managed
<1> HIDE DEF ms
<1>4. Signalled(r, ms)
  BY <1>1, <1>2, <1>3 DEF UnitSound, Signalled
<1>5. Seen(r, ms)
  BY <1>1 DEF UnitSound, Steady, Seen
<1>6. Launching(u, r, ms)
  BY <1>1 DEF UnitSound, Steady, Launching
<1>7. Timed(r, ms) /\ Concluded(r, ms)
  BY <1>1, <1>2, <1>3 DEF UnitSound, Steady, Timed, Concluded
<1> QED BY <1>4, <1>6, <1>5, <1>7 DEF UnitSound, Steady, ms

(* A step that touches the lives of one unit alone.                        *)
LEMMA LifeStep ==
    ASSUME TypeOK, UnitsSound, NEW u \in Units, NEW ms,
           life' = [life EXCEPT ![u] = ms], UNCHANGED <<units, due>>, UnitSound(u, units[u], ms)
    PROVE  UnitsSound'
<1>1. units' = [units EXCEPT ![u] = units[u]]
  BY DEF TypeOK
<1>2. u \in due' => Attemptable(units[u])
  BY DEF UnitsSound
<1> QED BY <1>1, <1>2, UnitSet

(* The engine's answers to a launch.                                       *)
LEMMA LaunchSight ==
    ASSUME TypeOK, SightInv, EngineServes, NEW u \in Units, NEW l \in Numbers, LaunchNext(u, l)
    PROVE  UnitsSound'
<1>1. /\ units[u] \in Managed /\ life[u] \in [Numbers -> Lives] /\ life[u][l] \in Lives
      /\ UnitsSound /\ UnitSound(u, units[u], life[u]) /\ ~quiet
  BY DEF TypeOK, SightInv, UnitsSound
<1>2. /\ InFlight(life[u][l]) /\ u \in Image /\ units[u].running # l
      /\ life[u][l].watch # "concluded"
      /\ life[u][l].superseded \/ /\ units[u].incarnation = l /\ units[u].running = 0
                                  /\ units[u].state = "Starting"
  <2>1. InFlight(life[u][l])
    BY DEF LaunchNext, LaunchFails, LaunchStarts, StartErrs, LaunchRecorded, InFlight
  <2> QED BY <1>1, <2>1 DEF UnitSound, Steady, Launching
<1>3. ~EngineErrs /\ Kind[u] # "plugin"
  BY <1>2 DEF EngineServes
<1>4. CASE LaunchStarts(u, l)
  <2> DEFINE m == [life[u][l] EXCEPT !.launch = "started", !.proc = "up", !.watch = "watched"]
  <2>1. m.launch = "started" /\ m.proc = "up" /\ m.watch = "watched" /\ m.superseded = life[u][l].superseded
    BY <1>1 DEF Lives
  <2>2. life' = [life EXCEPT ![u] = [life[u] EXCEPT ![l] = m]] /\ UNCHANGED <<units, due>>
    BY <1>4 DEF LaunchStarts, SetLife, TypeOK
  <2> HIDE DEF m
  <2>3. UnitSound(u, units[u], [life[u] EXCEPT ![l] = m])
    BY <1>1, <1>2, <2>1, LifeSet DEF InFlight
  <2> QED BY <1>1, <2>2, <2>3, LifeStep
<1>5. CASE LaunchRecorded(u, l)
  <2> DEFINE o == Over(life[u], l)
  <2>1. o \in [Numbers -> Lives]
    BY <1>1, OverType
  <2>2. /\ o[l].launch = "over" /\ o[l].watch = life[u][l].watch /\ o[l].proc = life[u][l].proc
        /\ \A k \in Numbers \ {l} : o[k] = life[u][k]
    BY <1>1 DEF Over, Lives
  <2> HIDE DEF o
  <2>3. CASE life[u][l].superseded \/ stopping
    <3>1. life' = [life EXCEPT ![u] = Killed(o, l, FALSE)] /\ UNCHANGED <<units, due>>
      BY <1>1, <1>5, <2>3 DEF LaunchRecorded, MayBeLost, Unreachable, o
    <3> DEFINE m == Killed(o, l, FALSE)[l]
    <3>2. /\ m.launch = "over" /\ m.watch = life[u][l].watch /\ m.proc # "up"
          /\ Killed(o, l, FALSE) = [life[u] EXCEPT ![l] = m]
      <4>1. Killed(o, l, FALSE) \in [Numbers -> Lives]
        BY <2>1, KilledType
      <4>2. \/ m = o[l] /\ o[l].proc # "up"
            \/ m = [o[l] EXCEPT !.proc = "killed"]
        BY <2>1 DEF Killed
      <4>3. \A k \in Numbers \ {l} : Killed(o, l, FALSE)[k] = life[u][k]
        BY <2>1, <2>2 DEF Killed
      <4>4. m.launch = "over" /\ m.watch = life[u][l].watch /\ m.proc # "up"
        BY <2>1, <2>2, <4>2 DEF Lives
      <4> QED BY <1>1, <4>1, <4>3, <4>4
    <3> HIDE DEF m
    <3>3. UnitSound(u, units[u], [life[u] EXCEPT ![l] = m])
      BY <1>1, <1>2, <3>2, LifeSet DEF InFlight, Ending
    <3> QED BY <1>1, <3>1, <3>2, <3>3, LifeStep
  <2>4. CASE ~(life[u][l].superseded \/ stopping)
    <3> DEFINE g == [units[u] EXCEPT !.running = l]
               s == Applied(u, g, "ProcessStarted")
    <3>1. /\ g \in Managed /\ g.running = l /\ g.incarnation = l /\ g.state = "Starting"
          /\ ~g.timer /\ ~g.held /\ g.late = 0
      <4>1. l \in LifeOrNone /\ l # 0
        BY BoundsAssumption DEF Numbers, LifeOrNone
      <4> QED BY <1>1, <1>2, <2>4, <4>1 DEF UnitSound, Steady, Timed, Unattempted, Managed
    <3>2. Record(u, s, o, due) /\ due = {}
      BY <1>5, <2>4 DEF LaunchRecorded, Unlocked, o
    <3> HIDE DEF g
    <3>3. s \in Managed
      BY <3>1, AppliedType
    <3>4. /\ SameLife(g, s) /\ s.late = g.late /\ (s.timer <=> g.timer) /\ (s.held <=> g.held)
          /\ ~Terminal(g.state)
               => s.state = Weighed(Kind[u], [state |-> g.state, asked |-> g.asked], "ProcessStarted")
      BY <3>1, AppliedLeaves
    <3>5. /\ s.state = "Running" /\ s.running = l /\ s.incarnation = l /\ ~s.timer /\ ~s.held
          /\ s.late = 0
      BY <1>3, <3>1, <3>4 DEF Weighed, Terminal, TerminalStates, SameLife
    <3> HIDE DEF s
    <3>6. Seen(s, o)
      BY <1>1, <1>2, <2>2, <2>4, <3>5, BoundsAssumption DEF UnitSound, Steady, Seen, Numbers
    <3>7. Launching(u, s, o)
      BY <1>1, <1>2, <2>2, <2>4, <3>5 DEF UnitSound, Steady, Launching, InFlight
    <3>8. Steady(u, s, o)
      BY <1>2, <2>2, <3>5, <3>6, <3>7 DEF Steady, Timed, Unattempted, Concluded
    <3> QED BY <1>1, <2>1, <3>2, <3>3, <3>5, <3>8, RecordSound DEF Terminal, TerminalStates
  <2> QED BY <2>3, <2>4
<1> QED BY <1>3, <1>4, <1>5 DEF LaunchNext, LaunchFails, StartErrs

(* A process ends, its end is heard and concluded, or it is disposed of.   *)
LEMMA EndSight ==
    ASSUME TypeOK, SightInv, NEW u \in Units, NEW l \in Numbers, EndNext(u, l)
    PROVE  UnitsSound'
<1>1. /\ units[u] \in Managed /\ life[u] \in [Numbers -> Lives] /\ life[u][l] \in Lives
      /\ UnitsSound /\ UnitSound(u, units[u], life[u]) /\ ~quiet
      /\ life[u][l].launch # "erred"
  BY DEF TypeOK, SightInv, UnitsSound, UnitSound, Steady, Launching, InFlight
<1>2. CASE Ends(u, l)
  <2>1. PICK how \in {"zero", "nonzero"} :
            SetLife(u, l, [life[u][l] EXCEPT !.proc = how]) /\ UNCHANGED <<units, due>>
    BY <1>2 DEF Ends
  <2> DEFINE m == [life[u][l] EXCEPT !.proc = how]
  <2>2. /\ ~Alive(m) /\ Ending(m) /\ (InFlight(m) => InFlight(life[u][l]))
        /\ m.superseded = life[u][l].superseded /\ m.watch = life[u][l].watch
        /\ m.launch = life[u][l].launch
    BY <1>1 DEF Lives, Alive, Ending, InFlight
  <2>3. life' = [life EXCEPT ![u] = [life[u] EXCEPT ![l] = m]]
    BY <2>1 DEF SetLife, TypeOK
  <2> HIDE DEF m
  <2>4. InFlight(life[u][l]) => life[u][l].watch # "concluded"
    BY <1>1 DEF UnitSound, Steady, Launching
  <2>5. UnitSound(u, units[u], [life[u] EXCEPT ![l] = m])
    BY <1>1, <2>2, <2>4, LifeSet
  <2> QED BY <1>1, <2>1, <2>3, <2>5, LifeStep
<1>3. CASE HearEnd(u, l)
  <2> DEFINE m == [life[u][l] EXCEPT !.watch = "heard"]
  <2>1. /\ ~Alive(m) /\ Ending(m) /\ (InFlight(m) => InFlight(life[u][l]))
        /\ m.superseded = life[u][l].superseded /\ m.watch = "heard" /\ life[u][l].watch = "watched"
        /\ m.launch = life[u][l].launch
    BY <1>1, <1>3 DEF HearEnd, Lives, Alive, Ending, InFlight, Gone
  <2>2. life' = [life EXCEPT ![u] = [life[u] EXCEPT ![l] = m]] /\ UNCHANGED <<units, due>>
    BY <1>3 DEF HearEnd, SetLife, TypeOK
  <2> HIDE DEF m
  <2>3. UnitSound(u, units[u], [life[u] EXCEPT ![l] = m])
    BY <1>1, <2>1, LifeSet
  <2> QED BY <1>1, <2>2, <2>3, LifeStep
<1>4. CASE DisposeKill(u, l)
  <2> DEFINE k == Killed(life[u], l, FALSE)
             m == [life[u][l] EXCEPT !.proc = "killed", !.doomed = FALSE]
  <2>1. k = [life[u] EXCEPT ![l] = [life[u][l] EXCEPT !.proc = "killed"]]
    BY <1>1, <1>4 DEF DisposeKill, Killed
  <2>2. life' = [life EXCEPT ![u] = [k EXCEPT ![l].doomed = FALSE]] /\ UNCHANGED <<units, due>>
    BY <1>1, <1>4 DEF DisposeKill, MayBeLost, Unreachable
  <2> HIDE DEF k
  <2>3. k[l] = [life[u][l] EXCEPT !.proc = "killed"]
    BY <1>1, <2>1
  <2>4. [k EXCEPT ![l].doomed = FALSE] = [k EXCEPT ![l] = [k[l] EXCEPT !.doomed = FALSE]]
    OBVIOUS
  <2>5. [k[l] EXCEPT !.doomed = FALSE] = m
    BY <1>1, <2>3 DEF Lives
  <2>6. [k EXCEPT ![l] = m] = [life[u] EXCEPT ![l] = m]
    <3> DEFINE ms == [k EXCEPT ![l] = m]
               ns == [life[u] EXCEPT ![l] = m]
    <3>1. k \in [Numbers -> Lives] /\ \A n \in Numbers : n # l => k[n] = life[u][n]
      <4>1. [life[u][l] EXCEPT !.proc = "killed"] \in Lives
        BY <1>1 DEF Lives
      <4> QED BY <1>1, <2>1, <4>1
    <3>2. m \in Lives
      BY <1>1 DEF Lives
    <3> HIDE DEF m
    <3>3. ms \in [Numbers -> Lives] /\ \A n \in Numbers : ms[n] = IF n = l THEN m ELSE life[u][n]
      BY <3>1, <3>2
    <3>4. ns \in [Numbers -> Lives] /\ \A n \in Numbers : ns[n] = IF n = l THEN m ELSE life[u][n]
      BY <1>1, <3>2
    <3> HIDE DEF ms, ns
    <3>5. ms = ns
      BY <3>3, <3>4
    <3> QED BY <3>5 DEF ms, ns
  <2>7. /\ m.proc = "killed" /\ m.launch = life[u][l].launch /\ m.watch = life[u][l].watch
        /\ m.superseded = life[u][l].superseded
    BY <1>1 DEF Lives
  <2> HIDE DEF m
  <2>8. InFlight(life[u][l]) => life[u][l].watch # "concluded"
    BY <1>1 DEF UnitSound, Steady, Launching
  <2>9. UnitSound(u, units[u], [life[u] EXCEPT ![l] = m])
    BY <1>1, <2>7, <2>8, LifeSet DEF InFlight, Ending
  <2> QED BY <1>1, <2>2, <2>4, <2>5, <2>6, <2>9, LifeStep
<1>5. CASE Conclude(u, l)
  <2> DEFINE m == [life[u][l] EXCEPT !.watch = "concluded", !.doomed = FALSE]
             ms == [life[u] EXCEPT ![l] = m]
             g == [units[u] EXCEPT !.running = 0]
             in == IF g.windowOut THEN "WindowElapsed" ELSE ExitOf(life[u][l])
             a == Applied(u, g, in)
             s == Settled(u, a)
  <2>1. /\ ~Alive(m) /\ Ending(m) /\ ~InFlight(m) /\ m.watch = "concluded" /\ m \in Lives
        /\ life[u][l].watch # "concluded"
    BY <1>1, <1>5 DEF Conclude, EndReached, Lives, Alive, Ending, InFlight, Gone
  <2>2. ms = [life[u] EXCEPT ![l] = [@ EXCEPT !.watch = "concluded", !.doomed = FALSE]]
    OBVIOUS
  <2>3. IF units[u].incarnation # l
        THEN life' = [life EXCEPT ![u] = ms] /\ UNCHANGED <<units, due>>
        ELSE Record(u, s, ms, due)
    BY <1>5, <2>2 DEF Conclude
  <2>4. due = {} /\ ms \in [Numbers -> Lives] /\ \A k \in Numbers : ms[k] = IF k = l THEN m ELSE life[u][k]
    BY <1>1, <1>5, <2>1 DEF Conclude, Unlocked
  <2>5. CASE units[u].incarnation # l
    <3>1. UnitSound(u, units[u], ms)
      BY <1>1, <2>1, <2>5, LifeSet
    <3> QED BY <1>1, <2>3, <2>5, <3>1, LifeStep
  <2>6. CASE units[u].incarnation = l
    <3>1. l # 0
      BY BoundsAssumption DEF Numbers
    <3>2. /\ g \in Managed /\ g.running = 0 /\ g.incarnation = l /\ g.state = units[u].state
          /\ ~g.timer /\ ~g.held /\ g.late = 0
      <4>1. 0 \in LifeOrNone
        BY BoundsAssumption DEF LifeOrNone
      <4> QED BY <1>1, <2>1, <2>6, <3>1, <4>1 DEF UnitSound, Steady, Timed, Unattempted, Managed
    <3> HIDE DEF m, ms, g
    <3>3. in = IF g.windowOut THEN "WindowElapsed" ELSE ExitOf(life[u][l])
      OBVIOUS
    <3> HIDE DEF in
    <3>4. a \in Managed
      BY <3>2, AppliedType
    <3>5. /\ SameLife(g, a) /\ a.late = g.late /\ (a.timer <=> g.timer) /\ (a.held <=> g.held)
          /\ (a.windowOut <=> g.windowOut)
          /\ Terminal(g.state) => a.state = g.state
          /\ ~Terminal(g.state)
               => a.state = Weighed(Kind[u], [state |-> g.state, asked |-> g.asked], in)
      BY <3>2, AppliedLeaves
    <3>6. Terminal(a.state) \/ a.windowOut
      <4>1. CASE Terminal(g.state) \/ g.windowOut
        BY <3>5, <4>1
      <4>2. CASE ~Terminal(g.state) /\ ~g.windowOut
        <5>1. in \in {"ExitedZero", "ExitedNonzero"}
          BY <3>3, <4>2 DEF ExitOf
        <5> QED BY <3>5, <4>2, <5>1 DEF Weighed, Exited, Terminal, TerminalStates
      <4> QED BY <4>1, <4>2
    <3> HIDE DEF a
    <3>7. s \in Managed
      BY <3>4, SettledType
    <3>8. /\ SameLife(a, s) /\ s.state = a.state /\ (s.held <=> a.held) /\ (s.windowOut <=> a.windowOut)
          /\ s.timer => a.timer \/ a.state = "Failed"
          /\ ~a.timer => s.late = a.late
      BY <3>4, SettledLeaves
    <3> HIDE DEF s
    <3>9. /\ s.running = 0 /\ s.incarnation = l /\ ~s.held /\ s.late = 0
          /\ (s.timer => s.state = "Failed") /\ (Terminal(s.state) \/ s.windowOut)
      BY <3>2, <3>5, <3>6, <3>8 DEF SameLife
    <3>10. \A k \in Numbers : k # l => units[u].running # k
      BY <1>1, <2>6, BoundsAssumption DEF UnitSound, Signalled, Numbers
    <3>11. Seen(s, ms)
      BY <1>1, <2>1, <2>4, <3>10 DEF UnitSound, Steady, Seen
    <3>12. Launching(u, s, ms)
      BY <1>1, <2>1, <2>4, <2>6, <3>9, BoundsAssumption DEF UnitSound, Steady, Launching, Numbers
    <3>13. Steady(u, s, ms)
      BY <2>1, <2>4, <3>9, <3>11, <3>12 DEF Steady, Timed, Unattempted, Concluded
    <3> QED BY <1>1, <2>3, <2>4, <2>6, <3>7, <3>9, <3>13, RecordSound
  <2> QED BY <2>5, <2>6
<1> QED BY <1>2, <1>4, <1>3, <1>5 DEF EndNext

(* A timer fires, and its callback is served before anything else.         *)
LEMMA TimerSight ==
    ASSUME TypeOK, SightInv, ~TimersOvertaken, NEW u \in Units, TimerNext(u)
    PROVE  UnitsSound'
<1>1. /\ units[u] \in Managed /\ life[u] \in [Numbers -> Lives]
      /\ UnitsSound /\ UnitSound(u, units[u], life[u]) /\ ~quiet /\ units[u].late = 0
  BY DEF TypeOK, SightInv, UnitsSound, UnitSound, Steady, Timed
<1>3. CASE WindowElapsed(u)
  <2> DEFINE s == [units[u] EXCEPT !.windowOut = TRUE]
             ms == Killed(life[u], units[u].running, FALSE)
  <2>1. units' = [units EXCEPT ![u] = s] /\ life' = [life EXCEPT ![u] = ms] /\ due' = due /\ due = {}
    BY <1>1, <1>3 DEF WindowElapsed, MayBeLost, Unreachable, Unlocked, TypeOK
  <2>2. /\ s \in Managed /\ SameLife(units[u], s) /\ s.state = units[u].state /\ s.late = 0
        /\ s.windowOut /\ (s.timer => units[u].timer) /\ (s.held => units[u].held)
    BY <1>1 DEF Managed, SameLife
  <2> HIDE DEF s
  <2>3. UnitSound(u, s, life[u])
    BY <1>1, <2>2, Eased
  <2>4. units[u].running \in LifeOrNone
    BY <1>1 DEF Managed
  <2>5. \A l \in Numbers : Gently(life[u][l], ms[l])
    BY <1>1, <2>4, KilledGently
  <2> HIDE DEF ms
  <2>6. UnitSound(u, s, ms)
    BY <2>2, <2>3, <2>5, GentlySound
  <2> QED BY <1>1, <2>1, <2>6, UnitSet
<1>4. CASE NeverArrived(u)
  <2> DEFINE s == [units[u] EXCEPT !.held = FALSE, !.awaiting = {}, !.notStarted = TRUE]
  <2>1. units' = [units EXCEPT ![u] = s] /\ life' = life /\ due' = due /\ due = {}
    BY <1>4 DEF NeverArrived, Unlocked, TypeOK
  <2>2. /\ s \in Managed /\ SameLife(units[u], s) /\ s.state = units[u].state /\ s.late = 0
        /\ (s.windowOut <=> units[u].windowOut) /\ (s.timer => units[u].timer) /\ ~s.held
    BY <1>1 DEF Managed, SameLife
  <2> HIDE DEF s
  <2>3. UnitSound(u, s, life[u])
    BY <1>1, <2>2, Eased
  <2> QED BY <1>1, <2>1, <2>3, UnitAlone
<1>5. CASE TimerFires(u)
  <2> DEFINE s == [units[u] EXCEPT !.timer = FALSE]
  <2>1. units' = [units EXCEPT ![u] = s] /\ life' = life /\ due' = {u} /\ units[u].timer
    BY <1>5 DEF TimerFires, TypeOK
  <2>2. /\ s \in Managed /\ SameLife(units[u], s) /\ s.state = units[u].state /\ s.late = 0
        /\ (s.windowOut <=> units[u].windowOut) /\ ~s.timer /\ (s.held <=> units[u].held)
    BY <1>1 DEF Managed, SameLife
  <2> HIDE DEF s
  <2>3. UnitSound(u, s, life[u])
    BY <1>1, <2>2, Eased
  <2>4. Attemptable(s)
    BY <1>1, <2>1, <2>2 DEF UnitSound, Steady, Timed, Unattempted, Attemptable, SameLife
  <2> QED BY <1>1, <2>1, <2>3, <2>4, UnitAlone
<1>6. ~TimerIsLate(u) /\ ~LateCallback(u)
  BY <1>1 DEF TimerIsLate, LateCallback
<1> QED BY <1>3, <1>5, <1>4, <1>6 DEF TimerNext

(* What an input makes of a unit that is not terminal leaves it as steady  *)
(* as it was; nothing is asked of the engine for it.                       *)
LEMMA Weighing ==
    ASSUME NEW u, NEW r \in Managed, NEW s \in Managed, NEW ls, UnitSound(u, r, ls),
           ~Terminal(r.state), \A l \in Numbers : ~InFlight(ls[l]),
           SameLife(r, s), s.late = 0, s.timer => r.timer, s.held => r.held,
           s.windowOut <=> r.windowOut
    PROVE  Steady(u, s, ls) /\ (s.running # 0 => s.running = s.incarnation)
<1>1. ~r.timer
  BY DEF UnitSound, Steady, Timed, Terminal, TerminalStates
<1> QED BY <1>1 DEF UnitSound, Signalled, Steady, Seen, Launching, Timed, Unattempted, Concluded, SameLife

(* No container is a plugin's: the engine is asked nothing for one.        *)
LEMMA PluginOnHost ==
    ASSUME UnitsSound, EngineServes, NEW u \in Units, Kind[u] = "plugin"
    PROVE  \A l \in Numbers : ~InFlight(life[u][l])
BY DEF UnitsSound, UnitSound, Steady, Launching, EngineServes

(* An input that ends a Plugin unit leaves its process to be disposed of.  *)
LEMMA InputSight ==
    ASSUME TypeOK, SightInv, EngineServes, NEW u \in Units, NEW in, Input(u, in)
    PROVE  UnitsSound'
<1> DEFINE r == units[u]
           a == Applied(u, r, in)
<1>1. /\ r \in Managed /\ life[u] \in [Numbers -> Lives] /\ UnitsSound /\ UnitSound(u, r, life[u])
      /\ {} \in SUBSET due /\ u \notin {}
  BY DEF TypeOK, SightInv, UnitsSound
<1>2. Record(u, a, life[u], {}) /\ a.state # r.state /\ Kind[u] = "plugin"
  BY DEF Input
<1>3. r.late = 0
  BY <1>1 DEF UnitSound, Steady, Timed
<1> HIDE DEF r
<1>4. a \in Managed
  BY <1>1, AppliedType
<1>5. /\ SameLife(r, a) /\ a.late = r.late /\ (a.timer <=> r.timer) /\ (a.held <=> r.held)
      /\ (a.windowOut <=> r.windowOut) /\ (Terminal(r.state) => a.state = r.state)
      /\ ~Terminal(r.state) => a.state = Weighed(Kind[u], [state |-> r.state, asked |-> r.asked], in)
  BY <1>1, AppliedLeaves
<1> HIDE DEF a
<1>6. ~Terminal(r.state)
  BY <1>2, <1>5
<1>7. \A l \in Numbers : ~InFlight(life[u][l])
  BY <1>1, <1>2, PluginOnHost
<1>8. Steady(u, a, life[u]) /\ (a.running # 0 => a.running = a.incarnation)
  BY <1>1, <1>3, <1>5, <1>4, <1>6, <1>7, Weighing
<1> QED BY <1>1, <1>2, <1>4, <1>8, RecordSound DEF r

(* stopOne, whoever calls it, leaves a unit's state as it is.              *)
LEMMA StopOneSight ==
    ASSUME TypeOK, UnitsSound, due = {}, NEW u \in Units, StopOne(u)
    PROVE  UnitsSound'
<1> DEFINE r == [units[u] EXCEPT !.timer = FALSE]
           a == Applied(u, r, "StopAsked")
           s == IF r.running = 0 THEN r ELSE a
           ms == Superseded(life[u])
<1>1. /\ units[u] \in Managed /\ life[u] \in [Numbers -> Lives] /\ UnitSound(u, units[u], life[u])
      /\ units[u].late = 0 /\ {} \in SUBSET due /\ u \notin {}
  BY DEF TypeOK, UnitsSound, UnitSound, Steady, Timed
<1>2. Record(u, s, ms, {})
  BY DEF StopOne
<1>3. /\ r \in Managed /\ SameLife(units[u], r) /\ r.state = units[u].state /\ r.late = 0
      /\ ~r.timer /\ (r.held <=> units[u].held) /\ (r.windowOut <=> units[u].windowOut)
  BY <1>1 DEF Managed, SameLife
<1> HIDE DEF r
<1>4. a \in Managed
  BY <1>3, AppliedType
<1>5. /\ SameLife(r, a) /\ a.late = r.late /\ (a.timer <=> r.timer) /\ (a.held <=> r.held)
      /\ (a.windowOut <=> r.windowOut) /\ (Terminal(r.state) => a.state = r.state)
      /\ ~Terminal(r.state) => a.state = Weighed(Kind[u], [state |-> r.state, asked |-> r.asked], "StopAsked")
  BY <1>3, AppliedLeaves
<1>6. a.state = r.state
  BY <1>5 DEF Weighed
<1> HIDE DEF a
<1>7. /\ s \in Managed /\ SameLife(units[u], s) /\ s.state = units[u].state /\ s.late = 0
      /\ ~s.timer /\ (s.held => units[u].held) /\ (units[u].windowOut => s.windowOut)
  BY <1>3, <1>5, <1>4, <1>6 DEF SameLife
<1> HIDE DEF s
<1>8. UnitSound(u, s, life[u])
  BY <1>1, <1>7, Eased
<1>9. ms \in [Numbers -> Lives] /\ \A l \in Numbers : Gently(life[u][l], ms[l])
  BY <1>1, SupersededType, SupersededGently
<1> HIDE DEF ms
<1>10. UnitSound(u, s, ms)
  BY <1>7, <1>8, <1>9, GentlySound
<1>11. /\ s.running # 0 => s.running = s.incarnation
       /\ s.running # 0 /\ Terminal(s.state) => Ending(ms[s.running])
  BY <1>10 DEF UnitSound, Signalled
<1> QED BY <1>1, <1>2, <1>7, <1>9, <1>10, <1>11, RecordSound DEF UnitSound

(* What the unit signalled once is ended, whoever presses it.              *)
LEMMA PressSight ==
    ASSUME TypeOK, UnitsSound, NEW u \in Units, NEW n \in LifeOrNone, NEW lost,
           life' = [life EXCEPT ![u] = Killed(@, n, lost)], UNCHANGED <<units, due>>
    PROVE  UnitsSound'
<1> DEFINE ms == Killed(life[u], n, lost)
<1>1. units[u] \in Managed /\ life[u] \in [Numbers -> Lives] /\ UnitSound(u, units[u], life[u])
  BY DEF TypeOK, UnitsSound
<1>2. \A l \in Numbers : Gently(life[u][l], ms[l])
  BY <1>1, KilledGently
<1>3. life' = [life EXCEPT ![u] = ms]
  OBVIOUS
<1> HIDE DEF ms
<1>4. UnitSound(u, units[u], ms)
  BY <1>1, <1>2, GentlySound
<1> QED BY <1>3, <1>4, LifeStep

LEMMA StillSight ==
    ASSUME UnitsSound, UNCHANGED <<units, life, due>>
    PROVE  UnitsSound'
BY DEF UnitsSound

(* An operator's stop and start, each as far as it gets before it waits.   *)
LEMMA OperatorSight ==
    ASSUME TypeOK, SightInv, NEW o \in Operators, OperatorNext(o)
    PROVE  UnitsSound'
<1>1. UnitsSound /\ (call[o] # Idle => call[o] \in Calls)
  BY DEF SightInv, TypeOK
<1>2. CASE UNCHANGED <<units, life, due>>
  BY <1>1, <1>2, StillSight
<1>3. CASE StopUnit(o)
  <2>1. call[o].unit \in Units /\ StopOne(call[o].unit) /\ due = {}
    BY <1>1, <1>3 DEF StopUnit, Calls, Unlocked
  <2> QED BY <1>1, <2>1, StopOneSight
<1>4. CASE PressUnit(o)
  <2>1. call[o].unit \in Units /\ call[o].life \in LifeOrNone
    BY <1>1, <1>4 DEF PressUnit, Calls
  <2>2. PICK lost : life' = [life EXCEPT ![call[o].unit] = Killed(@, call[o].life, lost)]
    BY <1>4 DEF PressUnit
  <2>3. UNCHANGED <<units, due>>
    BY <1>4 DEF PressUnit
  <2> QED BY <1>1, <2>1, <2>2, <2>3, PressSight
<1>5. CASE StartUnit(o) /\ ~LeftAsItIs(call[o].unit)
  <2> DEFINE u == call[o].unit
             s == [units[u] EXCEPT !.timer = FALSE]
  <2>1. u \in Units
    BY <1>1, <1>5 DEF StartUnit, Calls
  <2>2. /\ units' = [units EXCEPT ![u] = s] /\ life' = life /\ due' = {u}
        /\ ~units[u].held /\ (units[u].running # 0 => Terminal(units[u].state))
    BY <1>5, <2>1 DEF StartUnit, LeftAsItIs, TypeOK
  <2> HIDE DEF u
  <2>3. units[u] \in Managed /\ UnitSound(u, units[u], life[u]) /\ units[u].late = 0
    BY <1>1, <2>1 DEF TypeOK, UnitsSound, UnitSound, Steady, Timed
  <2>4. /\ s \in Managed /\ SameLife(units[u], s) /\ s.state = units[u].state /\ s.late = 0
        /\ ~s.timer /\ (s.held <=> units[u].held) /\ (s.windowOut <=> units[u].windowOut)
    BY <2>3 DEF Managed, SameLife
  <2> HIDE DEF s
  <2>5. UnitSound(u, s, life[u])
    BY <2>3, <2>4, Eased
  <2>6. Attemptable(s)
    BY <2>2, <2>4 DEF Attemptable, SameLife
  <2> QED BY <1>1, <2>1, <2>2, <2>5, <2>6, UnitAlone
<1>6. CASE StartUnit(o) /\ LeftAsItIs(call[o].unit)
  BY <1>2, <1>6 DEF StartUnit
<1> QED BY <1>2, <1>4, <1>3, <1>5, <1>6 DEF OperatorNext, Asks, UnitStopped

(* A decision reaches a unit that holds no Session, or waits: on the host, *)
(* for it is a plugin's.                                                   *)
LEMMA PolicySight ==
    ASSUME TypeOK, SightInv, EngineServes, NEW u \in Units, PolicyNext(u)
    PROVE  UnitsSound'
<1> DEFINE r == units[u]
<1>1. /\ r \in Managed /\ life[u] \in [Numbers -> Lives] /\ UnitsSound /\ UnitSound(u, r, life[u])
      /\ r.late = 0 /\ {} \in SUBSET due /\ u \notin {}
  BY DEF TypeOK, SightInv, UnitsSound, UnitSound, Steady, Timed
<1> HIDE DEF r
<1>2. CASE UNCHANGED <<units, life, due>>
  BY <1>1, <1>2, StillSight
<1>3. u \in withdrawing => Kind[u] = "plugin" /\ \A l \in Numbers : ~InFlight(life[u][l])
  BY <1>1, PluginOnHost DEF SightInv, Plugins
<1>4. ASSUME NEW in, u \in withdrawing, Record(u, Settled(u, Applied(u, r, in)), life[u], {}),
             \/ r.state = "Starting" /\ in = "AdmissionDeclined"
             \/ r.state = "Admitted" /\ in = "AdmissionWithdrawn"
      PROVE  UnitsSound'
  <2> DEFINE a == Applied(u, r, in)
             s == Settled(u, a)
  <2>1. a \in Managed
    BY <1>1, AppliedType
  <2>2. /\ SameLife(r, a) /\ a.late = r.late /\ (a.timer <=> r.timer) /\ (a.held <=> r.held)
        /\ (a.windowOut <=> r.windowOut)
        /\ ~Terminal(r.state) => a.state = Weighed(Kind[u], [state |-> r.state, asked |-> r.asked], in)
    BY <1>1, AppliedLeaves
  <2>3. ~Terminal(r.state)
    BY <1>4 DEF Terminal, TerminalStates
  <2>4. a.state = "Refused"
    BY <1>3, <1>4, <2>2, <2>3 DEF Weighed
  <2>5. Record(u, s, life[u], {})
    BY <1>4
  <2> HIDE DEF a
  <2>6. s = a
    BY <2>1, <2>4, SettledLeaves
  <2> HIDE DEF s
  <2>7. Steady(u, s, life[u]) /\ (s.running # 0 => s.running = s.incarnation)
    BY <1>1, <1>3, <1>4, <2>1, <2>2, <2>3, <2>6, Weighing
  <2>8. s.state # units[u].state
    BY <1>4, <2>4, <2>6 DEF r
  <2> QED BY <1>1, <2>1, <2>5, <2>7, <2>6, <2>8, RecordSound
<1>5. ASSUME u \in withdrawing, Terminal(r.state), Record(u, DeclinedUnit(r), life[u], {})
      PROVE  UnitsSound'
  <2> DEFINE s == DeclinedUnit(r)
  <2>1. Declined \in Machines
    BY DEF Declined, Machines, States, TerminalStates
  <2>2. Without(r, Declined) \in Managed
    BY <1>1, <2>1, WithoutType
  <2>3. s \in Managed
    BY <2>2 DEF DeclinedUnit, Managed
  <2>4. s.running = 0 /\ s.incarnation = 0 /\ ~s.timer /\ s.late = 0
    BY <1>1 DEF DeclinedUnit, Without, Managed
  <2>5. Record(u, s, life[u], {})
    BY <1>5
  <2> HIDE DEF s
  <2>6. Steady(u, s, life[u])
    BY <1>1, <1>3, <1>5, <2>3, <2>4, GivenUp
  <2> QED BY <1>1, <2>3, <2>5, <2>4, <2>6, RecordSound
<1>6. CASE Withdraw(u)
  BY <1>2, <1>4, <1>5, <1>6 DEF Withdraw, r
<1> QED BY <1>2, <1>6 DEF PolicyNext, Disable, Enable

(* Stop, which stops every timer before it asks the first unit.            *)
LEMMA StopSight ==
    ASSUME TypeOK, SightInv, StopNext
    PROVE  UnitsSound'
<1>1. UnitsSound /\ stop.left \in Seq(Units) /\ stop.life \in LifeOrNone
  BY DEF SightInv, TypeOK
<1>2. CASE UNCHANGED <<units, life, due>>
  BY <1>1, <1>2, StillSight
<1>3. CASE StopBegins
  <2>1. ASSUME NEW x \in Units
        PROVE  UnitSound(x, units'[x], life'[x]) /\ x \notin due'
    <3> DEFINE s == [units[x] EXCEPT !.timer = FALSE]
    <3>1. units[x] \in Managed /\ UnitSound(x, units[x], life[x]) /\ units[x].late = 0
      BY <1>1 DEF TypeOK, UnitsSound, UnitSound, Steady, Timed
    <3>2. /\ s \in Managed /\ SameLife(units[x], s) /\ s.state = units[x].state /\ s.late = 0
          /\ ~s.timer /\ (s.held <=> units[x].held) /\ (s.windowOut <=> units[x].windowOut)
      BY <3>1 DEF Managed, SameLife
    <3>3. units'[x] = s /\ life' = life /\ due' = {}
      BY <1>3 DEF StopBegins, Unlocked
    <3> HIDE DEF s
    <3>4. UnitSound(x, s, life[x])
      BY <3>1, <3>2, Eased
    <3> QED BY <3>3, <3>4
  <2> QED BY <2>1 DEF UnitsSound
<1>4. CASE StopTakes
  <2>1. NextToStop \in Units /\ due = {}
    BY <1>1, <1>4 DEF StopTakes, NextToStop, Unlocked
  <2>2. CASE StopOne(NextToStop)
    BY <1>1, <2>1, <2>2, StopOneSight
  <2> QED BY <1>2, <1>4, <2>2 DEF StopTakes
<1>5. CASE StopPresses
  <2>1. PICK lost : life' = [life EXCEPT ![NextToStop] = Killed(@, stop.life, lost)]
    BY <1>5 DEF StopPresses
  <2>2. UNCHANGED <<units, due>>
    BY <1>5 DEF StopPresses
  <2>3. CASE NextToStop \in Units
    BY <1>1, <2>1, <2>2, <2>3, PressSight
  <2>4. CASE NextToStop \notin Units
    BY <1>2, <2>1, <2>2, <2>4 DEF TypeOK
  <2> QED BY <2>3, <2>4
<1> QED BY <1>2, <1>4, <1>3, <1>5 DEF StopNext, StopHasStopped

(* Neither does the engine go quiet, nor is one but a plugin withdrawn.    *)
LEMMA NeverQuiet ==
    ASSUME TypeOK, SightInv, EngineServes, Next
    PROVE  ~quiet' /\ withdrawing' \subseteq Plugins
<1>1. ~quiet /\ withdrawing \subseteq Plugins
  BY DEF SightInv
<1>2. CASE UNCHANGED <<quiet, withdrawing>>
  BY <1>1, <1>2
<1>3. ASSUME NEW u \in Units, PolicyNext(u)
      PROVE  quiet' = quiet /\ withdrawing' \subseteq withdrawing \cup Plugins
  BY <1>3 DEF PolicyNext, Disable, Enable, Withdraw, Plugins
<1>4. ASSUME NEW u \in Units, Attempt(u) \/ TimerNext(u)
      PROVE  UNCHANGED <<quiet, withdrawing>>
  BY <1>4 DEF Attempt, Taken, Skip, Decline, AttemptFaults, StartFaults, Spawn, Ask, operatorVars,
     TimerNext, WindowElapsed, NeverArrived, TimerFires, TimerIsLate, LateCallback
<1>5. ASSUME NEW u \in Units, NEW l \in Numbers, LaunchNext(u, l) \/ EndNext(u, l)
      PROVE  UNCHANGED <<quiet, withdrawing>>
  BY <1>5 DEF LaunchNext, LaunchFails, LaunchStarts, StartErrs, LaunchRecorded, operatorVars,
     EndNext, Ends, HearEnd, Conclude, DisposeKill
<1>6. ASSUME NEW u \in Units, NEW in, Input(u, in)
      PROVE  UNCHANGED <<quiet, withdrawing>>
  BY <1>6 DEF Input, operatorVars
<1>7. ASSUME NEW o \in Operators, OperatorNext(o)
      PROVE  UNCHANGED <<quiet, withdrawing>>
  BY <1>7 DEF OperatorNext, Asks, StopUnit, PressUnit, UnitStopped, StartUnit
<1>8. StopNext => UNCHANGED <<quiet, withdrawing>>
  BY DEF StopNext, StopBegins, StopTakes, StopPresses, StopHasStopped, operatorVars
<1>9. ~GoQuiet /\ ~Reconcile
  BY <1>1 DEF GoQuiet, Reconcile, EngineServes
<1> QED BY <1>2, <1>1, <1>3, <1>4, <1>5, <1>7, <1>6, <1>8, <1>9 DEF Next

(* The invariant holds of Start, is kept, and is enough.                   *)
LEMMA InitSight == Init => SightInv
<1> SUFFICES ASSUME Init PROVE SightInv
  OBVIOUS
<1>1. ASSUME NEW u \in Units
      PROVE  UnitSound(u, units[u], life[u]) /\ (u \in due => Attemptable(units[u]))
  <2>1. /\ units[u] = NewUnit(u) /\ \A l \in Numbers : life[u][l] = NoLife
        /\ u \in due => DependsOn[u] = {}
    BY DEF Init
  <2>2. \A l \in Numbers : ~Alive(life[u][l]) /\ ~InFlight(life[u][l])
    BY <2>1 DEF NoLife, Alive, InFlight
  <2>3. /\ units[u].running = 0 /\ units[u].incarnation = 0 /\ ~units[u].timer /\ units[u].late = 0
        /\ DependsOn[u] = {} => ~units[u].held
    <3>1. NewUnit(u).running = 0 /\ NewUnit(u).incarnation = 0 /\ ~NewUnit(u).timer /\ NewUnit(u).late = 0
      BY DEF NewUnit
    <3>2. DependsOn[u] = {} => ~NewUnit(u).held
      BY DEF NewUnit
    <3> QED BY <2>1, <3>1, <3>2
  <2> QED BY <2>1, <2>3, <2>2 DEF UnitSound, Signalled, Steady, Seen, Launching, Timed,
              Unattempted, Concluded, Attemptable
<1>2. ~quiet /\ withdrawing = {}
  BY DEF Init
<1> QED BY <1>1, <1>2 DEF SightInv, UnitsSound

LEMMA NextSight ==
    ASSUME TypeOK, SightInv, EngineServes, ~TimersOvertaken, [Next]_vars
    PROVE  SightInv'
<1>1. CASE UNCHANGED vars
  BY <1>1, StillSight DEF vars, operatorVars, SightInv
<1>2. CASE Next
  <2>1. ~quiet' /\ withdrawing' \subseteq Plugins
    BY <1>2, NeverQuiet
  <2>2. UnitsSound'
    <3>1. ~GoQuiet /\ ~Reconcile
      BY DEF GoQuiet, Reconcile, EngineServes, SightInv
    <3> QED BY <1>2, <3>1, AttemptSight, LaunchSight, EndSight, TimerSight, InputSight,
               OperatorSight, PolicySight, StopSight DEF Next
  <2> QED BY <2>1, <2>2 DEF SightInv
<1> QED BY <1>1, <1>2

LEMMA SightIsEnough ==
    ASSUME TypeOK, SightInv
    PROVE  EndsBeforeRestarts
<1>1. ASSUME NEW u \in Units, NEW l \in Numbers, Alive(life[u][l])
      PROVE  units[u].running = l \/ life[u][l].doomed \/ life[u][l].proc = "killed" \/ InFlight(life[u][l])
  BY <1>1 DEF SightInv, UnitsSound, UnitSound, Steady, Seen, Ending, Alive
<1>2. NoOrphan
  BY <1>1 DEF NoOrphan
<1>3. EndConcluded
  BY DEF EndConcluded, SightInv, UnitsSound, UnitSound, Steady, Concluded
<1>4. RestartsAfterTheEnd
  BY DEF RestartsAfterTheEnd, SightInv, UnitsSound, UnitSound, Steady, Timed
<1> QED BY <1>2, <1>3, <1>4 DEF EndsBeforeRestarts

(* Where timers are served as they fire and the engine answers, a process  *)
(* is never lost sight of, the end the supervisor concludes leaves its     *)
(* unit terminal, or timed out before, and a timer waits for no process it *)
(* has not seen end: whoever came first of the exit, the window, the       *)
(* operator's stop, the launch in flight and the decision (attempt, ended, *)
(* apply, settle and stopOne, supervisor.go; launchContainer,              *)
(* containers.go).                                                         *)
THEOREM EndsComeFirst ==
    ASSUME ~TimersOvertaken, EngineServes
    PROVE  Spec => []EndsBeforeRestarts
<1>1. Init => TypeOK /\ SightInv
  BY InitType, InitSight
<1>2. TypeOK /\ SightInv /\ [Next]_vars => (TypeOK /\ SightInv)'
  BY NextType, NextSight
<1>3. TypeOK /\ SightInv => EndsBeforeRestarts
  BY SightIsEnough
<1>4. QED
  BY <1>1, <1>3, <1>2, PTL DEF Spec

(* In particular no attempt overwrites running while what it names runs    *)
(* on, and no superseded launch leaves what it started (attempt,           *)
(* supervisor.go; launchContainer, containers.go).                         *)
THEOREM NoneIsLost ==
    ASSUME ~TimersOvertaken, EngineServes
    PROVE  Spec => []NoOrphan
<1>1. EndsBeforeRestarts => NoOrphan
  BY DEF EndsBeforeRestarts
<1>2. QED
  BY <1>1, EndsComeFirst, PTL

--------------------------------------------------------------------------------
(* In what order units are launched: whatever the engine does, whatever     *)
(* the operators ask and however late a timer is.                           *)

(* Whether a life was asked for, or has had a process.                     *)
Begun(l) == l.proc # "none" \/ l.launch # "none"

(* The units that were attempted.                                          *)
Launched == {order[i] : i \in DOMAIN order}

(* Nothing arms a timer of the unit, and it signals no process.            *)
Dormant(r) == r.running = 0 /\ ~r.timer /\ r.late = 0

(* A unit that is held has done nothing yet, and nothing wakes it but what *)
(* it waits for.                                                           *)
HeldIdle(u, r, ls) ==
    r.held => /\ r.state \in {"Starting", "Refused"}
              /\ Dormant(r)
              /\ \A l \in Numbers : ~Begun(ls[l])

(* What a unit waits for is not ready, and what it no longer waits for was *)
(* attempted, unless its hold ran out.                                     *)
Awaits(u, r, launched, stopped) ==
    /\ ~r.held => r.awaiting = {}
    /\ r.held /\ ~stopped => r.awaiting # {}
    /\ r.awaiting \subseteq DependsOn[u]
    /\ ~r.notStarted => DependsOn[u] \ r.awaiting \subseteq launched

LaunchInv ==
    /\ \A u \in Units : /\ HeldIdle(u, units[u], life[u])
                        /\ units[u].held => u \notin due
                        /\ Awaits(u, units[u], Launched, stopping)
                        /\ \A d \in units[u].awaiting : ~Ready(Kind[d], units[d].state)
                        /\ \A l \in Numbers : Begun(life[u][l]) => u \in Launched
    /\ DependenciesLaunchedFirst

(* Two records that wait for the same.                                     *)
SameHold(r, s) == /\ s.held = r.held
                  /\ s.awaiting = r.awaiting
                  /\ s.notStarted = r.notStarted

NoneBegun(ls, ms) == \A l \in Numbers : Begun(ms[l]) => Begun(ls[l])

LEMMA InitLaunch == Init => LaunchInv
<1> SUFFICES ASSUME Init PROVE LaunchInv
  OBVIOUS
<1>1. DependenciesLaunchedFirst /\ ~stopping
  BY DEF Init, DependenciesLaunchedFirst
<1>2. ASSUME NEW u \in Units
      PROVE  /\ HeldIdle(u, units[u], life[u])
             /\ units[u].held => u \notin due
             /\ Awaits(u, units[u], Launched, stopping)
             /\ \A d \in units[u].awaiting : ~Ready(Kind[d], units[d].state)
             /\ \A l \in Numbers : ~Begun(life[u][l])
  <2>1. /\ units[u] = NewUnit(u) /\ \A l \in Numbers : life[u][l] = NoLife
        /\ u \in due => DependsOn[u] = {}
    BY DEF Init
  <2>2. /\ units[u].state = "Starting" /\ units[u].awaiting = DependsOn[u]
        /\ DependsOn[u] = {} => ~units[u].held
        /\ DependsOn[u] # {} => units[u].held
        /\ Dormant(units[u])
    <3>1. /\ NewUnit(u).state = "Starting" /\ NewUnit(u).awaiting = DependsOn[u]
          /\ NewUnit(u).running = 0 /\ ~NewUnit(u).timer /\ NewUnit(u).late = 0
      BY DEF NewUnit
    <3>2. DependsOn[u] = {} => ~NewUnit(u).held
      BY DEF NewUnit
    <3>3. DependsOn[u] # {} => NewUnit(u).held
      BY DEF NewUnit
    <3> QED BY <2>1, <3>1, <3>2, <3>3 DEF Dormant
  <2>3. \A l \in Numbers : ~Begun(life[u][l])
    BY <2>1 DEF NoLife, Begun
  <2>4. ASSUME NEW d \in units[u].awaiting PROVE ~Ready(Kind[d], units[d].state)
    <3>1. d \in Units
      BY <2>2, <2>4, UnitsAssumption
    <3>2. units[d].state = "Starting"
      BY <3>1 DEF Init, NewUnit
    <3> QED BY <3>2 DEF Ready
  <2> QED BY <1>1, <2>2, <2>1, <2>3, <2>4 DEF HeldIdle, Awaits
<1> QED BY <1>1, <1>2 DEF LaunchInv

(* What was attempted stays so, and a unit attempted comes after what it   *)
(* depends on.                                                             *)
LEMMA OrderGrows ==
    ASSUME TypeOK, LaunchInv, NEW u \in Units, Taken(u)
    PROVE  /\ Launched' = Launched \cup {u}
           /\ ~units[u].held
<1>1. order \in Seq(Units) /\ u \in due
  BY DEF TypeOK, Taken
<1>2. ~units[u].held
  BY <1>1 DEF LaunchInv
<1>3. CASE \E i \in DOMAIN order : order[i] = u
  <2>1. order' = order
    BY <1>3 DEF Taken
  <2>2. u \in Launched /\ Launched' = Launched
    BY <1>3, <2>1 DEF Launched
  <2> QED BY <1>2, <2>2
<1>4. CASE order' = Append(order, u)
  <2>1. /\ DOMAIN order' = 1..(Len(order) + 1) /\ DOMAIN order = 1..Len(order) /\ Len(order) \in Nat
        /\ \A i \in 1..Len(order) : order'[i] = order[i]
        /\ order'[Len(order) + 1] = u
    BY <1>1, <1>4
  <2>2. \A x : x \in Launched' <=> x \in Launched \/ x = u
    BY <2>1 DEF Launched
  <2> QED BY <1>2, <2>2
<1> QED BY <1>2, <1>3, <1>4 DEF Taken

LEMMA LaunchedAfter ==
    ASSUME TypeOK, LaunchInv, NEW u \in Units, Taken(u),
           \A x \in Units : units'[x].notStarted = units[x].notStarted
    PROVE  DependenciesLaunchedFirst'
<1>1. order \in Seq(Units)
  BY DEF TypeOK
<1>2. DependenciesLaunchedFirst /\ ~units[u].held
  BY OrderGrows DEF LaunchInv
<1>3. CASE order' = order
  <2>1. \A i \in DOMAIN order : order[i] \in Units
    BY <1>1
  <2> QED BY <1>2, <1>3, <2>1 DEF DependenciesLaunchedFirst
<1>4. CASE order' = Append(order, u)
  <2>1. /\ DOMAIN order' = 1..(Len(order) + 1) /\ DOMAIN order = 1..Len(order) /\ Len(order) \in Nat
        /\ \A i \in 1..Len(order) : order'[i] = order[i] /\ order[i] \in Units
        /\ order'[Len(order) + 1] = u
    BY <1>1, <1>4
  <2>2. ~units[u].notStarted => DependsOn[u] \subseteq Launched
    BY <1>2 DEF LaunchInv, Awaits
  <2>3. ASSUME NEW i \in DOMAIN order', ~units'[order'[i]].notStarted, NEW d \in DependsOn[order'[i]]
        PROVE  \E j \in 1..(i - 1) : order'[j] = d
    <3>1. CASE i \in 1..Len(order)
      <4>1. PICK j \in 1..(i - 1) : order[j] = d
        BY <1>2, <2>1, <2>3, <3>1 DEF DependenciesLaunchedFirst
      <4>2. j \in 1..Len(order)
        BY <2>1, <3>1
      <4> QED BY <2>1, <4>1, <4>2
    <3>2. CASE i = Len(order) + 1
      <4>1. d \in Launched
        BY <2>1, <2>2, <2>3, <3>2
      <4>2. PICK j \in 1..Len(order) : order[j] = d
        BY <2>1, <4>1 DEF Launched
      <4> QED BY <2>1, <3>2, <4>2
    <3> QED BY <2>1, <3>1, <3>2
  <2> QED BY <2>3 DEF DependenciesLaunchedFirst
<1> QED BY <1>3, <1>4 DEF Taken

(* The end of a critical section: a unit that is attempted, or one whose   *)
(* state was weighed, and which does not become ready while it is held.    *)
LEMMA RecordLaunch ==
    ASSUME TypeOK, LaunchInv, NEW u \in Units, NEW r \in Managed, NEW ls \in [Numbers -> Lives],
           NEW rest \in SUBSET due, Record(u, r, ls, rest), SameHold(units[u], r),
           \/ Taken(u)
           \/ UNCHANGED <<order, stopping>> /\ HeldIdle(u, r, ls) /\ NoneBegun(life[u], ls),
           r.state # units[u].state /\ Ready(Kind[u], r.state) => u \in Launched' /\ ~r.held
    PROVE  LaunchInv'
<1>1. /\ units[u] \in Managed /\ life[u] \in [Numbers -> Lives] /\ order \in Seq(Units)
      /\ stopping' = stopping
  BY DEF TypeOK, Taken, stopVars
<1>2. /\ units'[u] = r
      /\ \A l \in Numbers : Begun(life'[u][l]) <=> Begun(ls[l])
  <2>1. life'[u] = ls \/ life'[u] = [ls EXCEPT ![r.running].doomed = TRUE]
    BY DEF Record, TypeOK
  <2>2. \A l \in Numbers : Begun([ls EXCEPT ![r.running].doomed = TRUE][l]) <=> Begun(ls[l])
    BY DEF Begun, Lives
  <2> QED BY <2>1, <2>2 DEF Record, TypeOK
<1>3. Launched \subseteq Launched' /\ (Taken(u) => u \in Launched' /\ ~r.held)
  <2>1. CASE Taken(u)
    BY <2>1, OrderGrows DEF SameHold
  <2>2. CASE order' = order
    BY <2>2, OrderGrows DEF Launched, SameHold
  <2> QED BY <2>1, <2>2
<1> DEFINE readied == r.state # units[u].state /\ Ready(Kind[u], r.state)
<1>4. ASSUME NEW x \in Units, x # u
      PROVE  /\ life'[x] = life[x]
             /\ units'[x] = IF readied /\ units[x].held
                            THEN [units[x] EXCEPT !.awaiting = @ \ {u},
                                    !.held = stopping \/ ~(units[x].awaiting \subseteq {u})]
                            ELSE units[x]
             /\ x \in due' => x \in due
                     \/ (readied /\ ~stopping /\ units[x].held /\ units[x].awaiting \subseteq {u})
  BY <1>4 DEF Record, TypeOK, Freed
<1>5. u \notin due' \/ u \in due
  BY DEF Record, Freed
<1> HIDE DEF readied
<1>6. \A x \in Units : units'[x].notStarted = units[x].notStarted
  <2>1. ASSUME NEW x \in Units PROVE units'[x].notStarted = units[x].notStarted
    <3>1. units[x] \in Managed
      BY DEF TypeOK
    <3> QED BY <1>2, <1>4, <3>1 DEF Managed, SameHold
  <2> QED BY <2>1
<1>7. DependenciesLaunchedFirst'
  <2>1. CASE Taken(u)
    BY <1>6, <2>1, LaunchedAfter
  <2>2. CASE order' = order
    <3>1. \A i \in DOMAIN order : order[i] \in Units
      BY <1>1
    <3> QED BY <1>6, <2>2, <3>1 DEF LaunchInv, DependenciesLaunchedFirst
  <2> QED BY <2>1, <2>2
<1>8. ASSUME NEW x \in Units
      PROVE  /\ HeldIdle(x, units'[x], life'[x])
             /\ units'[x].held => x \notin due'
             /\ Awaits(x, units'[x], Launched', stopping')
             /\ \A l \in Numbers : Begun(life'[x][l]) => x \in Launched'
  <2>1. /\ units[x] \in Managed /\ HeldIdle(x, units[x], life[x])
        /\ units[x].held => x \notin due
        /\ Awaits(x, units[x], Launched, stopping)
        /\ \A l \in Numbers : Begun(life[x][l]) => x \in Launched
    BY DEF TypeOK, LaunchInv
  <2>2. CASE x = u
    <3>1. HeldIdle(u, r, ls)
      BY <1>3 DEF HeldIdle
    <3>2. HeldIdle(u, r, life'[u])
      BY <1>2, <3>1 DEF HeldIdle
    <3>3. Awaits(u, r, Launched', stopping')
      BY <1>1, <1>3, <2>1, <2>2 DEF Awaits, SameHold
    <3>4. \A l \in Numbers : Begun(ls[l]) => u \in Launched'
      BY <1>3, <2>1, <2>2 DEF NoneBegun
    <3>5. r.held => u \notin due'
      BY <1>5, <2>1, <2>2 DEF SameHold
    <3> QED BY <1>2, <2>2, <3>2, <3>4, <3>3, <3>5 DEF Awaits
  <2>3. CASE x # u /\ ~(readied /\ units[x].held)
    <3>1. units'[x] = units[x] /\ life'[x] = life[x] /\ (x \in due' => x \in due)
      BY <1>4, <2>3
    <3>2. Awaits(x, units[x], Launched', stopping')
      BY <1>1, <1>3, <2>1, <3>1 DEF Awaits
    <3> QED BY <1>3, <2>1, <3>1, <3>2 DEF Awaits
  <2>4. CASE x # u /\ readied /\ units[x].held
    <3> DEFINE h == stopping \/ ~(units[x].awaiting \subseteq {u})
               a == units[x].awaiting \ {u}
               s == [units[x] EXCEPT !.awaiting = a, !.held = h]
    <3>1. /\ s.held = h /\ s.awaiting = a /\ s.notStarted = units[x].notStarted
          /\ s.state = units[x].state /\ s.running = units[x].running
          /\ s.timer = units[x].timer /\ s.late = units[x].late
      BY <2>1 DEF Managed
    <3>2. units'[x] = s /\ life'[x] = life[x] /\ (h => x \notin due')
      BY <1>4, <2>1, <2>4
    <3> HIDE DEF s
    <3>3. HeldIdle(x, s, life[x])
      BY <2>1, <2>4, <3>1 DEF HeldIdle, Dormant
    <3>4. u \in Launched'
      BY <2>4 DEF readied
    <3>5. Awaits(x, units[x], Launched, stopping)
      BY <2>1
    <3>6. /\ ~s.held => s.awaiting = {}
          /\ s.held /\ ~stopping => s.awaiting # {}
      BY <3>1
    <3>7. /\ s.awaiting \subseteq DependsOn[x]
          /\ ~s.notStarted => DependsOn[x] \ s.awaiting \subseteq Launched'
      BY <1>3, <3>1, <3>4, <3>5 DEF Awaits
    <3>8. \A l \in Numbers : Begun(life[x][l]) => x \in Launched'
      BY <1>3, <2>1
    <3> QED BY <1>1, <3>1, <3>3, <3>2, <3>6, <3>7, <3>8 DEF Awaits
  <2> QED BY <2>2, <2>3, <2>4
<1>9. ASSUME NEW x \in Units, NEW d \in units'[x].awaiting
      PROVE  ~Ready(Kind[d], units'[d].state)
  <2>1. /\ units[x] \in Managed /\ Awaits(x, units[x], Launched, stopping)
        /\ \A e \in units[x].awaiting : ~Ready(Kind[e], units[e].state)
    BY DEF TypeOK, LaunchInv
  <2>2. d \in units[x].awaiting
    <3>1. CASE x = u
      BY <1>2, <1>9, <3>1 DEF SameHold
    <3>2. CASE x # u
      <4> DEFINE s == [units[x] EXCEPT !.awaiting = @ \ {u},
                          !.held = stopping \/ ~(units[x].awaiting \subseteq {u})]
      <4>1. s.awaiting = units[x].awaiting \ {u}
        BY <2>1 DEF Managed
      <4> HIDE DEF s
      <4>2. units'[x] = s \/ units'[x] = units[x]
        BY <1>4, <3>2 DEF s
      <4> QED BY <1>9, <4>1, <4>2
    <3> QED BY <3>1, <3>2
  <2>3. d \in Units /\ units[x].held
    BY <2>1, <2>2, UnitsAssumption DEF Awaits
  <2>4. CASE d = u
    <3>1. ~readied
      <4> SUFFICES ASSUME readied PROVE FALSE
        OBVIOUS
      <4>1. CASE x = u
        BY <2>3, <4>1 DEF readied, SameHold
      <4>2. CASE x # u
        <5>1. units'[x].awaiting = units[x].awaiting \ {u}
          BY <1>4, <2>1, <2>3, <4>2 DEF Managed
        <5> QED BY <1>9, <2>4, <5>1
      <4> QED BY <4>1, <4>2
    <3> QED BY <1>2, <2>1, <2>2, <2>4, <3>1 DEF readied
  <2>5. CASE d # u
    <3>1. units[d] \in Managed
      BY <2>3 DEF TypeOK
    <3>2. units'[d].state = units[d].state
      BY <1>4, <2>3, <2>5, <3>1 DEF Managed
    <3> QED BY <2>1, <2>2, <3>2
  <2> QED BY <2>4, <2>5
<1> QED BY <1>7, <1>8, <1>9 DEF LaunchInv, Awaits

--------------------------------------------------------------------------------
(* What a step is to the states and the holds, apart from an attempt: a     *)
(* state weighed, a hold given up, or neither.                             *)

ByPolicy(u) == Restarts(Kind[u], "Failed", u \in OnFailure)

(* A critical section that weighs the state of one unit: by the diagram,    *)
(* once it has a life or is refused one, or by a decision while it waits.  *)
Weighs(u, r, ls) ==
    /\ r \in Managed /\ ls \in [Numbers -> Lives]
    /\ Record(u, r, ls, {}) /\ due = {}
    /\ UNCHANGED <<order, stopping>>
    /\ SameHold(units[u], r) /\ NoneBegun(life[u], ls)
    /\ units[u].held => Dormant(r)
    /\ r.timer => units[u].timer \/ ByPolicy(u)
    /\ \/ r.state = units[u].state
       \/ /\ ~Terminal(units[u].state)
          /\ \E in \in Inputs : r.state = Weighed(Kind[u], [state |-> units[u].state,
                                                            asked |-> units[u].asked], in)
          /\ r.state = "Refused" \/ \E l \in Numbers : Begun(life[u][l])
       \/ /\ Terminal(units[u].state) /\ u \in withdrawing
          /\ r.state = "Refused"

(* A step that leaves every state and every hold, and wakes no held unit.  *)
StateKept(x) ==
    /\ units'[x].state = units[x].state
    /\ SameHold(units[x], units'[x])
    /\ units[x].held /\ Dormant(units[x]) => Dormant(units'[x])
    /\ units'[x].timer => units[x].timer
    /\ NoneBegun(life[x], life'[x])

Rests ==
    /\ \A x \in Units : StateKept(x)
    /\ order' = order
    /\ stopping => stopping'

StateWeighed(u) == \E r, ls : Weighs(u, r, ls)

LEMMA WeighsLaunch ==
    ASSUME TypeOK, LaunchInv, NEW u \in Units, StateWeighed(u)
    PROVE  LaunchInv'
<1>1. PICK r, ls : Weighs(u, r, ls)
  BY DEF StateWeighed
<1>2. /\ r \in Managed /\ ls \in [Numbers -> Lives] /\ Record(u, r, ls, {}) /\ {} \in SUBSET due
      /\ SameHold(units[u], r) /\ NoneBegun(life[u], ls) /\ UNCHANGED <<order, stopping>>
  BY <1>1 DEF Weighs
<1>3. HeldIdle(u, units[u], life[u]) /\ \A l \in Numbers : Begun(life[u][l]) => u \in Launched
  BY DEF LaunchInv
<1>4. /\ units[u].held => Dormant(r)
      /\ \/ r.state = units[u].state
         \/ r.state = "Refused"
         \/ \E l \in Numbers : Begun(life[u][l])
  BY <1>1 DEF Weighs
<1>5. HeldIdle(u, r, ls)
  BY <1>2, <1>3, <1>4 DEF HeldIdle, SameHold, NoneBegun
<1>6. r.state # units[u].state /\ Ready(Kind[u], r.state) => u \in Launched' /\ ~r.held
  <2>1. Launched' = Launched
    BY <1>2 DEF Launched
  <2> QED BY <1>2, <1>3, <1>4, <2>1 DEF HeldIdle, SameHold, Ready
<1> QED BY <1>2, <1>5, <1>6, RecordLaunch

LEMMA RestsLaunch ==
    ASSUME TypeOK, LaunchInv, Rests, \A x \in due' : x \in due \/ ~units[x].held
    PROVE  LaunchInv'
<1>1. Launched' = Launched
  BY DEF Rests, Launched
<1>2. ASSUME NEW x \in Units
      PROVE  /\ HeldIdle(x, units'[x], life'[x])
             /\ units'[x].held => x \notin due'
             /\ Awaits(x, units'[x], Launched', stopping')
             /\ \A l \in Numbers : Begun(life'[x][l]) => x \in Launched'
  <2>1. /\ StateKept(x) /\ HeldIdle(x, units[x], life[x]) /\ (units[x].held => x \notin due)
        /\ Awaits(x, units[x], Launched, stopping)
        /\ \A l \in Numbers : Begun(life[x][l]) => x \in Launched
    BY DEF LaunchInv, Rests
  <2>2. HeldIdle(x, units'[x], life'[x])
    BY <2>1 DEF StateKept, HeldIdle, SameHold, NoneBegun
  <2>3. Awaits(x, units'[x], Launched', stopping')
    BY <1>1, <2>1 DEF StateKept, Awaits, SameHold, Rests
  <2> QED BY <1>1, <2>1, <2>2, <2>3 DEF StateKept, SameHold, NoneBegun
<1>3. ASSUME NEW x \in Units, NEW d \in units'[x].awaiting
      PROVE  ~Ready(Kind[d], units'[d].state)
  <2>1. d \in units[x].awaiting /\ units[x].awaiting \subseteq DependsOn[x]
    BY <1>3 DEF Rests, StateKept, SameHold, LaunchInv, Awaits
  <2>2. d \in Units
    BY <2>1, UnitsAssumption
  <2> QED BY <2>1, <2>2 DEF LaunchInv, Rests, StateKept
<1>4. DependenciesLaunchedFirst'
  <2>1. \A i \in DOMAIN order : order[i] \in Units
    BY DEF TypeOK
  <2> QED BY <2>1 DEF LaunchInv, DependenciesLaunchedFirst, Rests, StateKept, SameHold
<1> QED BY <1>2, <1>3, <1>4 DEF LaunchInv

LEMMA AppliedShape ==
    ASSUME NEW u, NEW r \in Managed, NEW in
    PROVE  LET s == Applied(u, r, in)
           IN /\ s \in Managed /\ SameHold(r, s)
              /\ s.running = r.running /\ (s.timer <=> r.timer) /\ s.late = r.late
              /\ \/ s.state = r.state
                 \/ /\ ~Terminal(r.state)
                    /\ s.state = Weighed(Kind[u], [state |-> r.state, asked |-> r.asked], in)
<1>1. Applied(u, r, in) \in Managed
  BY AppliedType
<1> QED BY <1>1 DEF SameHold, Applied, Managed, Apply

LEMMA SettledShape ==
    ASSUME NEW u, NEW r \in Managed
    PROVE  LET s == Settled(u, r)
           IN /\ s \in Managed /\ SameHold(r, s) /\ s.state = r.state
              /\ s.timer => r.timer \/ ByPolicy(u)
              /\ r.state # "Failed" => s = r
<1>1. Settled(u, r) \in Managed
  BY SettledType
<1> QED BY <1>1 DEF SameHold, Settled, Managed, Restarts, ByPolicy

LEMMA NeverBegins ==
    ASSUME NEW ls \in [Numbers -> Lives], NEW n, NEW lost
    PROVE  /\ NoneBegun(ls, ls)
           /\ NoneBegun(ls, Superseded(ls))
           /\ NoneBegun(ls, Killed(ls, n, lost))
<1>1. NoneBegun(ls, ls)
  BY DEF NoneBegun
<1>2. NoneBegun(ls, Superseded(ls))
  BY DEF NoneBegun, Superseded, Begun, Lives
<1>3. NoneBegun(ls, Killed(ls, n, lost))
  BY DEF NoneBegun, Killed, Begun, Lives
<1> QED BY <1>1, <1>2, <1>3

(* A step that touches the lives of one unit alone, and begins none.       *)
LEMMA LivesRest ==
    ASSUME TypeOK, NEW u \in Units, NEW ms, life' = [life EXCEPT ![u] = ms],
           NoneBegun(life[u], ms), UNCHANGED <<units, order, stopping>>
    PROVE  Rests
<1>1. ASSUME NEW x \in Units PROVE StateKept(x)
  <2>1. life'[x] = IF x = u THEN ms ELSE life[x]
    BY DEF TypeOK
  <2> QED BY <2>1 DEF StateKept, SameHold, NoneBegun
<1> QED BY <1>1 DEF Rests

LEMMA NothingRests ==
    ASSUME UNCHANGED <<units, life, order, stopping>>
    PROVE  Rests
BY DEF Rests, StateKept, SameHold, NoneBegun

(* A unit with a life is not held.                                         *)
LEMMA BegunIsFree ==
    ASSUME LaunchInv, NEW u \in Units, NEW l \in Numbers, Begun(life[u][l])
    PROVE  ~units[u].held
BY DEF LaunchInv, HeldIdle

(* An input, and the policy after it, weigh the state of a unit with a     *)
(* life, whatever else the section has put in its record.                  *)
LEMMA LifeWeighed ==
    ASSUME TypeOK, LaunchInv, NEW u \in Units, NEW n \in Numbers, Begun(life[u][n]),
           due = {}, UNCHANGED <<order, stopping>>,
           NEW r \in Managed, SameHold(units[u], r), (r.timer <=> units[u].timer),
           r.state = units[u].state, r.asked = units[u].asked,
           NEW in \in Inputs, NEW ls \in [Numbers -> Lives], NoneBegun(life[u], ls),
           \/ Record(u, Applied(u, r, in), ls, {})
           \/ Record(u, Settled(u, Applied(u, r, in)), ls, {})
    PROVE  StateWeighed(u)
<1> DEFINE a == Applied(u, r, in)
<1>1. /\ a \in Managed /\ SameHold(r, a) /\ (a.timer <=> r.timer)
      /\ \/ a.state = r.state
         \/ /\ ~Terminal(r.state)
            /\ a.state = Weighed(Kind[u], [state |-> r.state, asked |-> r.asked], in)
  BY AppliedShape
<1> DEFINE s == Settled(u, a)
<1>2. Record(u, a, ls, {}) \/ Record(u, s, ls, {})
  OBVIOUS
<1> HIDE DEF a
<1>3. /\ s \in Managed /\ SameHold(a, s) /\ s.state = a.state
      /\ s.timer => a.timer \/ ByPolicy(u)
  BY <1>1, SettledShape
<1>4. ~units[u].held
  BY BegunIsFree
<1> HIDE DEF s
<1>5. CASE Record(u, a, ls, {})
  <2>1. Weighs(u, a, ls)
    BY <1>1, <1>4, <1>5 DEF Weighs, SameHold
  <2> QED BY <2>1 DEF StateWeighed
<1>6. CASE Record(u, s, ls, {})
  <2>1. Weighs(u, s, ls)
    BY <1>1, <1>3, <1>4, <1>6 DEF Weighs, SameHold
  <2> QED BY <2>1 DEF StateWeighed
<1> QED BY <1>2, <1>5, <1>6

LEMMA LaunchShape ==
    ASSUME TypeOK, LaunchInv, NEW u \in Units, NEW l \in Numbers, LaunchNext(u, l)
    PROVE  (Rests /\ due' = due) \/ StateWeighed(u)
<1>1. /\ units[u] \in Managed /\ life[u] \in [Numbers -> Lives] /\ life[u][l] \in Lives
      /\ UNCHANGED <<order, stopping>>
  BY DEF TypeOK, LaunchNext, LaunchFails, LaunchStarts, StartErrs, LaunchRecorded, stopVars
<1>2. Begun(life[u][l])
  BY DEF Begun, LaunchNext, LaunchFails, LaunchStarts, StartErrs, LaunchRecorded
<1>3. /\ Over(life[u], l) \in [Numbers -> Lives]
      /\ NoneBegun(life[u], Over(life[u], l))
  BY <1>1, <1>2, OverType DEF NoneBegun, Over, Begun
<1>4. "LaunchFailed" \in Inputs /\ "ProcessStarted" \in Inputs
  BY DEF Inputs
<1>5. CASE LaunchFails(u, l)
  <2>1. CASE life[u][l].superseded \/ stopping
    <3>1. life' = [life EXCEPT ![u] = Over(life[u], l)] /\ UNCHANGED <<units, due>>
      BY <1>5, <2>1 DEF LaunchFails, RecordFailure
    <3> QED BY <1>1, <1>3, <3>1, LivesRest
  <2>2. CASE ~(life[u][l].superseded \/ stopping)
    <3>1. Record(u, FailedLaunch(u, units[u]), Over(life[u], l), {}) /\ due = {}
      BY <1>5, <2>2 DEF LaunchFails, RecordFailure, Unlocked
    <3>2. SameHold(units[u], units[u])
      BY DEF SameHold
    <3> QED BY <1>1, <1>3, <1>2, <1>4, <3>1, <3>2, LifeWeighed DEF FailedLaunch
  <2> QED BY <2>1, <2>2
<1>6. CASE LaunchStarts(u, l)
  <2> DEFINE m == [life[u][l] EXCEPT !.launch = "started", !.proc = "up", !.watch = "watched"]
             ms == [life[u] EXCEPT ![l] = m]
  <2>1. life' = [life EXCEPT ![u] = ms] /\ UNCHANGED <<units, due>>
    BY <1>6 DEF LaunchStarts, SetLife, TypeOK
  <2>2. NoneBegun(life[u], ms)
    BY <1>1, <1>2 DEF NoneBegun
  <2> QED BY <1>1, <2>1, <2>2, LivesRest
<1>7. CASE StartErrs(u, l)
  <2>1. PICK lost : life' = [life EXCEPT ![u] = Erred(Killed(@, l, lost), l)]
    BY <1>7 DEF StartErrs
  <2> DEFINE ms == Killed(life[u], l, lost)
  <2>2. /\ ms \in [Numbers -> Lives] /\ NoneBegun(life[u], ms)
    BY <1>1, KilledType, NeverBegins
  <2>3. life' = [life EXCEPT ![u] = Erred(ms, l)] /\ UNCHANGED <<units, due>>
    BY <1>7, <2>1 DEF StartErrs
  <2> HIDE DEF ms
  <2>4. NoneBegun(life[u], Erred(ms, l))
    BY <1>1, <1>2, <2>2 DEF NoneBegun, Erred
  <2> QED BY <1>1, <2>3, <2>4, LivesRest
<1>8. CASE LaunchRecorded(u, l)
  <2>1. CASE life[u][l].superseded \/ stopping
    <3> DEFINE over == Over(life[u], l)
    <3>1. PICK lost : life' = [life EXCEPT ![u] = Killed(over, l, lost)] /\ UNCHANGED <<units, due>>
      BY <1>8, <2>1 DEF LaunchRecorded
    <3> HIDE DEF over
    <3>2. NoneBegun(over, Killed(over, l, lost))
      BY <1>3, NeverBegins DEF over
    <3>3. NoneBegun(life[u], Killed(over, l, lost))
      BY <1>3, <3>2 DEF NoneBegun, over
    <3> QED BY <1>1, <3>1, <3>3, LivesRest
  <2>2. CASE ~(life[u][l].superseded \/ stopping)
    <3> DEFINE r == [units[u] EXCEPT !.running = l]
    <3>1. /\ r \in Managed /\ SameHold(units[u], r) /\ (r.timer <=> units[u].timer)
          /\ r.state = units[u].state /\ r.asked = units[u].asked
      <4>1. l \in LifeOrNone
        BY BoundsAssumption DEF Numbers, LifeOrNone
      <4> QED BY <1>1, <4>1 DEF Managed, SameHold
    <3>2. Record(u, Applied(u, r, "ProcessStarted"), Over(life[u], l), {}) /\ due = {}
      BY <1>8, <2>2 DEF LaunchRecorded, Unlocked
    <3> HIDE DEF r
    <3> QED BY <1>1, <1>3, <1>2, <1>4, <3>1, <3>2, LifeWeighed
  <2> QED BY <2>1, <2>2
<1> QED BY <1>5, <1>7, <1>6, <1>8 DEF LaunchNext

LEMMA EndShape ==
    ASSUME TypeOK, LaunchInv, NEW u \in Units, NEW l \in Numbers, EndNext(u, l)
    PROVE  (Rests /\ due' = due) \/ StateWeighed(u)
<1>1. /\ units[u] \in Managed /\ life[u] \in [Numbers -> Lives] /\ life[u][l] \in Lives
      /\ UNCHANGED <<order, stopping>>
  BY DEF TypeOK, EndNext, Ends, HearEnd, Conclude, DisposeKill, stopVars
<1>2. Begun(life[u][l])
  BY DEF Begun, EndNext, Ends, HearEnd, Conclude, DisposeKill, Alive, Gone, EndReached
<1>3. ASSUME NEW m, SetLife(u, l, m), UNCHANGED <<units, due>>
      PROVE  Rests /\ due' = due
  <2>1. life' = [life EXCEPT ![u] = [life[u] EXCEPT ![l] = m]]
    BY <1>3 DEF SetLife, TypeOK
  <2>2. NoneBegun(life[u], [life[u] EXCEPT ![l] = m])
    BY <1>1, <1>2 DEF NoneBegun
  <2> QED BY <1>1, <1>3, <2>1, <2>2, LivesRest
<1>4. CASE Ends(u, l) \/ HearEnd(u, l)
  BY <1>3, <1>4 DEF Ends, HearEnd
<1>5. CASE DisposeKill(u, l)
  <2>1. PICK lost : life' = [life EXCEPT ![u] = [Killed(life[u], l, lost) EXCEPT ![l].doomed = FALSE]]
    BY <1>5 DEF DisposeKill
  <2> DEFINE ms == [Killed(life[u], l, lost) EXCEPT ![l].doomed = FALSE]
  <2>2. NoneBegun(life[u], ms)
    <3>1. Killed(life[u], l, lost) \in [Numbers -> Lives] /\ NoneBegun(life[u], Killed(life[u], l, lost))
      BY <1>1, KilledType, NeverBegins
    <3> QED BY <1>1, <1>2, <3>1 DEF NoneBegun
  <2>3. UNCHANGED <<units, due>>
    BY <1>5 DEF DisposeKill
  <2> QED BY <1>1, <2>1, <2>2, <2>3, LivesRest
<1>6. CASE Conclude(u, l)
  <2> DEFINE ls == [life[u] EXCEPT ![l] = [@ EXCEPT !.watch = "concluded", !.doomed = FALSE]]
             r == [units[u] EXCEPT !.running = 0]
             in == IF r.windowOut THEN "WindowElapsed" ELSE ExitOf(life[u][l])
  <2>1. ls \in [Numbers -> Lives] /\ NoneBegun(life[u], ls)
    BY <1>1, <1>2 DEF NoneBegun, Lives
  <2>2. /\ r \in Managed /\ SameHold(units[u], r) /\ (r.timer <=> units[u].timer)
        /\ r.state = units[u].state /\ r.asked = units[u].asked
    <3>1. 0 \in LifeOrNone
      BY BoundsAssumption DEF LifeOrNone
    <3> QED BY <1>1, <3>1 DEF Managed, SameHold
  <2>3. in \in Inputs
    BY DEF ExitOf, Inputs
  <2>4. CASE units[u].incarnation # l
    BY <1>1, <1>6, <2>1, <2>4, LivesRest DEF Conclude
  <2>5. CASE units[u].incarnation = l
    <3>1. Record(u, Settled(u, Applied(u, r, in)), ls, {}) /\ due = {}
      BY <1>6, <2>5 DEF Conclude, Unlocked
    <3> HIDE DEF r, in, ls
    <3> QED BY <1>1, <1>2, <2>1, <2>2, <2>3, <3>1, LifeWeighed
  <2> QED BY <2>4, <2>5
<1> QED BY <1>4, <1>5, <1>6 DEF EndNext

(* An attempt leaves the unit launched, failed to be, skipped or declined. *)
Attempted(u, r, ls) ==
    /\ r \in Managed /\ ls \in [Numbers -> Lives]
    /\ Taken(u) /\ Record(u, r, ls, due \ {u})
    /\ SameHold(units[u], r)
    /\ r.timer => units[u].timer \/ ByPolicy(u)
    /\ \/ r.state \in {"Starting", "Failed"}
       \/ r.state = "Running" /\ Kind[u] # "plugin"
       \/ r.state = "Refused" /\ Kind[u] = "plugin"
       \/ r.state = "Completed" /\ u \in Skips

LEMMA FailedShape ==
    ASSUME NEW u, NEW r \in Managed, r.state = "Starting"
    PROVE  LET s == FailedLaunch(u, r)
           IN /\ s \in Managed /\ SameHold(r, s) /\ s.state \in {"Starting", "Failed"}
              /\ s.timer => r.timer \/ ByPolicy(u)
<1> DEFINE a == Applied(u, r, "LaunchFailed")
<1>1. /\ a \in Managed /\ SameHold(r, a) /\ (a.timer <=> r.timer)
      /\ \/ a.state = r.state
         \/ a.state = Weighed(Kind[u], [state |-> r.state, asked |-> r.asked], "LaunchFailed")
  BY AppliedShape
<1>2. a.state \in {"Starting", "Failed"}
  BY <1>1 DEF Weighed
<1> HIDE DEF a
<1> QED BY <1>1, <1>2, SettledShape DEF FailedLaunch, SameHold, a

LEMMA AttemptShape ==
    ASSUME TypeOK, NEW u \in Units, Attempt(u)
    PROVE  \E r, ls : Attempted(u, r, ls)
<1>1. /\ units[u] \in Managed /\ life[u] \in [Numbers -> Lives] /\ Taken(u)
      /\ Superseded(life[u]) \in [Numbers -> Lives]
  BY SupersededType DEF TypeOK, Attempt, Skip, Decline, AttemptFaults, StartFaults, Spawn, Ask
<1> DEFINE f == Fresh(units[u])
<1>2. /\ f \in Managed /\ SameHold(units[u], f) /\ (f.timer <=> units[u].timer)
      /\ f.state = "Starting" /\ f.lives = units[u].lives
  <2>1. f \in Managed
    BY <1>1, FreshType
  <2> QED BY <1>1, <2>1 DEF Fresh, NewMachine, Managed, SameHold
<1> HIDE DEF f
<1>3. CASE Skip(u) \/ Decline(u)
  <2>1. Skipped \in Machines /\ Declined \in Machines
    BY DEF Skipped, Declined, Machines, States, TerminalStates
  <2>2. Without(units[u], Skipped) \in Managed /\ Without(units[u], Declined) \in Managed
    BY <1>1, <2>1, WithoutType
  <2>3. CASE Skip(u)
    <3> DEFINE s == Without(units[u], Skipped)
    <3>1. SameHold(units[u], s) /\ (s.timer <=> units[u].timer) /\ s.state = "Completed"
      BY <1>1, <2>2 DEF Without, Skipped, Managed, SameHold
    <3>2. Record(u, s, life[u], due \ {u}) /\ u \in Skips /\ s \in Managed
      BY <2>2, <2>3 DEF Skip
    <3> HIDE DEF s
    <3> QED BY <1>1, <3>1, <3>2 DEF Attempted
  <2>4. CASE Decline(u)
    <3> DEFINE w == Without(units[u], Declined)
               s == [w EXCEPT !.timer = FALSE]
    <3>1. w \in Managed /\ SameHold(units[u], w) /\ w.state = "Refused"
      BY <1>1, <2>2 DEF Without, Declined, Managed, SameHold
    <3>2. Record(u, s, life[u], due \ {u}) /\ Kind[u] = "plugin"
      BY <2>4 DEF Decline, IsDeclined, DeclinedUnit
    <3> HIDE DEF w
    <3>3. s \in Managed /\ SameHold(units[u], s) /\ ~s.timer /\ s.state = "Refused"
      BY <3>1 DEF Managed, SameHold
    <3> HIDE DEF s
    <3> QED BY <1>1, <3>2, <3>3 DEF Attempted
  <2> QED BY <1>3, <2>3, <2>4
<1>4. CASE AttemptFaults(u)
  <2> DEFINE s == FailedLaunch(u, f)
  <2>1. /\ s \in Managed /\ SameHold(f, s) /\ s.state \in {"Starting", "Failed"}
        /\ s.timer => f.timer \/ ByPolicy(u)
    BY <1>2, FailedShape
  <2>2. Record(u, s, Superseded(life[u]), due \ {u})
    BY <1>4 DEF AttemptFaults, f
  <2> HIDE DEF s
  <2> QED BY <1>1, <1>2, <2>1, <2>2 DEF Attempted, SameHold
<1>5. CASE StartFaults(u)
  <2> DEFINE g == [f EXCEPT !.lives = @ + 1]
             s == FailedLaunch(u, g)
  <2>1. g \in Managed /\ SameHold(f, g) /\ (g.timer <=> f.timer) /\ g.state = "Starting"
    <3>1. f.lives \in LifeOrNone /\ f.lives < MaxLives
      BY <1>1, <1>2, <1>5 DEF StartFaults, Managed
    <3>2. f.lives + 1 \in LifeOrNone
      BY <3>1, BoundsAssumption DEF LifeOrNone
    <3> QED BY <1>2, <3>2 DEF Managed, SameHold
  <2>2. Record(u, s, Superseded(life[u]), due \ {u})
    BY <1>5 DEF StartFaults, f
  <2> HIDE DEF g
  <2>3. /\ s \in Managed /\ SameHold(g, s) /\ s.state \in {"Starting", "Failed"}
        /\ s.timer => g.timer \/ ByPolicy(u)
    BY <2>1, FailedShape
  <2> HIDE DEF s
  <2> QED BY <1>1, <1>2, <2>1, <2>3, <2>2 DEF Attempted, SameHold
<1> DEFINE n == units[u].lives + 1
<1>6. units[u].lives < MaxLives => n \in Numbers /\ n \in LifeOrNone
  <2>1. units[u].lives \in LifeOrNone
    BY <1>1 DEF Managed
  <2> QED BY <2>1, BoundsAssumption DEF LifeOrNone, Numbers
<1> HIDE DEF n
<1>7. CASE Spawn(u)
  <2> DEFINE g == [f EXCEPT !.lives = n, !.incarnation = n, !.running = n]
             m == [NoLife EXCEPT !.proc = "up", !.launch = "over", !.watch = "watched"]
             s == Applied(u, g, "ProcessStarted")
  <2>1. g \in Managed /\ SameHold(f, g) /\ (g.timer <=> f.timer) /\ g.state = "Starting"
    BY <1>2, <1>6, <1>7 DEF Managed, SameHold, Spawn
  <2>2. m \in Lives
    BY DEF NoLife, Lives
  <2>3. Record(u, s, [Superseded(life[u]) EXCEPT ![n] = m], due \ {u})
    BY <1>7 DEF Spawn, f, n
  <2> HIDE DEF g, m
  <2>4. /\ s \in Managed /\ SameHold(g, s) /\ (s.timer <=> g.timer)
        /\ \/ s.state = g.state
           \/ s.state = Weighed(Kind[u], [state |-> g.state, asked |-> g.asked], "ProcessStarted")
    BY <2>1, AppliedShape
  <2>5. s.state = "Starting" \/ (s.state = "Running" /\ Kind[u] # "plugin")
    BY <2>1, <2>4 DEF Weighed
  <2> HIDE DEF s
  <2>6. [Superseded(life[u]) EXCEPT ![n] = m] \in [Numbers -> Lives]
    BY <1>1, <2>2
  <2> QED BY <1>1, <1>2, <2>1, <2>4, <2>3, <2>5, <2>6 DEF Attempted, SameHold
<1>8. CASE Ask(u)
  <2> DEFINE s == [f EXCEPT !.lives = n, !.incarnation = n]
             m == [NoLife EXCEPT !.launch = "asked"]
  <2>1. s \in Managed /\ SameHold(f, s) /\ (s.timer <=> f.timer) /\ s.state = "Starting"
    BY <1>2, <1>6, <1>8 DEF Managed, SameHold, Ask
  <2>2. m \in Lives
    BY DEF NoLife, Lives
  <2>3. Record(u, s, [Superseded(life[u]) EXCEPT ![n] = m], due \ {u})
    BY <1>8 DEF Ask, f, n
  <2> HIDE DEF s, m
  <2>4. [Superseded(life[u]) EXCEPT ![n] = m] \in [Numbers -> Lives]
    BY <1>1, <2>2
  <2> QED BY <1>1, <1>2, <2>1, <2>3, <2>4 DEF Attempted, SameHold
<1> QED BY <1>3, <1>4, <1>5, <1>7, <1>8 DEF Attempt

LEMMA AttemptLaunch ==
    ASSUME TypeOK, LaunchInv, NEW u \in Units, Attempt(u)
    PROVE  LaunchInv'
<1>1. PICK r, ls : Attempted(u, r, ls)
  BY AttemptShape
<1>2. /\ r \in Managed /\ ls \in [Numbers -> Lives] /\ Taken(u) /\ SameHold(units[u], r)
      /\ Record(u, r, ls, due \ {u}) /\ due \ {u} \in SUBSET due
  BY <1>1 DEF Attempted
<1>3. u \in Launched' /\ ~r.held
  BY <1>2, OrderGrows DEF SameHold
<1> QED BY <1>2, <1>3, RecordLaunch

(* A step that touches one record, and leaves its state and its hold.      *)
LEMMA RecordRests ==
    ASSUME TypeOK, NEW u \in Units, NEW s, units' = [units EXCEPT ![u] = s],
           UNCHANGED <<life, order>>, stopping => stopping',
           s.state = units[u].state, SameHold(units[u], s), s.timer => units[u].timer,
           units[u].held /\ Dormant(units[u]) => Dormant(s)
    PROVE  Rests
<1>1. ASSUME NEW x \in Units PROVE StateKept(x)
  <2>1. units'[x] = IF x = u THEN s ELSE units[x]
    BY DEF TypeOK
  <2> QED BY <2>1 DEF StateKept, SameHold, NoneBegun
<1> QED BY <1>1 DEF Rests

(* A unit whose timer fired, or whom an operator starts, is to be attempted. *)
Woken(u) ==
    /\ Rests
    /\ due = {} /\ due' = {u}
    /\ ~units[u].held

LEMMA TimerShape ==
    ASSUME TypeOK, LaunchInv, NEW u \in Units, TimerNext(u)
    PROVE  \/ Rests /\ due' = due
           \/ NeverArrived(u)
           \/ Woken(u) /\ (units[u].timer \/ units[u].late > 0)
<1>1. /\ units[u] \in Managed /\ life[u] \in [Numbers -> Lives]
      /\ units[u].held => Dormant(units[u])
      /\ UNCHANGED <<order, stopping>>
  BY DEF TypeOK, LaunchInv, HeldIdle, TimerNext, WindowElapsed, NeverArrived, TimerFires, TimerIsLate,
     LateCallback, stopVars
<1>2. CASE WindowElapsed(u)
  <2>1. PICK lost : life' = [life EXCEPT ![u] = Killed(@, units[u].running, lost)]
    BY <1>2 DEF WindowElapsed
  <2>2. NoneBegun(life[u], Killed(life[u], units[u].running, lost))
    BY <1>1, NeverBegins
  <2>3. ASSUME NEW x \in Units PROVE StateKept(x)
    <3> DEFINE s == [units[u] EXCEPT !.windowOut = TRUE]
    <3>1. units'[x] = IF x = u THEN s ELSE units[x]
      BY <1>2 DEF WindowElapsed, TypeOK
    <3>2. /\ s.state = units[u].state /\ SameHold(units[u], s) /\ (s.timer <=> units[u].timer)
          /\ Dormant(units[u]) => Dormant(s)
      BY <1>1 DEF Managed, SameHold, Dormant
    <3> HIDE DEF s
    <3>3. life'[x] = IF x = u THEN Killed(life[u], units[u].running, lost) ELSE life[x]
      BY <2>1 DEF TypeOK
    <3> QED BY <2>2, <3>1, <3>2, <3>3 DEF StateKept, SameHold, NoneBegun
  <2>4. due' = due
    BY <1>2 DEF WindowElapsed
  <2> QED BY <1>1, <2>3, <2>4 DEF Rests
<1>3. CASE TimerFires(u)
  <2> DEFINE s == [units[u] EXCEPT !.timer = FALSE]
  <2>1. /\ s.state = units[u].state /\ SameHold(units[u], s) /\ ~s.timer
        /\ Dormant(units[u]) => Dormant(s)
    BY <1>1 DEF Managed, SameHold, Dormant
  <2>2. /\ units' = [units EXCEPT ![u] = s] /\ UNCHANGED life
        /\ due' = {u} /\ due = {} /\ units[u].timer
    BY <1>3 DEF TimerFires, Unlocked, TypeOK
  <2> HIDE DEF s
  <2>3. Rests
    BY <1>1, <2>1, <2>2, RecordRests
  <2> QED BY <1>1, <2>2, <2>3 DEF Woken, Dormant
<1>4. CASE TimerIsLate(u)
  <2> DEFINE s == [units[u] EXCEPT !.timer = FALSE, !.late = @ + 1]
  <2>1. s.state = units[u].state /\ SameHold(units[u], s) /\ ~s.timer
    BY <1>1 DEF Managed, SameHold
  <2>2. /\ units' = [units EXCEPT ![u] = s] /\ UNCHANGED <<life, due>>
        /\ units[u].timer
    BY <1>4 DEF TimerIsLate
  <2> HIDE DEF s
  <2> QED BY <1>1, <2>1, <2>2, RecordRests DEF Dormant
<1>5. CASE LateCallback(u)
  <2> DEFINE s == [units[u] EXCEPT !.late = @ - 1]
  <2>1. s.state = units[u].state /\ SameHold(units[u], s) /\ (s.timer <=> units[u].timer)
    BY <1>1 DEF Managed, SameHold
  <2>2. /\ units' = [units EXCEPT ![u] = s] /\ UNCHANGED life
        /\ due' \in {{}, {u}} /\ due = {} /\ units[u].late > 0
    BY <1>5 DEF LateCallback, Unlocked, TypeOK
  <2> HIDE DEF s
  <2>3. units[u].late # 0
    <3>1. units[u].late \in 0..LateCap
      BY <1>1 DEF Managed
    <3> QED BY <2>2, <3>1, BoundsAssumption
  <2>4. Rests
    BY <1>1, <2>1, <2>2, <2>3, RecordRests DEF Dormant
  <2> QED BY <1>1, <2>2, <2>3, <2>4 DEF Woken, Dormant
<1> QED BY <1>2, <1>4, <1>3, <1>5 DEF TimerNext

LEMMA InputShape ==
    ASSUME TypeOK, LaunchInv, NEW u \in Units, NEW in \in PluginInputs, Input(u, in)
    PROVE  StateWeighed(u)
<1>1. /\ units[u] \in Managed /\ life[u] \in [Numbers -> Lives] /\ SameHold(units[u], units[u])
      /\ due = {} /\ UNCHANGED <<order, stopping>> /\ in \in Inputs /\ NoneBegun(life[u], life[u])
  BY DEF TypeOK, Input, Unlocked, stopVars, PluginInputs, Inputs, SameHold, NoneBegun
<1>2. PICK l \in Numbers : Begun(life[u][l])
  BY DEF Input, Begun
<1>3. Record(u, Applied(u, units[u], in), life[u], {})
  BY DEF Input
<1> QED BY <1>1, <1>2, <1>3, LifeWeighed

LEMMA EngineShape ==
    ASSUME TypeOK, GoQuiet \/ Reconcile
    PROVE  Rests /\ due' = due
<1>1. CASE GoQuiet
  BY <1>1, NothingRests DEF GoQuiet, stopVars
<1>2. CASE Reconcile
  <2>1. ASSUME NEW x \in Units PROVE StateKept(x)
    <3>1. ASSUME NEW l \in Numbers, Begun(life'[x][l]) PROVE Begun(life[x][l])
      <4>1. life[x][l] \in Lives /\ \A m \in Numbers : life[x][m] \in Lives
        BY DEF TypeOK
      <4>2. PICK unknown : life'[x][l] = life[x][l] \/ life'[x][l] = Reconciled(life[x][l], unknown)
        BY <1>2 DEF Reconcile
      <4> QED BY <3>1, <4>1, <4>2 DEF Begun, Reconciled, Gone, Lives
    <3> QED BY <1>2, <3>1 DEF Reconcile, StateKept, SameHold, NoneBegun
  <2> QED BY <1>2, <2>1 DEF Reconcile, Rests, stopVars
<1> QED BY <1>1, <1>2

(* A unit that is asked to stop stays in its state until it ends.          *)
AskedToStop(u) == \E r, ls : Weighs(u, r, ls) /\ r.state = units[u].state

LEMMA StopOneShape ==
    ASSUME TypeOK, LaunchInv, NEW u \in Units, due = {}, UNCHANGED <<order, stopping>>, StopOne(u)
    PROVE  StateWeighed(u) /\ AskedToStop(u)
<1> DEFINE r == [units[u] EXCEPT !.timer = FALSE]
           a == Applied(u, r, "StopAsked")
           ls == Superseded(life[u])
<1>1. /\ units[u] \in Managed /\ life[u] \in [Numbers -> Lives]
      /\ units[u].held => Dormant(units[u])
  BY DEF TypeOK, LaunchInv, HeldIdle
<1>2. ls \in [Numbers -> Lives] /\ NoneBegun(life[u], ls)
  BY <1>1, SupersededType, NeverBegins
<1>3. /\ r \in Managed /\ SameHold(units[u], r) /\ ~r.timer /\ r.running = units[u].running
      /\ r.late = units[u].late /\ r.state = units[u].state
  BY <1>1 DEF Managed, SameHold
<1>4. Record(u, IF r.running = 0 THEN r ELSE a, ls, {})
  BY DEF StopOne
<1> HIDE DEF r
<1>5. /\ a \in Managed /\ SameHold(r, a) /\ ~a.timer /\ a.running = r.running /\ a.late = r.late
      /\ a.state = r.state
  <2> DEFINE m == [state |-> r.state, asked |-> r.asked]
  <2>1. Weighed(Kind[u], m, "StopAsked") = r.state
    BY DEF Weighed
  <2>2. /\ a \in Managed /\ SameHold(r, a) /\ a.running = r.running /\ (a.timer <=> r.timer)
        /\ a.late = r.late
        /\ a.state = r.state \/ a.state = Weighed(Kind[u], m, "StopAsked")
    <3>1. r \in Managed
      BY <1>3
    <3> QED BY <3>1, AppliedShape
  <2> HIDE DEF a
  <2> QED BY <1>3, <2>1, <2>2
<1> HIDE DEF a, ls
<1>6. \E s : s \in {r, a} /\ Record(u, s, ls, {})
  BY <1>4
<1>7. PICK s : s \in {r, a} /\ Record(u, s, ls, {})
  BY <1>6
<1>8. Weighs(u, s, ls) /\ s.state = units[u].state
  BY <1>1, <1>2, <1>3, <1>5, <1>7 DEF Weighs, SameHold, Dormant
<1> QED BY <1>8 DEF StateWeighed, AskedToStop

(* A signal, and what the caller notes of it.                              *)
LEMMA PressShape ==
    ASSUME TypeOK, NEW u \in Units, NEW n, NEW lost,
           life' = [life EXCEPT ![u] = Killed(@, n, lost)], UNCHANGED <<units, order, stopping>>
    PROVE  Rests
<1>1. NoneBegun(life[u], Killed(life[u], n, lost))
  BY NeverBegins DEF TypeOK
<1> QED BY <1>1, LivesRest

LEMMA OperatorShape ==
    ASSUME TypeOK, LaunchInv, NEW o \in Operators, OperatorNext(o)
    PROVE  \/ Rests /\ due' = due
           \/ StopUnit(o) /\ call[o].unit \in Units /\ StateWeighed(call[o].unit)
              /\ AskedToStop(call[o].unit)
           \/ StartUnit(o) /\ call[o].unit \in Units /\ Woken(call[o].unit)
<1>1. UNCHANGED <<order, stopping>>
  BY DEF OperatorNext, Asks, StopUnit, PressUnit, UnitStopped, StartUnit, stopVars
<1>2. call[o] # Idle => call[o].unit \in Units
  BY DEF TypeOK, Calls
<1>3. CASE \E op \in Ops, u \in Units : Asks(o, op, u)
  BY <1>1, <1>3, NothingRests DEF Asks
<1>4. CASE UnitStopped(o)
  BY <1>1, <1>4, NothingRests DEF UnitStopped
<1>5. CASE PressUnit(o)
  BY <1>1, <1>2, <1>5, PressShape DEF PressUnit
<1>6. CASE StopUnit(o)
  BY <1>1, <1>2, <1>6, StopOneShape DEF StopUnit, Unlocked
<1>7. CASE StartUnit(o)
  <2> DEFINE u == call[o].unit
             s == [units[u] EXCEPT !.timer = FALSE]
  <2>1. UNCHANGED life /\ due = {} /\ u \in Units
    BY <1>2, <1>7 DEF StartUnit, Unlocked
  <2>2. CASE LeftAsItIs(u)
    BY <1>1, <1>7, <2>1, <2>2, NothingRests DEF StartUnit
  <2>3. CASE ~LeftAsItIs(u)
    <3>1. units' = [units EXCEPT ![u] = s] /\ due' = {u} /\ ~units[u].held
      BY <1>7, <2>1, <2>3 DEF StartUnit, LeftAsItIs, TypeOK
    <3>2. s.state = units[u].state /\ SameHold(units[u], s) /\ ~s.timer
      <4>1. units[u] \in Managed
        BY <2>1 DEF TypeOK
      <4> HIDE DEF u
      <4> QED BY <4>1 DEF Managed, SameHold
    <3> HIDE DEF s
    <3>3. Rests
      BY <1>1, <2>1, <3>1, <3>2, RecordRests
    <3> QED BY <1>7, <2>1, <3>1, <3>3 DEF Woken
  <2> QED BY <2>2, <2>3
<1> QED BY <1>3, <1>5, <1>4, <1>6, <1>7 DEF OperatorNext

(* A decision weighed on a unit that has no Session yet arms nothing.       *)
LEMMA DeclinesSettled ==
    ASSUME NEW u, NEW r \in Managed, NEW in \in {"AdmissionDeclined", "AdmissionWithdrawn"},
           ~Terminal(r.state)
    PROVE  /\ Settled(u, Applied(u, r, in)) = Applied(u, r, in)
           /\ Applied(u, r, in).state \in {r.state, "Refused"}
<1> DEFINE a == Applied(u, r, in)
           m == [state |-> r.state, asked |-> r.asked]
<1>1. a \in Managed /\ (a.state = r.state \/ a.state = Weighed(Kind[u], m, in))
  BY AppliedShape
<1>2. a.state = r.state \/ a.state = "Refused"
  BY <1>1 DEF Weighed
<1> HIDE DEF a
<1>3. a.state # "Failed" => Settled(u, a) = a
  BY <1>1, SettledShape
<1> QED BY <1>2, <1>3 DEF Terminal, TerminalStates, a

LEMMA PolicyShape ==
    ASSUME TypeOK, LaunchInv, NEW u \in Units, PolicyNext(u)
    PROVE  (Rests /\ due' = due) \/ StateWeighed(u)
<1>1. /\ units[u] \in Managed /\ life[u] \in [Numbers -> Lives] /\ NoneBegun(life[u], life[u])
      /\ units[u].held => Dormant(units[u])
      /\ UNCHANGED <<order, stopping>>
  BY DEF TypeOK, LaunchInv, HeldIdle, NoneBegun, PolicyNext, Disable, Enable, Withdraw, stopVars
<1>2. CASE Disable(u) \/ Enable(u)
  BY <1>1, <1>2, NothingRests DEF Disable, Enable
<1>3. CASE Withdraw(u)
  <2>1. due = {} /\ u \in withdrawing
    BY <1>3 DEF Withdraw, Unlocked
  <2>2. ASSUME NEW in \in {"AdmissionDeclined", "AdmissionWithdrawn"}, ~Terminal(units[u].state),
               Record(u, Settled(u, Applied(u, units[u], in)), life[u], {})
        PROVE  StateWeighed(u)
    <3> DEFINE a == Applied(u, units[u], in)
               m == [state |-> units[u].state, asked |-> units[u].asked]
    <3>1. /\ a \in Managed /\ SameHold(units[u], a) /\ a.running = units[u].running
          /\ (a.timer <=> units[u].timer) /\ a.late = units[u].late
          /\ a.state = units[u].state \/ a.state = Weighed(Kind[u], m, in)
      BY <1>1, AppliedShape
    <3>2. a.state = units[u].state \/ a.state = "Refused"
      BY <1>1, <2>2, DeclinesSettled
    <3>3. Record(u, a, life[u], {})
      BY <1>1, <2>2, DeclinesSettled
    <3> HIDE DEF a
    <3>4. in \in Inputs
      BY DEF Inputs
    <3>5. Weighs(u, a, life[u])
      BY <1>1, <2>1, <2>2, <3>1, <3>2, <3>4, <3>3 DEF Weighs, SameHold, Dormant
    <3> QED BY <3>5 DEF StateWeighed
  <2>3. CASE units[u].state = "Starting" \/ units[u].state = "Admitted"
    BY <1>3, <2>2, <2>3 DEF Withdraw, Terminal, TerminalStates
  <2>4. CASE Terminal(units[u].state) /\ units[u].waiting
    <3> DEFINE w == Without(units[u], Declined)
               s == [w EXCEPT !.timer = FALSE]
    <3>1. Declined \in Machines
      BY DEF Declined, Machines, States, TerminalStates
    <3>2. w \in Managed
      BY <1>1, <3>1, WithoutType
    <3>3. w \in Managed /\ SameHold(units[u], w) /\ w.state = "Refused" /\ w.running = 0
          /\ w.late = units[u].late
      BY <1>1, <3>2 DEF Without, Declined, Managed, SameHold
    <3>4. Record(u, s, life[u], {})
      BY <1>3, <2>4 DEF Withdraw, Terminal, TerminalStates, DeclinedUnit
    <3> HIDE DEF w
    <3>5. /\ s \in Managed /\ SameHold(units[u], s) /\ ~s.timer /\ s.state = "Refused"
          /\ s.running = 0 /\ s.late = units[u].late
      BY <3>3 DEF Managed, SameHold
    <3> HIDE DEF s
    <3>6. Weighs(u, s, life[u])
      BY <1>1, <2>1, <2>4, <3>4, <3>5 DEF Weighs, Dormant
    <3> QED BY <3>6 DEF StateWeighed
  <2>5. CASE /\ units[u].state # "Starting" /\ units[u].state # "Admitted"
             /\ ~(Terminal(units[u].state) /\ units[u].waiting)
    BY <1>1, <1>3, <2>5, NothingRests DEF Withdraw
  <2> QED BY <2>3, <2>4, <2>5
<1> QED BY <1>2, <1>3 DEF PolicyNext

LEMMA StopShape ==
    ASSUME TypeOK, LaunchInv, StopNext
    PROVE  \/ Rests /\ due' = due
           \/ StopTakes /\ NextToStop \in Units /\ StateWeighed(NextToStop)
              /\ AskedToStop(NextToStop)
<1>1. order' = order
  BY DEF StopNext, StopBegins, StopTakes, StopPresses, StopHasStopped
<1>2. CASE StopBegins
  <2>1. ASSUME NEW x \in Units PROVE StateKept(x)
    <3> DEFINE s == [units[x] EXCEPT !.timer = FALSE]
    <3>1. units[x] \in Managed /\ units'[x] = s /\ life' = life
      BY <1>2 DEF TypeOK, StopBegins
    <3>2. /\ s.state = units[x].state /\ SameHold(units[x], s) /\ ~s.timer
          /\ Dormant(units[x]) => Dormant(s)
      BY <3>1 DEF Managed, SameHold, Dormant
    <3> HIDE DEF s
    <3> QED BY <3>1, <3>2 DEF StateKept, SameHold, NoneBegun
  <2> QED BY <1>1, <1>2, <2>1 DEF Rests, StopBegins
<1>3. CASE StopTakes
  <2>1. NextToStop \in Units /\ UNCHANGED stopping /\ due = {}
    BY <1>3 DEF StopTakes, NextToStop, TypeOK, Unlocked
  <2>2. CASE Unreachable(NextToStop)
    BY <1>1, <1>3, <2>1, <2>2, NothingRests DEF StopTakes
  <2>3. CASE ~Unreachable(NextToStop)
    <3>1. StopOne(NextToStop)
      BY <1>3, <2>3 DEF StopTakes
    <3> HIDE DEF NextToStop
    <3> QED BY <1>1, <1>3, <2>1, <3>1, StopOneShape
  <2> QED BY <2>2, <2>3
<1>4. CASE StopPresses
  <2> DEFINE u == NextToStop
  <2>1. PICK lost : life' = [life EXCEPT ![u] = Killed(@, stop.life, lost)]
    BY <1>4 DEF StopPresses
  <2>2. UNCHANGED <<units, stopping, due>>
    BY <1>4 DEF StopPresses
  <2> HIDE DEF u
  <2>3. CASE u \in Units
    BY <1>1, <2>1, <2>2, <2>3, PressShape
  <2>4. CASE u \notin Units
    BY <1>1, <2>1, <2>2, <2>4, NothingRests DEF TypeOK
  <2> QED BY <2>2, <2>3, <2>4
<1>5. CASE StopHasStopped
  BY <1>1, <1>5, NothingRests DEF StopHasStopped
<1> QED BY <1>2, <1>4, <1>3, <1>5 DEF StopNext

LEMMA GivenUpLaunch ==
    ASSUME TypeOK, LaunchInv, NEW u \in Units, NeverArrived(u)
    PROVE  LaunchInv'
<1> DEFINE s == [units[u] EXCEPT !.held = FALSE, !.awaiting = {}, !.notStarted = TRUE]
<1>1. /\ \A x \in Units : units'[x] = IF x = u THEN s ELSE units[x]
      /\ UNCHANGED <<life, due, order, stopping>>
  BY DEF NeverArrived, TypeOK, stopVars
<1>2. ~s.held /\ s.awaiting = {} /\ s.notStarted /\ s.state = units[u].state
  <2>1. units[u] \in Managed
    BY DEF TypeOK
  <2> QED BY <2>1 DEF Managed
<1> HIDE DEF s
<1>3. Launched' = Launched
  BY <1>1 DEF Launched
<1>4. ASSUME NEW x \in Units
      PROVE  /\ HeldIdle(x, units'[x], life'[x])
             /\ units'[x].held => x \notin due'
             /\ Awaits(x, units'[x], Launched', stopping')
             /\ \A l \in Numbers : Begun(life'[x][l]) => x \in Launched'
  <2>1. CASE x = u
    BY <1>1, <1>2, <1>3, <2>1 DEF HeldIdle, Awaits, LaunchInv
  <2>2. CASE x # u
    <3>1. /\ HeldIdle(x, units[x], life[x]) /\ (units[x].held => x \notin due)
          /\ Awaits(x, units[x], Launched, stopping)
          /\ \A l \in Numbers : Begun(life[x][l]) => x \in Launched
      BY DEF LaunchInv
    <3> QED BY <1>1, <1>3, <2>2, <3>1
  <2> QED BY <2>1, <2>2
<1>5. ASSUME NEW x \in Units, NEW d \in units'[x].awaiting
      PROVE  ~Ready(Kind[d], units'[d].state)
  <2>1. x # u /\ d \in units[x].awaiting /\ units[x].awaiting \subseteq DependsOn[x]
    BY <1>1, <1>2, <1>5 DEF LaunchInv, Awaits
  <2>2. d \in Units
    BY <2>1, UnitsAssumption
  <2> QED BY <1>1, <1>2, <2>1, <2>2 DEF LaunchInv
<1>6. DependenciesLaunchedFirst'
  <2>1. \A i \in DOMAIN order : order[i] \in Units
    BY DEF TypeOK
  <2> QED BY <1>1, <1>2, <2>1 DEF LaunchInv, DependenciesLaunchedFirst
<1> QED BY <1>4, <1>5, <1>6 DEF LaunchInv

LEMMA NextLaunch == TypeOK /\ LaunchInv /\ [Next]_vars => LaunchInv'
<1> SUFFICES ASSUME TypeOK, LaunchInv, [Next]_vars PROVE LaunchInv'
  OBVIOUS
<1>1. ASSUME Rests, due' = due PROVE LaunchInv'
  BY <1>1, RestsLaunch
<1>2. ASSUME NEW u \in Units, Woken(u) PROVE LaunchInv'
  BY <1>2, RestsLaunch DEF Woken
<1>3. ASSUME NEW u \in Units, Attempt(u) \/ TimerNext(u) \/ PolicyNext(u) PROVE LaunchInv'
  BY <1>1, <1>2, <1>3, AttemptLaunch, TimerShape, GivenUpLaunch, PolicyShape, WeighsLaunch
<1>4. ASSUME NEW u \in Units, NEW l \in Numbers, LaunchNext(u, l) \/ EndNext(u, l) PROVE LaunchInv'
  BY <1>1, <1>4, LaunchShape, EndShape, WeighsLaunch
<1>5. ASSUME NEW u \in Units, NEW in \in PluginInputs, Input(u, in) PROVE LaunchInv'
  BY <1>5, InputShape, WeighsLaunch
<1>6. ASSUME NEW o \in Operators, OperatorNext(o) PROVE LaunchInv'
  BY <1>1, <1>2, <1>6, OperatorShape, WeighsLaunch
<1>7. CASE GoQuiet \/ Reconcile
  BY <1>1, <1>7, EngineShape
<1>8. CASE StopNext
  <2> HIDE DEF NextToStop
  <2> QED BY <1>1, <1>8, StopShape, WeighsLaunch
<1>9. CASE UNCHANGED vars
  BY <1>1, <1>9, NothingRests DEF vars, stopVars, operatorVars
<1> QED BY <1>3, <1>4, <1>5, <1>7, <1>6, <1>8, <1>9 DEF Next

(* A unit waits for something that is not ready, and comes in the order    *)
(* after all it depends on: the first two parts of OrderKept, for every    *)
(* deployment and whatever operators ask (Start, release, attempt).        *)
THEOREM LaunchesInOrder == Spec => [](HeldForAReason /\ DependenciesLaunchedFirst)
<1>1. Spec => [](TypeOK /\ LaunchInv)
  <2>1. Init => TypeOK /\ LaunchInv
    BY InitType, InitLaunch
  <2>2. TypeOK /\ LaunchInv /\ [Next]_vars => (TypeOK /\ LaunchInv)'
    BY NextType, NextLaunch
  <2> QED BY <2>1, <2>2, PTL DEF Spec
<1>2. TypeOK /\ LaunchInv => HeldForAReason /\ DependenciesLaunchedFirst
  <2> SUFFICES ASSUME LaunchInv, ~stopping, NEW u \in Units, units[u].held
               PROVE  \E d \in DependsOn[u] : ~Ready(Kind[d], units[d].state)
    BY DEF HeldForAReason, LaunchInv
  <2>1. units[u].awaiting # {} /\ units[u].awaiting \subseteq DependsOn[u]
    BY DEF LaunchInv, Awaits
  <2> QED BY <2>1 DEF LaunchInv
<1> QED BY <1>1, <1>2, PTL

--------------------------------------------------------------------------------
(* In what order units are stopped, whoever starts one meanwhile: what     *)
(* lives on the host is the process its unit signals, or beyond Stop, and  *)
(* a unit that waits to be attempted again signals none.                   *)
Kept(r, ls, out) ==
    /\ \A l \in Numbers : Alive(ls[l]) => r.running = l \/ l \in out
    /\ r.waiting => r.running = 0

KeptInv == \A u \in Units \ Image : Kept(units[u], life[u], beyond[u])

(* A record and lives with no more to signal, to wait for or to watch.     *)
Stiller(r, s) == /\ s.running = r.running
                 /\ s.waiting => r.waiting
Fewer(ls, ms) == \A l \in Numbers : Alive(ms[l]) => Alive(ls[l])

(* A unit begins no process, and lets go of none that lives.               *)
Slack(r, s, ls, ms) ==
    /\ \/ s.running = r.running
       \/ s.running = 0 /\ (r.running # 0 => ~Alive(ls[r.running]))
    /\ s.waiting => r.waiting \/ s.running = 0
    /\ Fewer(ls, ms)

Grows == \A x \in Units : beyond[x] \subseteq beyond'[x]

Slackens ==
    /\ order' = order /\ Grows
    /\ \A x \in Units \ Image : Slack(units[x], units'[x], life[x], life'[x])

LEMMA EasedSlack ==
    ASSUME NEW r, NEW s, NEW ls, NEW ms, Stiller(r, s), Fewer(ls, ms)
    PROVE  Slack(r, s, ls, ms)
BY DEF Stiller, Slack

LEMMA StillerHelpers ==
    ASSUME NEW u, NEW r \in Managed, NEW in
    PROVE  Stiller(r, r) /\ Stiller(r, Applied(u, r, in)) /\ Applied(u, r, in) \in Managed
<1>1. Applied(u, r, in) \in Managed
  BY AppliedType
<1> QED BY <1>1 DEF Stiller, Applied, Managed

LEMMA FewerHelpers ==
    ASSUME NEW ls \in [Numbers -> Lives], NEW n, NEW lost
    PROVE  /\ Fewer(ls, ls)
           /\ Fewer(ls, Superseded(ls))
           /\ Fewer(ls, Killed(ls, n, lost))
           /\ Fewer(ls, [ls EXCEPT ![n].doomed = FALSE])
           /\ Fewer(ls, [ls EXCEPT ![n].doomed = TRUE])
<1>1. Fewer(ls, ls)
  BY DEF Fewer
<1>2. Fewer(ls, Superseded(ls))
  BY DEF Fewer, Superseded, Alive, Lives
<1>3. Fewer(ls, Killed(ls, n, lost))
  BY DEF Fewer, Killed, Alive, Lives
<1>4. Fewer(ls, [ls EXCEPT ![n].doomed = FALSE]) /\ Fewer(ls, [ls EXCEPT ![n].doomed = TRUE])
  BY DEF Fewer, Alive, Lives
<1> QED BY <1>1, <1>3, <1>2, <1>4

LEMMA FewerTwice ==
    ASSUME NEW ls, NEW ms, NEW ns, Fewer(ls, ms), Fewer(ms, ns)
    PROVE  Fewer(ls, ns)
BY DEF Fewer

(* A step that touches no unit on the host but in the lives it may end.    *)
LEMMA StillSlackens ==
    ASSUME TypeOK, order' = order, beyond' = beyond,
           \A x \in Units \ Image : Stiller(units[x], units'[x]) /\ Fewer(life[x], life'[x])
    PROVE  Slackens
BY EasedSlack DEF Slackens, Grows

(* The end of a critical section: whom it releases has no process by that. *)
LEMMA RecordOthers ==
    ASSUME TypeOK, NEW u \in Units, NEW r \in Managed, NEW ls \in [Numbers -> Lives], NEW rest,
           Record(u, r, ls, rest)
    PROVE  /\ units'[u] = r /\ Fewer(ls, life'[u])
           /\ \A x \in Units \ {u} : Stiller(units[x], units'[x]) /\ life'[x] = life[x]
<1>1. units'[u] = r
  BY DEF Record, TypeOK
<1>2. life'[u] = ls \/ life'[u] = [ls EXCEPT ![r.running].doomed = TRUE]
  BY DEF Record, TypeOK
<1>3. Fewer(ls, life'[u])
  <2>1. Fewer(ls, ls) /\ Fewer(ls, [ls EXCEPT ![r.running].doomed = TRUE])
    BY FewerHelpers
  <2> QED BY <1>2, <2>1
<1>4. ASSUME NEW x \in Units \ {u} PROVE Stiller(units[x], units'[x]) /\ life'[x] = life[x]
  <2>1. units[x] \in Managed /\ life'[x] = life[x]
    BY DEF TypeOK, Record
  <2>2. \A a, h : Stiller(units[x], [units[x] EXCEPT !.awaiting = a, !.held = h])
    BY <2>1 DEF Stiller, Managed
  <2>3. Stiller(units[x], units[x])
    BY DEF Stiller
  <2> QED BY <2>1, <2>2, <2>3 DEF Record, TypeOK
<1> QED BY <1>1, <1>3, <1>4

LEMMA RecordSlackens ==
    ASSUME TypeOK, order' = order, beyond' = beyond, NEW u \in Units, NEW r \in Managed,
           NEW ls \in [Numbers -> Lives], NEW rest, Record(u, r, ls, rest),
           u \notin Image => Slack(units[u], r, life[u], ls)
    PROVE  Slackens
<1> SUFFICES ASSUME NEW x \in Units \ Image
             PROVE  Slack(units[x], units'[x], life[x], life'[x])
  BY DEF Slackens, Grows
<1>1. CASE x = u
  <2>1. units'[u] = r /\ Fewer(ls, life'[u])
    BY RecordOthers
  <2> QED BY <1>1, <2>1, FewerTwice DEF Slack
<1>2. CASE x # u
  <2>1. Stiller(units[x], units'[x]) /\ life'[x] = life[x]
    BY <1>2, RecordOthers
  <2> QED BY <2>1, EasedSlack DEF Fewer
<1> QED BY <1>1, <1>2

(* A step that touches the lives of one unit alone.                        *)
LEMMA LivesSlacken ==
    ASSUME TypeOK, order' = order, beyond' = beyond, NEW u \in Units, NEW ms,
           life' = [life EXCEPT ![u] = ms], u \notin Image => Fewer(life[u], ms), units' = units
    PROVE  Slackens
<1>1. ASSUME NEW x \in Units \ Image
      PROVE  Stiller(units[x], units'[x]) /\ Fewer(life[x], life'[x])
  <2>1. life'[x] = IF x = u THEN ms ELSE life[x]
    BY DEF TypeOK
  <2> QED BY <2>1 DEF Stiller, Fewer
<1> QED BY <1>1, StillSlackens

(* A step that writes one record and leaves the lives.                     *)
LEMMA OneSlackens ==
    ASSUME TypeOK, order' = order, beyond' = beyond, NEW u \in Units, NEW s,
           units' = [units EXCEPT ![u] = s], life' = life, Stiller(units[u], s)
    PROVE  Slackens
<1>1. ASSUME NEW x \in Units \ Image
      PROVE  Stiller(units[x], units'[x]) /\ Fewer(life[x], life'[x])
  <2>1. units'[x] = IF x = u THEN s ELSE units[x]
    BY DEF TypeOK
  <2> QED BY <2>1 DEF Stiller, Fewer
<1> QED BY <1>1, StillSlackens

LEMMA LaunchSlackens ==
    ASSUME TypeOK, HostInv, NEW u \in Units, NEW l \in Numbers, LaunchNext(u, l)
    PROVE  Slackens
<1>1. /\ units[u] \in Managed /\ life[u] \in [Numbers -> Lives]
      /\ Over(life[u], l) \in [Numbers -> Lives]
  BY OverType DEF TypeOK
<1>2. u \in Image
  BY DEF LaunchNext, LaunchFails, LaunchStarts, StartErrs, LaunchRecorded,
         HostInv, HostUnit, InFlight
<1>3. order' = order /\ beyond' = beyond
  BY DEF LaunchNext, LaunchFails, LaunchStarts, StartErrs, LaunchRecorded
<1>4. ASSUME NEW ms, life' = [life EXCEPT ![u] = ms], units' = units PROVE Slackens
  BY <1>2, <1>3, <1>4, LivesSlacken
<1>5. ASSUME NEW r \in Managed, Record(u, r, Over(life[u], l), due) PROVE Slackens
  BY <1>1, <1>2, <1>3, <1>5, RecordSlackens
<1>6. CASE LaunchFails(u, l)
  <2>1. FailedLaunch(u, units[u]) \in Managed
    BY <1>1, AppliedType, SettledType DEF FailedLaunch
  <2> QED BY <1>4, <1>5, <1>6, <2>1 DEF LaunchFails, RecordFailure
<1>7. CASE LaunchStarts(u, l)
  <2>1. life' = [life EXCEPT ![u] = [life[u] EXCEPT ![l] = [life[u][l] EXCEPT
                   !.launch = "started", !.proc = "up", !.watch = "watched"]]]
    BY <1>7 DEF LaunchStarts, SetLife, TypeOK
  <2> QED BY <1>4, <1>7, <2>1 DEF LaunchStarts
<1>8. CASE StartErrs(u, l)
  BY <1>4, <1>8 DEF StartErrs
<1>9. CASE LaunchRecorded(u, l)
  <2>1. l \in LifeOrNone
    BY BoundsAssumption DEF Numbers, LifeOrNone
  <2>2. [units[u] EXCEPT !.running = l] \in Managed
    BY <1>1, <2>1 DEF Managed
  <2>3. Applied(u, [units[u] EXCEPT !.running = l], "ProcessStarted") \in Managed
    BY <2>2, AppliedType
  <2>4. CASE life[u][l].superseded \/ stopping
    BY <1>4, <1>9, <2>4 DEF LaunchRecorded
  <2>5. CASE ~(life[u][l].superseded \/ stopping)
    BY <1>5, <1>9, <2>3, <2>5 DEF LaunchRecorded
  <2> QED BY <2>4, <2>5
<1> QED BY <1>6, <1>8, <1>7, <1>9 DEF LaunchNext

LEMMA EndSlackens ==
    ASSUME TypeOK, HostInv, NEW u \in Units, NEW l \in Numbers, EndNext(u, l)
    PROVE  Slackens
<1>1. units[u] \in Managed /\ life[u] \in [Numbers -> Lives] /\ life[u][l] \in Lives
  BY DEF TypeOK
<1>2. order' = order /\ beyond' = beyond
  BY DEF EndNext, Ends, HearEnd, Conclude, DisposeKill
<1>3. ASSUME NEW ms, life' = [life EXCEPT ![u] = ms], units' = units,
             u \notin Image => Fewer(life[u], ms)
      PROVE  Slackens
  BY <1>2, <1>3, LivesSlacken
<1>4. CASE Ends(u, l)
  <2>1. PICK how \in {"zero", "nonzero"} : life' = [life EXCEPT ![u][l] = [life[u][l] EXCEPT !.proc = how]]
    BY <1>4 DEF Ends, SetLife
  <2> DEFINE ms == [life[u] EXCEPT ![l] = [life[u][l] EXCEPT !.proc = how]]
  <2>2. Fewer(life[u], ms)
    BY <1>1, <2>1 DEF Fewer, Alive, Lives
  <2>3. life' = [life EXCEPT ![u] = ms]
    BY <2>1 DEF TypeOK
  <2> HIDE DEF ms
  <2> QED BY <1>3, <1>4, <2>2, <2>3 DEF Ends
<1>5. CASE HearEnd(u, l)
  <2>1. \A x \in Units \ Image : life'[x] = life[x] /\ units'[x] = units[x]
    BY <1>5 DEF HearEnd, SetLife, TypeOK
  <2> QED BY <1>2, <2>1, StillSlackens DEF Stiller, Fewer
<1>6. CASE DisposeKill(u, l)
  <2>1. PICK lost : life' = [life EXCEPT ![u] = [Killed(life[u], l, lost) EXCEPT ![l].doomed = FALSE]]
    BY <1>6 DEF DisposeKill
  <2> DEFINE ks == Killed(life[u], l, lost)
  <2>2. ks \in [Numbers -> Lives] /\ Fewer(life[u], ks)
    BY <1>1, KilledType, FewerHelpers
  <2> HIDE DEF ks
  <2>3. Fewer(ks, [ks EXCEPT ![l].doomed = FALSE])
    BY <2>2, FewerHelpers
  <2>4. Fewer(life[u], [ks EXCEPT ![l].doomed = FALSE])
    BY <2>2, <2>3, FewerTwice
  <2> QED BY <1>3, <1>6, <2>1, <2>4 DEF DisposeKill, ks
<1>7. CASE Conclude(u, l)
  <2> DEFINE ls == [life[u] EXCEPT ![l] = [@ EXCEPT !.watch = "concluded", !.doomed = FALSE]]
             r == [units[u] EXCEPT !.running = 0]
             in == IF r.windowOut THEN "WindowElapsed" ELSE ExitOf(life[u][l])
             s == Settled(u, Applied(u, r, in))
  <2>1. ls \in [Numbers -> Lives] /\ ~Alive(life[u][l]) /\ Fewer(life[u], ls)
    BY <1>1, <1>7 DEF Lives, Alive, Fewer, Conclude, EndReached, Gone
  <2>2. r \in Managed /\ r.running = 0
    <3>1. 0 \in LifeOrNone
      BY BoundsAssumption DEF LifeOrNone
    <3> QED BY <1>1, <3>1 DEF Managed
  <2>3. CASE units[u].incarnation # l
    <3>1. life' = [life EXCEPT ![u] = ls] /\ units' = units
      BY <1>7, <2>3 DEF Conclude
    <3> HIDE DEF ls
    <3> QED BY <1>3, <2>1, <3>1
  <2>4. CASE units[u].incarnation = l
    <3>1. Record(u, s, ls, due)
      BY <1>7, <2>4 DEF Conclude
    <3>2. Applied(u, r, in) \in Managed /\ Applied(u, r, in).running = 0
      <4>1. Stiller(r, Applied(u, r, in)) /\ Applied(u, r, in) \in Managed
        BY <2>2, StillerHelpers
      <4> QED BY <2>2, <4>1 DEF Stiller
    <3> HIDE DEF r, in, ls
    <3>3. s \in Managed /\ s.running = 0
      BY <3>2, SettledType, SettledKeeps DEF SameLife
    <3> HIDE DEF s
    <3>4. u \notin Image => Slack(units[u], s, life[u], ls)
      <4> SUFFICES ASSUME u \notin Image PROVE Slack(units[u], s, life[u], ls)
        OBVIOUS
      <4>1. units[u].running # 0 => units[u].running = l
        BY <2>4 DEF HostInv, HostUnit
      <4> QED BY <2>1, <3>3, <4>1 DEF Slack
    <3> QED BY <1>2, <2>1, <3>1, <3>3, <3>4, RecordSlackens
  <2> QED BY <2>3, <2>4
<1> QED BY <1>4, <1>6, <1>5, <1>7 DEF EndNext

LEMMA TimerSlackens ==
    ASSUME TypeOK, NEW u \in Units, TimerNext(u)
    PROVE  Slackens
<1>1. units[u] \in Managed /\ life[u] \in [Numbers -> Lives]
  BY DEF TypeOK
<1>2. order' = order /\ beyond' = beyond
  BY DEF TimerNext, WindowElapsed, NeverArrived, TimerFires, TimerIsLate, LateCallback
<1>3. CASE WindowElapsed(u)
  <2>1. PICK lost : life' = [life EXCEPT ![u] = Killed(@, units[u].running, lost)]
    BY <1>3 DEF WindowElapsed
  <2>2. Fewer(life[u], Killed(life[u], units[u].running, lost))
    BY <1>1, FewerHelpers
  <2>3. Stiller(units[u], [units[u] EXCEPT !.windowOut = TRUE])
    BY <1>1 DEF Managed, Stiller
  <2>4. ASSUME NEW x \in Units \ Image
        PROVE  Stiller(units[x], units'[x]) /\ Fewer(life[x], life'[x])
    <3>1. CASE x = u
      BY <1>3, <2>1, <2>2, <2>3, <3>1 DEF TypeOK, WindowElapsed
    <3>2. CASE x # u
      BY <1>3, <2>1, <3>2 DEF TypeOK, WindowElapsed, Stiller, Fewer
    <3> QED BY <3>1, <3>2
  <2> QED BY <1>2, <2>4, StillSlackens
<1>4. ASSUME NEW s, units' = [units EXCEPT ![u] = s], life' = life, Stiller(units[u], s)
      PROVE  Slackens
  BY <1>2, <1>4, OneSlackens
<1>5. CASE NeverArrived(u)
  <2>1. Stiller(units[u], [units[u] EXCEPT !.held = FALSE, !.awaiting = {}, !.notStarted = TRUE])
    BY <1>1 DEF Managed, Stiller
  <2> QED BY <1>4, <1>5, <2>1 DEF NeverArrived
<1>6. CASE TimerFires(u)
  <2>1. Stiller(units[u], [units[u] EXCEPT !.timer = FALSE])
    BY <1>1 DEF Managed, Stiller
  <2>2. units' = [units EXCEPT ![u] = [units[u] EXCEPT !.timer = FALSE]]
    BY <1>6 DEF TimerFires, TypeOK
  <2> QED BY <1>4, <1>6, <2>1, <2>2 DEF TimerFires
<1>7. CASE TimerIsLate(u)
  <2>1. Stiller(units[u], [units[u] EXCEPT !.timer = FALSE, !.late = @ + 1])
    BY <1>1 DEF Managed, Stiller
  <2> QED BY <1>4, <1>7, <2>1 DEF TimerIsLate
<1>8. CASE LateCallback(u)
  <2>1. Stiller(units[u], [units[u] EXCEPT !.late = @ - 1])
    BY <1>1 DEF Managed, Stiller
  <2>2. units' = [units EXCEPT ![u] = [units[u] EXCEPT !.late = @ - 1]]
    BY <1>8 DEF LateCallback, TypeOK
  <2> QED BY <1>4, <1>8, <2>1, <2>2 DEF LateCallback
<1> QED BY <1>3, <1>5, <1>7, <1>6, <1>8 DEF TimerNext

LEMMA InputSlackens ==
    ASSUME TypeOK, NEW u \in Units, NEW in \in PluginInputs, Input(u, in)
    PROVE  Slackens
<1> DEFINE a == Applied(u, units[u], in)
<1>1. /\ units[u] \in Managed /\ life[u] \in [Numbers -> Lives] /\ Fewer(life[u], life[u])
      /\ order' = order /\ beyond' = beyond
  BY DEF TypeOK, Fewer, Input
<1>2. Stiller(units[u], a) /\ a \in Managed /\ Record(u, a, life[u], {})
  BY <1>1, StillerHelpers DEF Input
<1> HIDE DEF a
<1>3. Slack(units[u], a, life[u], life[u])
  BY <1>1, <1>2, EasedSlack
<1> QED BY <1>1, <1>2, <1>3, RecordSlackens

LEMMA EngineSlackens ==
    ASSUME TypeOK, GoQuiet \/ Reconcile
    PROVE  Slackens
<1>1. /\ order' = order /\ beyond' = beyond
      /\ \A x \in Units \ Image : units'[x] = units[x] /\ life'[x] = life[x]
  BY DEF GoQuiet, Reconcile
<1> QED BY <1>1, StillSlackens DEF Stiller, Fewer

(* stopOne: what it records of the unit it asks.                           *)
LEMMA StopOneRecord ==
    ASSUME TypeOK, NEW u \in Units, StopOne(u)
    PROVE  \E r \in Managed : Record(u, r, Superseded(life[u]), {}) /\ Stiller(units[u], r)
<1> DEFINE r == [units[u] EXCEPT !.timer = FALSE]
           s == IF r.running = 0 THEN r ELSE Applied(u, r, "StopAsked")
<1>1. r \in Managed /\ Stiller(units[u], r)
  <2>1. units[u] \in Managed
    BY DEF TypeOK
  <2> QED BY <2>1 DEF Managed, Stiller
<1>2. Record(u, s, Superseded(life[u]), {})
  BY DEF StopOne
<1> HIDE DEF r
<1>3. s \in Managed /\ Stiller(r, s)
  BY <1>1, StillerHelpers
<1> HIDE DEF s
<1> QED BY <1>1, <1>2, <1>3 DEF Stiller

LEMMA StopOneSlackens ==
    ASSUME TypeOK, NEW u \in Units, StopOne(u), order' = order, beyond' = beyond
    PROVE  Slackens /\ units'[u].running = units[u].running
<1>1. PICK r \in Managed : Record(u, r, Superseded(life[u]), {}) /\ Stiller(units[u], r)
  BY StopOneRecord
<1>2. /\ Superseded(life[u]) \in [Numbers -> Lives]
      /\ Fewer(life[u], Superseded(life[u]))
  BY SupersededType, FewerHelpers DEF TypeOK
<1>3. Slack(units[u], r, life[u], Superseded(life[u]))
  BY <1>1, <1>2, EasedSlack
<1>4. units'[u] = r
  BY <1>1, <1>2, RecordOthers
<1> QED BY <1>1, <1>2, <1>3, <1>4, RecordSlackens DEF Stiller

LEMMA PolicySlackens ==
    ASSUME TypeOK, KeptInv, NEW u \in Units, PolicyNext(u)
    PROVE  Slackens
<1>1. units[u] \in Managed /\ life[u] \in [Numbers -> Lives] /\ Fewer(life[u], life[u])
  BY DEF TypeOK, Fewer
<1>2. order' = order /\ beyond' = beyond
  BY DEF PolicyNext, Disable, Enable, Withdraw
<1>3. CASE UNCHANGED <<units, life>>
  BY <1>2, <1>3, StillSlackens DEF Stiller, Fewer
<1>4. ASSUME NEW in \in {"AdmissionDeclined", "AdmissionWithdrawn"}, ~Terminal(units[u].state),
             Record(u, Settled(u, Applied(u, units[u], in)), life[u], {})
      PROVE  Slackens
  <2> DEFINE a == Applied(u, units[u], in)
  <2>1. Record(u, a, life[u], {})
    BY <1>1, <1>4, DeclinesSettled
  <2>2. Stiller(units[u], a) /\ a \in Managed
    BY <1>1, StillerHelpers
  <2> HIDE DEF a
  <2>3. Slack(units[u], a, life[u], life[u])
    BY <1>1, <2>2, EasedSlack
  <2> QED BY <1>1, <1>2, <2>1, <2>2, <2>3, RecordSlackens
<1>5. ASSUME units[u].waiting, Record(u, DeclinedUnit(units[u]), life[u], {})
      PROVE  Slackens
  <2> DEFINE w == Without(units[u], Declined)
             s == [w EXCEPT !.timer = FALSE]
  <2>1. Declined \in Machines
    BY DEF Declined, Machines, States, TerminalStates
  <2>2. w \in Managed
    BY <1>1, <2>1, WithoutType
  <2>3. w.running = 0 /\ ~w.waiting
    BY <1>1, <2>2 DEF Without, Managed
  <2>4. Record(u, s, life[u], {})
    BY <1>5 DEF DeclinedUnit
  <2> HIDE DEF w
  <2>5. s \in Managed /\ s.running = 0 /\ ~s.waiting
    BY <2>2, <2>3 DEF Managed
  <2> HIDE DEF s
  <2>6. u \notin Image => Slack(units[u], s, life[u], life[u])
    BY <1>1, <1>5, <2>5 DEF KeptInv, Kept, Slack
  <2> QED BY <1>1, <1>2, <2>4, <2>5, <2>6, RecordSlackens
<1>6. CASE Withdraw(u)
  BY <1>3, <1>5, <1>4, <1>6 DEF Withdraw, Terminal, TerminalStates
<1> QED BY <1>3, <1>6 DEF PolicyNext, Disable, Enable

LEMMA OperatorSlackens ==
    ASSUME TypeOK, NEW o \in Operators, OperatorNext(o)
    PROVE  Slackens
<1>1. order' = order /\ (beyond' = beyond \/ StartUnit(o))
  BY DEF OperatorNext, Asks, StopUnit, PressUnit, UnitStopped, StartUnit
<1>2. CASE UNCHANGED <<units, life, beyond>>
  BY <1>1, <1>2, StillSlackens DEF Stiller, Fewer
<1>3. call[o] # Idle => call[o].unit \in Units
  BY DEF TypeOK, Calls
<1>4. CASE StopUnit(o)
  <2>1. call[o].unit \in Units /\ StopOne(call[o].unit)
    BY <1>3, <1>4 DEF StopUnit
  <2> QED BY <1>1, <1>4, <2>1, StopOneSlackens DEF StopUnit
<1>5. CASE PressUnit(o)
  <2>1. PICK u, n, lost : u \in Units /\ life' = [life EXCEPT ![u] = Killed(@, n, lost)] /\ units' = units
    BY <1>3, <1>5 DEF PressUnit
  <2>2. Fewer(life[u], Killed(life[u], n, lost))
    BY <2>1, FewerHelpers DEF TypeOK
  <2> QED BY <1>1, <1>5, <2>1, <2>2, LivesSlacken DEF PressUnit
<1>6. CASE StartUnit(o)
  <2>1. PICK u \in Units : \/ UNCHANGED units
                           \/ units' = [units EXCEPT ![u] = [units[u] EXCEPT !.timer = FALSE]]
    BY <1>3, <1>6 DEF StartUnit, TypeOK
  <2>2. Stiller(units[u], [units[u] EXCEPT !.timer = FALSE])
    <3>1. units[u] \in Managed
      BY DEF TypeOK
    <3> QED BY <3>1 DEF Managed, Stiller
  <2>3. life' = life /\ Grows
    <3>1. life' = life
      BY <1>6 DEF StartUnit
    <3>2. beyond' = beyond \/ GoesBeyond(call[o].unit)
      BY <1>6 DEF StartUnit
    <3>3. \/ beyond' = beyond
          \/ \E b : beyond' = [beyond EXCEPT ![call[o].unit] = @ \cup {b}]
      BY <3>2 DEF GoesBeyond
    <3>4. Grows
      BY <3>3 DEF Grows, TypeOK
    <3> QED BY <3>1, <3>4
  <2>4. ASSUME NEW x \in Units \ Image PROVE Stiller(units[x], units'[x])
    BY <2>1, <2>2 DEF TypeOK, Stiller
  <2> QED BY <1>1, <2>3, <2>4, EasedSlack DEF Slackens, Fewer
<1> QED BY <1>2, <1>4, <1>6, <1>5 DEF OperatorNext, Asks, UnitStopped

(* An attempt, on the host: it signals the life it begins or none, and     *)
(* begins none else.                                                       *)
LEMMA AttemptTries ==
    ASSUME TypeOK, NEW u \in Units, u \notin Image, Attempt(u)
    PROVE  \E r \in Managed, ls \in [Numbers -> Lives] :
             /\ Record(u, r, ls, due \ {u})
             /\ r.running \in {0, units[u].lives + 1}
             /\ r.waiting => r.running = 0
             /\ \A l \in Numbers : Alive(ls[l]) => Alive(life[u][l]) \/ l = r.running
<1> DEFINE Tries(r, ls) ==
             /\ r \in Managed /\ ls \in [Numbers -> Lives]
             /\ r.running \in {0, units[u].lives + 1}
             /\ r.waiting => r.running = 0
             /\ \A l \in Numbers : Alive(ls[l]) => Alive(life[u][l]) \/ l = r.running
<1>1. /\ units[u] \in Managed /\ life[u] \in [Numbers -> Lives]
      /\ Superseded(life[u]) \in [Numbers -> Lives] /\ Fewer(life[u], Superseded(life[u]))
  BY SupersededType, FewerHelpers DEF TypeOK
<1>2. ASSUME NEW r \in Managed, r.running = 0 PROVE Tries(r, life[u]) /\ Tries(r, Superseded(life[u]))
  BY <1>1, <1>2 DEF Fewer
<1> SUFFICES \E r, ls : Tries(r, ls) /\ Record(u, r, ls, due \ {u})
  OBVIOUS
<1> HIDE DEF Tries
<1> DEFINE f == Fresh(units[u])
<1>3. f \in Managed /\ f.running = 0 /\ f.lives = units[u].lives /\ ~f.waiting
  <2>1. f \in Managed
    BY <1>1, FreshType
  <2> QED BY <1>1, <2>1 DEF Fresh, Managed
<1> HIDE DEF f
<1>4. CASE Skip(u) \/ Decline(u)
  <2>1. Skipped \in Machines /\ Declined \in Machines
    BY DEF Skipped, Declined, Machines, States, TerminalStates
  <2>2. ASSUME NEW m \in Machines
        PROVE  Without(units[u], m) \in Managed /\ Without(units[u], m).running = 0
    <3>1. Without(units[u], m) \in Managed
      BY <1>1, <2>2, WithoutType
    <3> QED BY <1>1, <3>1 DEF Without, Managed
  <2>3. CASE Skip(u)
    BY <1>2, <2>1, <2>2, <2>3 DEF Skip
  <2>4. CASE Decline(u)
    <3> DEFINE w == Without(units[u], Declined)
               s == [w EXCEPT !.timer = FALSE]
    <3>1. Record(u, s, life[u], due \ {u})
      BY <2>4 DEF Decline, DeclinedUnit
    <3>2. w \in Managed /\ w.running = 0
      BY <2>1, <2>2
    <3> HIDE DEF w
    <3>3. s \in Managed /\ s.running = 0
      BY <3>2 DEF Managed
    <3> HIDE DEF s
    <3> QED BY <1>2, <3>1, <3>3
  <2> QED BY <1>4, <2>3, <2>4
<1>5. ASSUME NEW r \in Managed, r.running = 0
      PROVE  Tries(FailedLaunch(u, r), Superseded(life[u]))
  <2>1. Applied(u, r, "LaunchFailed") \in Managed /\ Applied(u, r, "LaunchFailed").running = 0
    <3>1. Stiller(r, Applied(u, r, "LaunchFailed")) /\ Applied(u, r, "LaunchFailed") \in Managed
      BY StillerHelpers
    <3> QED BY <1>5, <3>1 DEF Stiller
  <2>2. FailedLaunch(u, r) \in Managed /\ FailedLaunch(u, r).running = 0
    BY <2>1, SettledType, SettledKeeps DEF SameLife, FailedLaunch
  <2> QED BY <1>2, <2>2
<1>6. CASE AttemptFaults(u)
  <2>1. Record(u, FailedLaunch(u, f), Superseded(life[u]), due \ {u})
    BY <1>6 DEF AttemptFaults, f
  <2> QED BY <1>3, <1>5, <2>1
<1>7. units[u].lives < MaxLives => units[u].lives + 1 \in Numbers /\ units[u].lives + 1 \in LifeOrNone
  <2>1. units[u].lives \in LifeOrNone
    BY <1>1 DEF Managed
  <2> QED BY <2>1, BoundsAssumption DEF LifeOrNone, Numbers
<1>8. CASE StartFaults(u)
  <2> DEFINE g == [f EXCEPT !.lives = units[u].lives + 1]
  <2>1. Record(u, FailedLaunch(u, g), Superseded(life[u]), due \ {u})
    BY <1>3, <1>8 DEF StartFaults, f
  <2>2. g \in Managed /\ g.running = 0
    BY <1>3, <1>7, <1>8 DEF Managed, StartFaults
  <2> HIDE DEF g
  <2> QED BY <1>5, <2>1, <2>2
<1>9. CASE Spawn(u)
  <2> DEFINE n == units[u].lives + 1
             g == [f EXCEPT !.lives = n, !.incarnation = n, !.running = n]
             m == [NoLife EXCEPT !.proc = "up", !.launch = "over", !.watch = "watched"]
             ls == [Superseded(life[u]) EXCEPT ![n] = m]
             s == Applied(u, g, "ProcessStarted")
  <2>1. n \in Numbers /\ n \in LifeOrNone
    BY <1>7, <1>9 DEF Spawn
  <2>2. m \in Lives
    BY DEF NoLife, Lives
  <2>3. Record(u, s, ls, due \ {u})
    BY <1>9 DEF Spawn, f
  <2> HIDE DEF m
  <2>4. g \in Managed /\ g.running = n /\ ~g.waiting
    BY <1>3, <2>1 DEF Managed
  <2>5. ls \in [Numbers -> Lives] /\ \A l \in Numbers : l # n => ls[l] = Superseded(life[u])[l]
    BY <1>1, <2>1, <2>2
  <2> HIDE DEF g, ls
  <2>6. Stiller(g, s) /\ s \in Managed
    BY <2>4, StillerHelpers
  <2> HIDE DEF s
  <2>7. s.running = n /\ ~s.waiting
    BY <2>4, <2>6 DEF Stiller
  <2>8. Tries(s, ls)
    BY <1>1, <2>5, <2>6, <2>7 DEF Fewer, Tries
  <2> QED BY <2>3, <2>8
<1> QED BY <1>4, <1>6, <1>8, <1>9 DEF Attempt, Ask

(* What Stop does itself.                                                  *)
LEMMA StopSlackens ==
    ASSUME TypeOK, StopNext
    PROVE  Slackens
<1>1. order' = order /\ beyond' = beyond
  BY DEF StopNext, StopBegins, StopTakes, StopPresses, StopHasStopped
<1>2. CASE UNCHANGED <<units, life>>
  BY <1>1, <1>2, StillSlackens DEF Stiller, Fewer
<1>3. CASE StopBegins
  <2>1. ASSUME NEW x \in Units \ Image PROVE Stiller(units[x], units'[x]) /\ Fewer(life[x], life'[x])
    <3>1. /\ units[x] \in Managed /\ units'[x] = [units[x] EXCEPT !.timer = FALSE]
          /\ UNCHANGED life
      BY <1>3 DEF TypeOK, StopBegins
    <3> QED BY <3>1 DEF Stiller, Fewer, Managed
  <2> QED BY <1>1, <2>1, StillSlackens
<1>4. CASE StopTakes
  <2>1. NextToStop \in Units
    BY <1>4 DEF StopTakes, NextToStop, TypeOK
  <2> HIDE DEF NextToStop
  <2> QED BY <1>1, <1>2, <1>4, <2>1, StopOneSlackens DEF StopTakes
<1>5. CASE StopPresses
  <2>1. PICK u, lost : life' = [life EXCEPT ![u] = Killed(@, stop.life, lost)] /\ units' = units
    BY <1>5 DEF StopPresses
  <2>2. CASE u \in Units
    <3>1. Fewer(life[u], Killed(life[u], stop.life, lost))
      BY <2>2, FewerHelpers DEF TypeOK
    <3> QED BY <1>1, <2>1, <2>2, <3>1, LivesSlacken
  <2>3. CASE u \notin Units
    BY <1>2, <2>1, <2>3 DEF TypeOK
  <2> QED BY <2>2, <2>3
<1>6. CASE StopHasStopped
  BY <1>2, <1>6 DEF StopHasStopped
<1> QED BY <1>3, <1>5, <1>4, <1>6 DEF StopNext

(* Every step is an attempt, or one of these.                              *)
LEMMA NextSlackens ==
    ASSUME TypeOK, HostInv, KeptInv, [Next]_vars
    PROVE  Slackens \/ \E u \in Units : Attempt(u)
<1>1. CASE UNCHANGED vars
  BY <1>1, StillSlackens DEF vars, Stiller, Fewer
<1>2. CASE Next
  BY <1>2, LaunchSlackens, EndSlackens, TimerSlackens, InputSlackens, EngineSlackens,
     OperatorSlackens, PolicySlackens, StopSlackens
  DEF Next
<1> QED BY <1>1, <1>2

LEMMA SlackensKept ==
    ASSUME TypeOK, KeptInv, Slackens
    PROVE  KeptInv'
<1> SUFFICES ASSUME NEW x \in Units \ Image PROVE Kept(units'[x], life'[x], beyond'[x])
  BY DEF KeptInv
<1>1. /\ Kept(units[x], life[x], beyond[x]) /\ Slack(units[x], units'[x], life[x], life'[x])
      /\ beyond[x] \subseteq beyond'[x]
  BY DEF KeptInv, Slackens, Grows
<1>2. 0 \notin Numbers
  BY BoundsAssumption DEF Numbers
<1> QED BY <1>1, <1>2 DEF Kept, Slack, Fewer

(* Once Stop has begun nothing is due but what an operator started, and    *)
(* the life that begins is beyond it: no timer fires, no hold is released. *)
DueInv == stopping => \A u \in due \ Image : units[u].lives + 1 \in beyond[u]

(* A critical section that ends once Stop has begun releases nobody.       *)
LEMMA RecordDue ==
    ASSUME TypeOK, NEW u \in Units, NEW r, NEW ls, NEW rest, Record(u, r, ls, rest)
    PROVE  /\ stopping => due' = rest
           /\ \A x \in Units \ {u} : units'[x].lives = units[x].lives
<1>1. stopping => due' = rest
  BY DEF Record
<1>2. ASSUME NEW x \in Units \ {u} PROVE units'[x].lives = units[x].lives
  <2>1. units[x] \in Managed
    BY DEF TypeOK
  <2>2. \A a, h : [units[x] EXCEPT !.awaiting = a, !.held = h].lives = units[x].lives
    BY <2>1 DEF Managed
  <2> QED BY <2>1, <2>2 DEF Record
<1> QED BY <1>1, <1>2

(* Every step is an attempt, a start that an operator asked for, or one    *)
(* after which, where Stop has begun, nothing is due that was not before.  *)
SameDue == due' = due /\ \A x \in Units : units'[x].lives = units[x].lives

LEMMA NextDue ==
    ASSUME TypeOK, [Next]_vars
    PROVE  \/ \E u \in Units : Attempt(u)
           \/ \E o \in Operators : StartUnit(o)
           \/ stopping' => due' = {} \/ (stopping /\ SameDue)
<1>1. ASSUME UNCHANGED <<units, due, stopping>>
      PROVE  stopping' => due' = {} \/ (stopping /\ SameDue)
  BY <1>1 DEF SameDue
<1>2. ASSUME NEW u \in Units, NEW l \in Numbers, LaunchNext(u, l)
      PROVE  stopping' => due' = {} \/ (stopping /\ SameDue)
  BY <1>1, <1>2 DEF LaunchNext, LaunchFails, LaunchStarts, StartErrs, LaunchRecorded,
                    RecordFailure, stopVars
<1>3. ASSUME NEW u \in Units, NEW r, NEW ls, Record(u, r, ls, {}), stopping' = stopping
      PROVE  stopping' => due' = {}
  BY <1>3, RecordDue
<1>4. ASSUME NEW u \in Units, NEW l \in Numbers, EndNext(u, l)
      PROVE  stopping' => due' = {} \/ (stopping /\ SameDue)
  <2>1. CASE Conclude(u, l)
    <3>1. due = {} /\ stopping' = stopping
      BY <2>1 DEF Conclude, Unlocked, stopVars
    <3>2. (\E r, ls : Record(u, r, ls, {})) \/ due' = due
      BY <2>1, <3>1 DEF Conclude
    <3> QED BY <1>3, <3>1, <3>2
  <2> QED BY <1>1, <1>4, <2>1 DEF EndNext, Ends, HearEnd, DisposeKill, stopVars
<1>5. ASSUME NEW u \in Units, TimerNext(u)
      PROVE  stopping' => due' = {} \/ (stopping /\ SameDue)
  <2>1. CASE TimerIsLate(u)
    <3>1. units[u] \in Managed
      BY DEF TypeOK
    <3>2. [units[u] EXCEPT !.timer = FALSE, !.late = @ + 1].lives = units[u].lives
      BY <3>1 DEF Managed
    <3>3. units'[u].lives = units[u].lives /\ \A x \in Units \ {u} : units'[x] = units[x]
      BY <2>1, <3>2 DEF TimerIsLate, TypeOK
    <3>4. due' = due /\ stopping' = stopping
      BY <2>1 DEF TimerIsLate, stopVars
    <3> QED BY <3>3, <3>4 DEF SameDue
  <2> QED BY <1>5, <2>1 DEF TimerNext, WindowElapsed, NeverArrived, TimerFires, LateCallback,
                            Unlocked, stopVars
<1>6. ASSUME NEW u \in Units, PolicyNext(u)
      PROVE  stopping' => due' = {} \/ (stopping /\ SameDue)
  <2>1. CASE Withdraw(u)
    <3>1. due = {} /\ stopping' = stopping
      BY <2>1 DEF Withdraw, Unlocked, stopVars
    <3>2. (\E r, ls : Record(u, r, ls, {})) \/ due' = due
      BY <2>1 DEF Withdraw
    <3> QED BY <1>3, <3>1, <3>2
  <2> QED BY <1>1, <1>6, <2>1 DEF PolicyNext, Disable, Enable, stopVars
<1>7. ASSUME NEW u \in Units, NEW in \in PluginInputs, Input(u, in)
      PROVE  stopping' => due' = {}
  BY <1>3, <1>7 DEF Input, stopVars
<1>8. ASSUME NEW o \in Operators, OperatorNext(o), ~StartUnit(o)
      PROVE  stopping' => due' = {} \/ (stopping /\ SameDue)
  <2>1. call[o] # Idle => call[o].unit \in Units
    BY DEF TypeOK, Calls
  <2>2. CASE StopUnit(o)
    <3>1. stopping' = stopping /\ \E u \in Units : \E r, ls : Record(u, r, ls, {})
      BY <2>1, <2>2 DEF StopUnit, StopOne, stopVars
    <3> QED BY <1>3, <3>1
  <2> QED BY <1>1, <1>8, <2>2 DEF OperatorNext, Asks, PressUnit, UnitStopped, stopVars
<1>9. ASSUME StopNext PROVE stopping' => due' = {} \/ (stopping /\ SameDue)
  <2>1. CASE StopBegins
    BY <2>1 DEF StopBegins, Unlocked
  <2>2. CASE StopTakes
    <3>1. stop.left # <<>> /\ stopping' = stopping /\ due = {}
      BY <2>2 DEF StopTakes, Unlocked
    <3>2. NextToStop \in Units
      BY <3>1 DEF NextToStop, TypeOK
    <3>3. due' = due \/ \E r, ls : Record(NextToStop, r, ls, {})
      BY <2>2 DEF StopTakes, StopOne
    <3> HIDE DEF NextToStop
    <3> QED BY <1>3, <3>1, <3>2, <3>3
  <2> QED BY <1>1, <1>9, <2>1, <2>2 DEF StopNext, StopPresses, StopHasStopped
<1>10. CASE GoQuiet \/ Reconcile \/ UNCHANGED vars
  BY <1>1, <1>10 DEF GoQuiet, Reconcile, vars, stopVars
<1> QED BY <1>2, <1>4, <1>5, <1>6, <1>7, <1>8, <1>9, <1>10 DEF Next

(* What is due once Stop has begun stays beyond it, at every step.         *)
LEMMA NextDueKept ==
    ASSUME TypeOK, HostInv, KeptInv, DueInv, [Next]_vars
    PROVE  DueInv'
<1>1. ASSUME NEW u \in Units, Attempt(u) PROVE DueInv'
  <2>1. PICK r, ls : Taken(u) /\ Record(u, r, ls, due \ {u})
    BY <1>1, AttemptShape DEF Attempted
  <2>2. stopping' = stopping /\ Grows
    BY <2>1 DEF Taken, stopVars, Grows, TypeOK
  <2>3. /\ stopping => due' = due \ {u}
        /\ \A x \in Units \ {u} : units'[x].lives = units[x].lives
    BY <2>1, RecordDue
  <2> QED BY <2>2, <2>3 DEF DueInv, Grows, TypeOK
<1>2. ASSUME NEW o \in Operators, StartUnit(o) PROVE DueInv'
  <2> DEFINE u == call[o].unit
  <2>1. /\ call[o] # Idle /\ due = {} /\ stopping' = stopping
        /\ \/ due' = due
           \/ /\ units' = [units EXCEPT ![u] = [units[u] EXCEPT !.timer = FALSE]]
              /\ due' = {u} /\ GoesBeyond(u)
    BY <1>2 DEF StartUnit, Unlocked, stopVars, TypeOK
  <2>2. u \in Units
    BY <2>1 DEF TypeOK, Calls
  <2> HIDE DEF u
  <2>3. units[u] \in Managed /\ beyond[u] \subseteq Numbers
    BY <2>2 DEF TypeOK
  <2>4. [units[u] EXCEPT !.timer = FALSE].lives = units[u].lives
    BY <2>3 DEF Managed
  <2>5. CASE due' = due
    BY <2>1, <2>5 DEF DueInv
  <2>6. CASE due' # due
    <3>1. due' = {u} /\ units'[u].lives = units[u].lives
      BY <2>1, <2>2, <2>4, <2>6 DEF TypeOK
    <3>2. stopping => units[u].lives + 1 \in beyond'[u]
      BY <2>1, <2>2, <2>6 DEF GoesBeyond, TypeOK
    <3> QED BY <2>1, <3>1, <3>2 DEF DueInv
  <2> QED BY <2>5, <2>6
<1>3. ASSUME stopping' => due' = {} \/ (stopping /\ SameDue), Slackens PROVE DueInv'
  BY <1>3 DEF DueInv, SameDue, Slackens, Grows, TypeOK
<1> QED BY <1>1, <1>2, <1>3, NextDue, NextSlackens

(* An attempt, of one unit on the host seen by Stop.                       *)
Tried(x, u) ==
    /\ beyond[x] \subseteq beyond'[x]
    /\ x # u => Slack(units[x], units'[x], life[x], life'[x])
    /\ x = u =>
         /\ units[x].running # 0 => units[x].running \in beyond'[x]
         /\ units'[x].running # 0 /\ stopping => units'[x].running \in beyond'[x]
         /\ units'[x].waiting => units'[x].running = 0
         /\ \A l \in Numbers : Alive(life'[x][l]) => Alive(life[x][l]) \/ l = units'[x].running

LEMMA AttemptTried ==
    ASSUME TypeOK, DueInv, NEW u \in Units, Attempt(u), NEW x \in Units \ Image
    PROVE  Tried(x, u)
<1>1. Taken(u)
  BY DEF Attempt, Skip, Decline, AttemptFaults, StartFaults, Spawn, Ask
<1>2. /\ beyond[x] \in SUBSET Numbers
      /\ beyond'[x] = IF x = u THEN beyond[x] \cup ({units[u].running} \cap Numbers) ELSE beyond[x]
  BY <1>1 DEF Taken, TypeOK
<1>3. \A n \in LifeOrNone : n # 0 => n \in Numbers
  BY BoundsAssumption DEF LifeOrNone, Numbers
<1>4. CASE x = u
  <2>1. PICK r \in Managed, ls \in [Numbers -> Lives] :
             /\ Record(u, r, ls, due \ {u})
             /\ r.running \in {0, units[u].lives + 1}
             /\ r.waiting => r.running = 0
             /\ \A l \in Numbers : Alive(ls[l]) => Alive(life[u][l]) \/ l = r.running
    BY <1>4, AttemptTries
  <2>2. units'[u] = r /\ Fewer(ls, life'[u])
    BY <2>1, RecordOthers
  <2>3. r.running \in LifeOrNone /\ units[u].running \in LifeOrNone
    BY DEF TypeOK, Managed
  <2>4. /\ units[u].running # 0 => units[u].running \in beyond'[u]
        /\ r.running # 0 /\ stopping => r.running \in beyond'[u]
    <3>1. stopping => units[u].lives + 1 \in beyond[u]
      BY <1>1, <1>4 DEF DueInv, Taken
    <3> QED BY <1>2, <1>3, <1>4, <2>1, <2>3, <3>1
  <2>5. \A l \in Numbers : Alive(life'[u][l]) => Alive(life[u][l]) \/ l = r.running
    BY <2>1, <2>2 DEF Fewer
  <2> QED BY <1>2, <1>4, <2>1, <2>2, <2>4, <2>5 DEF Tried
<1>5. CASE x # u
  <2>1. \E r \in Managed, ls \in [Numbers -> Lives] : Record(u, r, ls, due \ {u})
    BY AttemptShape DEF Attempted
  <2>2. Stiller(units[x], units'[x]) /\ life'[x] = life[x]
    BY <1>5, <2>1, RecordOthers
  <2>3. Slack(units[x], units'[x], life[x], life'[x])
    BY <2>2, EasedSlack DEF Fewer
  <2> QED BY <1>2, <1>5, <2>3 DEF Tried
<1> QED BY <1>4, <1>5

LEMMA NextKept ==
    ASSUME TypeOK, HostInv, KeptInv, DueInv, [Next]_vars
    PROVE  KeptInv'
<1>1. ASSUME NEW u \in Units, Attempt(u) PROVE KeptInv'
  <2> SUFFICES ASSUME NEW x \in Units \ Image PROVE Kept(units'[x], life'[x], beyond'[x])
    BY DEF KeptInv
  <2>1. Kept(units[x], life[x], beyond[x]) /\ Tried(x, u)
    BY <1>1, AttemptTried DEF KeptInv
  <2>2. 0 \notin Numbers
    BY BoundsAssumption DEF Numbers
  <2> QED BY <2>1, <2>2 DEF Kept, Tried, Slack, Fewer
<1> QED BY <1>1, NextSlackens, SlackensKept

LEMMA InitKept == Init => KeptInv
<1> SUFFICES ASSUME Init, NEW u \in Units \ Image PROVE Kept(units[u], life[u], beyond[u])
  BY DEF KeptInv
<1>1. units[u] = NewUnit(u) /\ \A l \in Numbers : life[u][l] = NoLife
  BY DEF Init
<1>2. ~NewUnit(u).waiting
  BY DEF NewUnit
<1> QED BY <1>1, <1>2 DEF Kept, NoLife, Alive

--------------------------------------------------------------------------------
(* What Stop finds and leaves: it goes through the order from its end, and *)
(* what it went through has no process it answers for, nor will have.      *)
Distinct == \A i, j \in DOMAIN order : order[i] = order[j] => i = j

StopPlace ==
    /\ ~stopping => stop = NoStop
    /\ stop.life # 0 => stop.left # <<>>
    /\ Len(stop.left) <= Len(order)
    /\ \A i \in DOMAIN stop.left : stop.left[i] = order[i]

Awaited ==
    stop.life # 0 /\ NextToStop \notin Image =>
        units[NextToStop].running \in {0, stop.life} \cup beyond[NextToStop]

StopInv == Distinct /\ StopPlace /\ Awaited /\ StopLeavesNothing

(* What Stop sees of a unit on the host in the step of another.            *)
Winds(x) ==
    /\ beyond[x] \subseteq beyond'[x]
    /\ units'[x].running \in {0, units[x].running} \cup beyond'[x]
    /\ \A l \in Numbers : Alive(life'[x][l]) => Alive(life[x][l]) \/ l \in beyond'[x]

LEMMA SlackWinds ==
    ASSUME Slackens, NEW x \in Units \ Image
    PROVE  Winds(x)
BY DEF Slackens, Grows, Slack, Fewer, Winds

LEMMA TriedWinds ==
    ASSUME stopping, NEW u, NEW x, Tried(x, u)
    PROVE  Winds(x)
<1>1. 0 \notin Numbers
  BY BoundsAssumption DEF Numbers
<1> QED BY <1>1 DEF Tried, Slack, Fewer, Winds

LEMMA StopKept ==
    ASSUME TypeOK, TypeOK', StopInv, UNCHANGED stopVars, Distinct',
           Len(order) <= Len(order') /\ \A i \in DOMAIN order : order'[i] = order[i],
           stopping => \A x \in Units \ Image : Winds(x)
    PROVE  StopInv'
<1>1. stop' = stop /\ stopping' = stopping /\ order \in Seq(Units) /\ order' \in Seq(Units)
  BY DEF stopVars, TypeOK
<1>2. CASE ~stopping
  <2>1. stop.left = <<>> /\ stop.life = 0 /\ stop = NoStop
    BY <1>2 DEF StopInv, StopPlace, NoStop
  <2> QED BY <1>1, <1>2, <2>1 DEF StopInv, StopPlace, Awaited, StopLeavesNothing
<1>3. CASE stopping
  <2>1. StopPlace /\ Awaited /\ StopLeavesNothing /\ \A x \in Units \ Image : Winds(x)
    BY <1>3 DEF StopInv
  <2>2. StopPlace'
    <3>1. stop.left \in Seq(Units)
      BY DEF TypeOK
    <3>2. DOMAIN stop.left \subseteq DOMAIN order /\ Len(stop.left) <= Len(order')
      BY <1>1, <2>1, <3>1 DEF StopPlace
    <3> QED BY <1>1, <1>3, <2>1, <3>2 DEF StopPlace
  <2>3. stop.life # 0 => NextToStop \in Units
    BY <2>1 DEF StopPlace, NextToStop, TypeOK
  <2>4. NextToStop' = NextToStop
    BY <1>1 DEF NextToStop
  <2>5. Awaited'
    <3> HIDE DEF NextToStop
    <3> QED BY <1>1, <2>1, <2>3, <2>4 DEF Awaited, Winds
  <2>6. StopLeavesNothing'
    BY <1>1, <2>1 DEF StopLeavesNothing, Winds, Answers
  <2> QED BY <2>2, <2>5, <2>6 DEF StopInv
<1> QED BY <1>2, <1>3

(* A unit takes its place in the order once, and after the others.         *)
LEMMA TakenOnce ==
    ASSUME TypeOK, Distinct, NEW u \in Units, Taken(u)
    PROVE  /\ Distinct'
           /\ Len(order) <= Len(order') /\ \A i \in DOMAIN order : order'[i] = order[i]
<1>1. order \in Seq(Units)
  BY DEF TypeOK
<1>2. CASE order' = order
  BY <1>1, <1>2 DEF Distinct
<1>3. CASE order' = Append(order, u) /\ ~\E i \in DOMAIN order : order[i] = u
  <2>1. /\ DOMAIN order' = 1..(Len(order) + 1) /\ DOMAIN order = 1..Len(order) /\ Len(order) \in Nat
        /\ Len(order') = Len(order) + 1
        /\ \A i \in 1..Len(order) : order'[i] = order[i]
        /\ order'[Len(order) + 1] = u
    BY <1>1, <1>3
  <2>2. ASSUME NEW i \in DOMAIN order', NEW j \in DOMAIN order', order'[i] = order'[j] PROVE i = j
    <3>1. CASE i \in DOMAIN order /\ j \in DOMAIN order
      BY <2>1, <2>2, <3>1 DEF Distinct
    <3>2. CASE i \notin DOMAIN order \/ j \notin DOMAIN order
      BY <1>3, <2>1, <2>2, <3>2
    <3> QED BY <3>1, <3>2
  <2> QED BY <2>1, <2>2 DEF Distinct
<1> QED BY <1>2, <1>3 DEF Taken

(* Stop goes on to the unit before, once it leaves nothing of this one.    *)
LEMMA GoesOn ==
    ASSUME TypeOK, TypeOK', StopInv, stopping, stop.left # <<>>, StopGoesOn, Slackens,
           stopping' = stopping,
           NextToStop \notin Image =>
             \A l \in Numbers : Alive(life'[NextToStop][l]) => l \in beyond'[NextToStop]
    PROVE  StopInv'
<1> DEFINE left == stop.left
           rest == SubSeq(stop.left, 1, Len(stop.left) - 1)
<1>1. left \in Seq(Units) /\ Len(left) \in Nat /\ Len(left) # 0 /\ order \in Seq(Units) /\ order' = order
  BY DEF TypeOK, Slackens
<1>2. stop'.left = rest /\ stop'.life = 0
  BY DEF StopGoesOn, NoStop
<1>3. Len(rest) = Len(left) - 1 /\ DOMAIN rest = 1..(Len(left) - 1)
      /\ \A i \in 1..(Len(left) - 1) : rest[i] = left[i]
  BY <1>1
<1>4. DOMAIN left = 1..Len(left) /\ NextToStop = left[Len(left)]
  BY <1>1 DEF NextToStop
<1> HIDE DEF left, rest
<1>5. StopPlace'
  <2>1. Len(left) <= Len(order) /\ \A i \in DOMAIN left : left[i] = order[i]
    BY DEF StopInv, StopPlace, left
  <2>2. Len(rest) <= Len(order)
    BY <1>1, <1>3, <2>1
  <2>3. \A i \in DOMAIN rest : rest[i] = order[i]
    BY <1>1, <1>3, <1>4, <2>1
  <2> QED BY <1>1, <1>2, <2>2, <2>3 DEF StopPlace
<1>6. StopLeavesNothing'
  <2> SUFFICES ASSUME NEW u \in Units \ Image, \A i \in DOMAIN rest : rest[i] # u,
                      NEW l \in Numbers, Alive(life'[u][l])
               PROVE  l \in beyond'[u]
    BY <1>2 DEF StopLeavesNothing, Answers
  <2>1. CASE u = NextToStop
    BY <2>1
  <2>2. CASE u # NextToStop
    <3>1. \A i \in DOMAIN left : left[i] # u
      BY <1>1, <1>3, <1>4, <2>2
    <3>2. Alive(life[u][l]) => l \in beyond[u]
      BY <3>1 DEF StopInv, StopLeavesNothing, Answers, left
    <3> QED BY <3>2, SlackWinds DEF Winds
  <2> QED BY <2>1, <2>2
<1>7. Distinct' /\ Awaited'
  BY <1>1, <1>2 DEF StopInv, Distinct, Awaited
<1> QED BY <1>5, <1>6, <1>7 DEF StopInv

LEMMA StopWinds ==
    ASSUME TypeOK, TypeOK', HostInv, LaunchInv, KeptInv, StopInv, StopNext
    PROVE  StopInv'
<1>1. Slackens /\ order' = order /\ beyond' = beyond /\ order \in Seq(Units)
  BY StopSlackens DEF TypeOK, StopNext, StopBegins, StopTakes, StopPresses, StopHasStopped
<1>2. stop.left # <<>> => NextToStop \in Units
  BY DEF NextToStop, TypeOK
<1>3. stop.life # 0 => stopping /\ stop.left # <<>>
  BY DEF StopInv, StopPlace, NoStop
<1>4. 0 \notin Numbers
  BY BoundsAssumption DEF Numbers
<1>5. CASE StopBegins
  <2>1. /\ stop'.left = order /\ stop'.life = stop.life /\ stop.life = 0 /\ stopping'
        /\ life' = life
    BY <1>5 DEF StopBegins, StopInv, StopPlace, NoStop
  <2>2. StopPlace' /\ Awaited' /\ Distinct'
    BY <1>1, <2>1 DEF StopPlace, Awaited, Distinct, StopInv
  <2>3. StopLeavesNothing'
    <3> SUFFICES ASSUME NEW u \in Units, \A i \in DOMAIN order : order[i] # u, NEW l \in Numbers
                 PROVE  ~Alive(life[u][l])
      BY <2>1 DEF StopLeavesNothing
    <3>1. ~Begun(life[u][l])
      BY DEF LaunchInv, Launched
    <3> QED BY <3>1 DEF Begun, Alive
  <2> QED BY <2>2, <2>3 DEF StopInv
<1>6. CASE StopTakes
  <2> DEFINE u == NextToStop
  <2>1. stop.left # <<>> /\ stop.life = 0 /\ stopping' = stopping /\ u \in Units
    BY <1>2, <1>6 DEF StopTakes
  <2>2. stopping
    BY <2>1 DEF StopInv, StopPlace, NoStop
  <2> HIDE DEF u
  <2>3. CASE Unreachable(u)
    <3>1. StopGoesOn /\ u \in Image
      BY <1>6, <2>3 DEF StopTakes, Unreachable, u
    <3> QED BY <1>1, <2>1, <2>2, <3>1, GoesOn DEF u
  <2>4. CASE ~Unreachable(u)
    <3>1. units'[u].running = units[u].running
      BY <1>1, <1>6, <2>1, <2>4, StopOneSlackens DEF StopTakes, u
    <3>2. CASE units[u].running = 0
      <4>1. StopGoesOn
        BY <1>6, <2>4, <3>2 DEF StopTakes, u
      <4>2. u \notin Image => \A l \in Numbers : Alive(life[u][l]) => l \in beyond[u]
        BY <1>4, <2>1, <3>2 DEF KeptInv, Kept
      <4>3. u \notin Image => \A l \in Numbers : Alive(life'[u][l]) => l \in beyond'[u]
        BY <1>1, <2>1, <4>2, SlackWinds DEF Winds
      <4> QED BY <1>1, <2>1, <2>2, <4>1, <4>3, GoesOn DEF u
    <3>3. CASE units[u].running # 0
      <4>1. stop' = [stop EXCEPT !.life = units[u].running]
        BY <1>6, <2>4, <3>3 DEF StopTakes, u
      <4>2. stop'.left = stop.left /\ stop'.life = units[u].running /\ NextToStop' = u
        <5>1. stop'.left = stop.left /\ stop'.life = units[u].running
          BY <4>1 DEF TypeOK
        <5> QED BY <5>1 DEF NextToStop, u
      <4>3. StopPlace'
        BY <1>1, <2>1, <2>2, <4>2 DEF StopInv, StopPlace
      <4>4. Awaited'
        BY <3>1, <4>2 DEF Awaited
      <4>5. StopLeavesNothing'
        BY <1>1, <2>2, <4>2, SlackWinds DEF StopInv, StopLeavesNothing, Answers, Winds
      <4> QED BY <1>1, <4>3, <4>4, <4>5 DEF StopInv, Distinct
    <3> QED BY <3>2, <3>3
  <2> QED BY <2>3, <2>4
<1>7. CASE StopPresses
  <2>1. /\ stopping' = stopping /\ units' = units /\ stop.life # 0
        /\ stop' = [stop EXCEPT !.pressed = TRUE]
    BY <1>7 DEF StopPresses
  <2>2. stop'.left = stop.left /\ stop'.life = stop.life
    BY <2>1 DEF TypeOK
  <2>3. StopPlace'
    BY <1>1, <1>3, <2>1, <2>2 DEF StopInv, StopPlace
  <2>4. StopLeavesNothing'
    BY <1>1, <2>1, <2>2, SlackWinds DEF StopInv, StopLeavesNothing, Answers, Winds
  <2>5. Awaited'
    <3>1. NextToStop' = NextToStop
      BY <2>2 DEF NextToStop
    <3> HIDE DEF NextToStop
    <3> QED BY <1>1, <2>1, <2>2, <3>1 DEF StopInv, Awaited
  <2> QED BY <1>1, <2>3, <2>4, <2>5 DEF StopInv, Distinct
<1>8. CASE StopHasStopped
  <2> DEFINE u == NextToStop
  <2>1. /\ stop.life # 0 /\ life[u][stop.life].watch = "concluded" /\ StopGoesOn
        /\ UNCHANGED <<units, life, stopping>>
    BY <1>8 DEF StopHasStopped
  <2>2. stop.left # <<>> /\ u \in Units /\ stopping
    BY <1>2, <1>3, <2>1
  <2>3. u \notin Image => units[u].running \in {0, stop.life} \cup beyond[u]
    BY <2>1 DEF StopInv, Awaited
  <2> HIDE DEF u
  <2>4. u \notin Image => \A l \in Numbers : Alive(life[u][l]) => l \in beyond[u]
    <3> SUFFICES ASSUME u \notin Image PROVE \A l \in Numbers : Alive(life[u][l]) => l \in beyond[u]
      OBVIOUS
    <3>1. HostUnit(units[u], life[u]) /\ Kept(units[u], life[u], beyond[u])
      BY <2>2 DEF HostInv, KeptInv
    <3>2. units[u].running \in {0} \cup beyond[u]
      BY <2>1, <2>3, <3>1 DEF HostUnit
    <3> QED BY <1>4, <3>1, <3>2 DEF Kept
  <2> QED BY <1>1, <2>1, <2>2, <2>4, GoesOn DEF u
<1> QED BY <1>5, <1>7, <1>6, <1>8 DEF StopNext

LEMMA NextStop ==
    ASSUME TypeOK, TypeOK', HostInv, LaunchInv, KeptInv, DueInv, StopInv, [Next]_vars
    PROVE  StopInv'
<1>1. CASE StopNext
  BY <1>1, StopWinds
<1>2. ASSUME NEW u \in Units, Attempt(u) PROVE StopInv'
  <2>1. Taken(u) /\ UNCHANGED stopVars
    BY <1>2 DEF Attempt, Skip, Decline, AttemptFaults, StartFaults, Spawn, Ask, Taken
  <2>2. /\ Distinct'
        /\ Len(order) <= Len(order') /\ \A i \in DOMAIN order : order'[i] = order[i]
    BY <2>1, TakenOnce DEF StopInv
  <2>3. stopping => \A x \in Units \ Image : Winds(x)
    BY <1>2, AttemptTried, TriedWinds
  <2> QED BY <2>1, <2>2, <2>3, StopKept
<1>3. ASSUME UNCHANGED stopVars, Slackens PROVE StopInv'
  <2>1. order' = order /\ order \in Seq(Units)
    BY <1>3 DEF Slackens, TypeOK
  <2>2. /\ Distinct'
        /\ Len(order) <= Len(order') /\ \A i \in DOMAIN order : order'[i] = order[i]
    BY <2>1 DEF StopInv, Distinct
  <2>3. \A x \in Units \ Image : Winds(x)
    BY <1>3, SlackWinds
  <2> QED BY <1>3, <2>2, <2>3, StopKept
<1>4. StopNext \/ (\E u \in Units : Attempt(u)) \/ UNCHANGED stopVars
  <2>1. ASSUME NEW u \in Units, TimerNext(u) \/ PolicyNext(u) PROVE UNCHANGED stopVars
    BY <2>1 DEF TimerNext, WindowElapsed, NeverArrived, TimerFires, TimerIsLate, LateCallback,
                PolicyNext, Disable, Enable, Withdraw
  <2>2. ASSUME NEW u \in Units, NEW l \in Numbers, LaunchNext(u, l) \/ EndNext(u, l)
        PROVE  UNCHANGED stopVars
    BY <2>2 DEF LaunchNext, LaunchFails, LaunchStarts, StartErrs, LaunchRecorded,
                EndNext, Ends, HearEnd, Conclude, DisposeKill
  <2>3. ASSUME NEW o \in Operators, OperatorNext(o) PROVE UNCHANGED stopVars
    BY <2>3 DEF OperatorNext, Asks, StopUnit, PressUnit, UnitStopped, StartUnit
  <2>4. ASSUME NEW u \in Units, NEW in \in PluginInputs, Input(u, in) PROVE UNCHANGED stopVars
    BY <2>4 DEF Input
  <2>5. CASE GoQuiet \/ Reconcile
    BY <2>5 DEF GoQuiet, Reconcile
  <2>6. CASE UNCHANGED vars
    BY <2>6 DEF vars, stopVars
  <2> QED BY <2>1, <2>3, <2>2, <2>4, <2>6, <2>5 DEF Next
<1> QED BY <1>1, <1>3, <1>2, <1>4, NextSlackens

LEMMA InitStop == Init => StopInv
<1> SUFFICES ASSUME Init PROVE StopInv
  OBVIOUS
<1>1. order = <<>> /\ ~stopping /\ stop = NoStop
  BY DEF Init
<1>2. StopPlace /\ Awaited /\ Distinct
  BY <1>1 DEF StopPlace, Awaited, Distinct, NoStop
<1> QED BY <1>1, <1>2 DEF StopInv, StopLeavesNothing

(* What depends on a unit comes after it in the order, and is stopped      *)
(* before it: whoever is asked, nothing that needs it has a process that   *)
(* Stop answers for.                                                       *)
LEMMA DependantsFirst ==
    ASSUME TypeOK, LaunchInv, StopInv
    PROVE  StopsDependantsFirst
<1> SUFFICES ASSUME NEW e \in Units, StopAsked(e), NEW u \in Units \ Image,
                    e \in DependsOn[u], ~units[u].notStarted, NEW l \in Numbers, Alive(life[u][l])
             PROVE  ~Answers(u, l)
  BY DEF StopsDependantsFirst
<1>1. stopping /\ \A i \in DOMAIN stop.left : stop.left[i] = e => i = Len(stop.left)
  BY DEF StopAsked
<1>2. /\ stop.left \in Seq(Units) /\ order \in Seq(Units) /\ Len(stop.left) <= Len(order)
      /\ \A i \in DOMAIN stop.left : stop.left[i] = order[i]
  BY DEF TypeOK, StopInv, StopPlace
<1>3. \A i \in DOMAIN stop.left : stop.left[i] # u
  <2> SUFFICES ASSUME NEW i \in DOMAIN stop.left, stop.left[i] = u PROVE FALSE
    OBVIOUS
  <2>1. i \in DOMAIN order /\ order[i] = u
    BY <1>2
  <2>2. PICK j \in 1..(i - 1) : order[j] = e
    BY <2>1 DEF LaunchInv, DependenciesLaunchedFirst
  <2>3. j \in DOMAIN stop.left /\ stop.left[j] = e /\ j # Len(stop.left)
    BY <1>2, <2>2
  <2> QED BY <1>1, <2>3
<1> QED BY <1>1, <1>3 DEF StopInv, StopLeavesNothing

(* Start launches in the order of the dependencies and Stop ends them in   *)
(* the reverse of it, whatever the engine answers, however late a timer is *)
(* and whatever operators stop, start and restart meanwhile: what is left  *)
(* on the host is a process an operator's start began once Stop had, which *)
(* StartUnit does not look at, or one an attempt had let go of, which is   *)
(* being ended (NoneIsLost).                                               *)
THEOREM StopsInReverse == Spec => []OrderKept
<1>1. Init => TypeOK /\ HostInv /\ LaunchInv /\ KeptInv /\ DueInv /\ StopInv
  BY InitType, InitHost, InitLaunch, InitKept, InitStop DEF Init, DueInv
<1>2. TypeOK /\ HostInv /\ LaunchInv /\ KeptInv /\ DueInv /\ StopInv /\ [Next]_vars
        => (TypeOK /\ HostInv /\ LaunchInv /\ KeptInv /\ DueInv /\ StopInv)'
  BY NextType, NextHost, NextLaunch, NextKept, NextDueKept, NextStop
<1>3. TypeOK /\ LaunchInv /\ StopInv => StopsDependantsFirst /\ StopLeavesNothing
  BY DependantsFirst DEF StopInv
<1> QED BY <1>1, <1>2, <1>3, LaunchesInOrder, PTL DEF Spec, OrderKept

--------------------------------------------------------------------------------
(* What the supervisor promises of the states is what it does: LifecycleKept. *)
(* The mapping reads the states and the holds out of the records, and what *)
(* operators ask to start out of their calls.                              *)
StateOf == [u \in Units |-> units[u].state]
HeldUnits == {u \in Units : units[u].held}
AwaitingOf == [u \in Units |-> units[u].awaiting]
Starting(u) == \E o \in Operators : call[o] # Idle /\ call[o].at = "start" /\ call[o].unit = u
ToStart == {u \in Units : Starting(u)}

(* The machine the promise weighs by is the one the supervisor applies.    *)
LEMMA PromisedMachine ==
    ASSUME NEW kind, NEW state, NEW onFailure, NEW m, NEW in
    PROVE  /\ Promise!Ready(kind, state) <=> Ready(kind, state)
           /\ Promise!Terminal(state) <=> Terminal(state)
           /\ Promise!Restarts(kind, state, onFailure) <=> Restarts(kind, state, onFailure)
           /\ Promise!Weighed(kind, m, in) = Weighed(kind, m, in)
           /\ Promise!Inputs = Inputs
<1>1. Promise!Exited(kind, m, TRUE) = Exited(kind, m, TRUE)
      /\ Promise!Exited(kind, m, FALSE) = Exited(kind, m, FALSE)
  BY DEF Promise!Exited, Exited
<1>2. Promise!Weighed(kind, m, in) = Weighed(kind, m, in)
  BY <1>1 DEF Promise!Weighed, Weighed
<1> QED BY <1>2 DEF Promise!Ready, Ready, Promise!Terminal, Terminal, Promise!TerminalStates,
               TerminalStates, Promise!Restarts, Restarts, Promise!Inputs, Inputs

LEMMA PromisedStart ==
    ASSUME Init
    PROVE  Promise!Init
<1>1. /\ \A u \in Units : units[u] = NewUnit(u)
      /\ due = {u \in Units : DependsOn[u] = {}}
      /\ \A o \in Operators : call[o] = Idle
  BY DEF Init
<1>2. \A u \in Units : /\ NewUnit(u).state = "Starting"
                       /\ NewUnit(u).awaiting = DependsOn[u]
                       /\ NewUnit(u).held <=> DependsOn[u] # {}
  <2> SUFFICES ASSUME NEW u \in Units
               PROVE  /\ NewUnit(u).state = "Starting"
                      /\ NewUnit(u).awaiting = DependsOn[u]
                      /\ NewUnit(u).held <=> DependsOn[u] # {}
    OBVIOUS
  <2>1. NewUnit(u).state = "Starting" /\ NewUnit(u).awaiting = DependsOn[u]
    BY DEF NewUnit
  <2>2. NewUnit(u).held = (DependsOn[u] # {})
    BY DEF NewUnit
  <2> QED BY <2>1, <2>2
<1>3. [u \in Units |-> units[u].state] = [u \in Units |-> "Starting"]
  BY <1>1, <1>2
<1>4. [u \in Units |-> units[u].awaiting] = DependsOn
  BY <1>1, <1>2, UnitsAssumption
<1>5. {u \in Units : units[u].held} = {u \in Units : DependsOn[u] # {}}
  BY <1>1, <1>2
<1>6. due = Units \ {u \in Units : units[u].held}
  BY <1>1, <1>5
<1>7. {u \in Units : \E o \in Operators :
          call[o] # Idle /\ call[o].at = "start" /\ call[o].unit = u} = {}
  BY <1>1
<1> QED BY <1>3, <1>5, <1>4, <1>6, <1>7 DEF Promise!Init

(* What a critical section does to the units that wait is what is promised. *)
LEMMA PromisedReleases ==
    ASSUME TypeOK, LaunchInv, NEW u \in Units, NEW r \in Managed, NEW ls \in [Numbers -> Lives],
           NEW rest \in SUBSET due, Record(u, r, ls, rest), SameHold(units[u], r),
           r.state # units[u].state /\ Ready(Kind[u], r.state) => ~units[u].held
    PROVE  /\ Promise!Releases(u, rest)
           /\ StateOf' = [StateOf EXCEPT ![u] = r.state]
           /\ r.state = units[u].state \/ ~Ready(Kind[u], r.state)
                => HeldUnits' = HeldUnits /\ AwaitingOf' = AwaitingOf /\ due' = rest
<1> DEFINE readied == r.state # units[u].state /\ Ready(Kind[u], r.state)
           freed == IF readied /\ ~stopping THEN Freed(u) ELSE {}
<1>1. /\ units'[u] = r
      /\ due' = rest \cup freed
      /\ \A x \in Units : x # u =>
           units'[x] = IF readied /\ units[x].held
                       THEN [units[x] EXCEPT !.awaiting = @ \ {u}, !.held = x \notin freed]
                       ELSE units[x]
  BY DEF Record, TypeOK
<1>2. /\ freed \subseteq Units
      /\ freed # {} => readied
      /\ \A x \in freed : x # u /\ units[x].held /\ units[x].awaiting \subseteq {u}
      /\ readied /\ ~stopping => \A x \in Units : x # u /\ units[x].held /\ units[x].awaiting \subseteq {u}
                                                    => x \in freed
      /\ stopping => freed = {}
  BY DEF Freed
<1>3. \A x \in Units : ~units[x].held => units[x].awaiting = {}
  BY DEF LaunchInv, Awaits
<1>4. readied => ~units[u].held
  OBVIOUS
<1>5. readied <=> r.state # units[u].state /\ Ready(Kind[u], r.state)
  OBVIOUS
<1> HIDE DEF readied, freed
<1>6. ASSUME NEW x \in Units
      PROVE  /\ units'[x].state = IF x = u THEN r.state ELSE units[x].state
             /\ units'[x].awaiting = IF readied THEN units[x].awaiting \ {u} ELSE units[x].awaiting
             /\ units'[x].held <=> units[x].held /\ x \notin freed
  <2>1. units[x] \in Managed
    BY DEF TypeOK
  <2>2. CASE x = u
    BY <1>1, <1>3, <1>2, <1>4, <2>2 DEF SameHold
  <2>3. CASE x # u /\ readied /\ units[x].held
    <3> DEFINE h == x \notin freed
    <3>1. units'[x] = [units[x] EXCEPT !.awaiting = @ \ {u}, !.held = h]
      BY <1>1, <2>3
    <3>2. /\ units'[x].state = units[x].state /\ units'[x].awaiting = units[x].awaiting \ {u}
          /\ units'[x].held = h
      BY <2>1, <3>1 DEF Managed
    <3> QED BY <2>3, <3>2
  <2>4. CASE x # u /\ ~(readied /\ units[x].held)
    BY <1>1, <1>2, <1>3, <2>4
  <2> QED BY <2>2, <2>3, <2>4
<1>7. StateOf' = [StateOf EXCEPT ![u] = r.state]
  BY <1>6 DEF StateOf
<1>8. AwaitingOf' = IF readied THEN [h \in Units |-> AwaitingOf[h] \ {u}] ELSE AwaitingOf
  BY <1>6 DEF AwaitingOf
<1>9. HeldUnits' = HeldUnits \ freed
  BY <1>6 DEF HeldUnits
<1>10. ~readied => freed = {}
  BY <1>2
<1>11. \E released \in {{}, {h \in HeldUnits \ {u} : AwaitingOf'[h] = {}}} :
          /\ released # {} => readied
          /\ HeldUnits' = HeldUnits \ released
          /\ due' = rest \cup released
  <2>1. CASE ~readied \/ stopping
    <3>1. freed = {}
      BY <1>10, <1>2, <2>1
    <3> QED BY <1>1, <1>9, <3>1
  <2>2. CASE readied /\ ~stopping
    <3>1. freed = {h \in HeldUnits \ {u} : AwaitingOf'[h] = {}}
      <4>1. \A h \in Units : AwaitingOf'[h] = units[h].awaiting \ {u}
        BY <1>6, <2>2 DEF AwaitingOf
      <4> QED BY <1>2, <2>2, <4>1 DEF HeldUnits
    <3> QED BY <1>1, <1>9, <2>2, <3>1
  <2> QED BY <2>1, <2>2
<1>12. Promise!Releases(u, rest)
  <2>1. readied <=> StateOf'[u] # StateOf[u] /\ Promise!Ready(Kind[u], StateOf'[u])
    BY <1>5, <1>6, PromisedMachine DEF StateOf
  <2> QED BY <1>8, <1>11, <2>1 DEF Promise!Releases, StateOf, HeldUnits, AwaitingOf
<1> QED BY <1>1, <1>5, <1>7, <1>9, <1>8, <1>10, <1>12

(* A step that leaves every state and every hold leaves what they map to.  *)
LEMMA RestsMapped ==
    ASSUME \A x \in Units : units'[x].state = units[x].state /\ SameHold(units[x], units'[x])
    PROVE  StateOf' = StateOf /\ HeldUnits' = HeldUnits /\ AwaitingOf' = AwaitingOf
BY DEF StateOf, HeldUnits, AwaitingOf, SameHold

LEMMA Stutters ==
    ASSUME StateOf' = StateOf, HeldUnits' = HeldUnits, AwaitingOf' = AwaitingOf, due' = due,
           ToStart' = ToStart
    PROVE  UNCHANGED Promise!promised
BY DEF Promise!promised, StateOf, HeldUnits, AwaitingOf, ToStart, Starting

LEMMA PromisedAttempt ==
    ASSUME TypeOK, LaunchInv, NEW u \in Units, NEW r, NEW ls, Attempted(u, r, ls), ToStart' = ToStart
    PROVE  Promise!Begin(u)
<1>1. /\ r \in Managed /\ ls \in [Numbers -> Lives] /\ Taken(u) /\ u \in due
      /\ Record(u, r, ls, due \ {u}) /\ due \ {u} \in SUBSET due /\ SameHold(units[u], r)
  BY DEF Attempted, Taken
<1>2. ~units[u].held
  BY <1>1, OrderGrows
<1>3. PICK rest : rest = due \ {u}
  OBVIOUS
<1>4. Promise!Releases(u, rest) /\ StateOf' = [StateOf EXCEPT ![u] = r.state]
  <2>1. rest \in SUBSET due /\ Record(u, r, ls, rest)
    BY <1>1, <1>3
  <2> QED BY <1>1, <1>2, <2>1, PromisedReleases
<1>5. Promise!Releases(u, due \ {u})
  BY <1>3, <1>4 DEF Promise!Releases
<1>6. r.state \in Promise!Attempted(u)
  BY DEF Attempted, Promise!Attempted
<1> QED BY <1>1, <1>4, <1>5, <1>6 DEF Promise!Begin, StateOf, ToStart, Starting

LEMMA PromisedWeighing ==
    ASSUME TypeOK, LaunchInv, withdrawing \subseteq Plugins, NEW u \in Units, StateWeighed(u),
           ToStart' = ToStart
    PROVE  [Promise!Next]_(Promise!promised)
<1>1. PICK r, ls : Weighs(u, r, ls)
  BY DEF StateWeighed
<1>2. /\ r \in Managed /\ ls \in [Numbers -> Lives] /\ Record(u, r, ls, {}) /\ due = {}
      /\ {} \in SUBSET due /\ SameHold(units[u], r) /\ units[u] \in Managed
  BY <1>1 DEF Weighs, TypeOK
<1>3. r.state # units[u].state /\ Ready(Kind[u], r.state) => ~units[u].held
  <2>1. r.state = units[u].state \/ r.state = "Refused" \/ \E l \in Numbers : Begun(life[u][l])
    BY <1>1 DEF Weighs
  <2> QED BY <2>1, BegunIsFree DEF Ready
<1>4. /\ Promise!Releases(u, {}) /\ StateOf' = [StateOf EXCEPT ![u] = r.state]
      /\ r.state = units[u].state \/ ~Ready(Kind[u], r.state)
           => HeldUnits' = HeldUnits /\ AwaitingOf' = AwaitingOf /\ due' = {}
  BY <1>2, <1>3, PromisedReleases
<1>5. CASE r.state = units[u].state
  <2>1. StateOf' = StateOf
    BY <1>4, <1>5 DEF StateOf
  <2> QED BY <1>2, <1>4, <1>5, <2>1, Stutters
<1>6. CASE /\ ~Terminal(units[u].state)
           /\ \E in \in Inputs : r.state = Weighed(Kind[u], [state |-> units[u].state,
                                                             asked |-> units[u].asked], in)
  <2>1. PICK in \in Inputs : r.state = Weighed(Kind[u], [state |-> StateOf[u],
                                                          asked |-> units[u].asked], in)
    BY <1>6 DEF StateOf
  <2>2. units[u].asked \in BOOLEAN
    BY <1>2 DEF Managed
  <2>3. r.state \in Promise!Successors(u)
    <3>1. r.state = Promise!Weighed(Kind[u], [state |-> StateOf[u], asked |-> units[u].asked], in)
      BY <2>1, PromisedMachine
    <3>2. in \in Promise!Inputs
      BY PromisedMachine
    <3> QED BY <2>2, <3>1, <3>2 DEF Promise!Successors, StateOf
  <2>4. ~Promise!Terminal(StateOf[u])
    BY <1>6, PromisedMachine DEF StateOf
  <2>5. Promise!Releases(u, due)
    BY <1>2, <1>4 DEF Promise!Releases
  <2>6. Promise!Move(u)
    BY <1>4, <2>3, <2>4, <2>5 DEF Promise!Move, StateOf, ToStart, Starting
  <2> QED BY <2>6 DEF Promise!Next
<1>7. CASE Terminal(units[u].state) /\ u \in withdrawing /\ r.state = "Refused"
  <2>1. Kind[u] = "plugin"
    BY <1>7 DEF Plugins
  <2>2. ~Ready(Kind[u], r.state)
    BY <1>7, <2>1 DEF Ready
  <2>3. Promise!Terminal(StateOf[u])
    BY <1>7, PromisedMachine DEF StateOf
  <2>4. Promise!Decline(u)
    BY <1>2, <1>4, <1>7, <2>1, <2>2, <2>3 DEF Promise!Decline, StateOf, HeldUnits, AwaitingOf,
                                              ToStart, Starting
  <2> QED BY <2>4 DEF Promise!Next
<1> QED BY <1>1, <1>5, <1>6, <1>7 DEF Weighs

(* What is armed, the policy armed.                                        *)
ArmedByPolicy == \A u \in Units : units[u].timer => ByPolicy(u)

LEMMA InitArmed == Init => ArmedByPolicy
<1>1. \A u \in Units : ~NewUnit(u).timer
  BY DEF NewUnit
<1> QED BY <1>1 DEF Init, ArmedByPolicy

LEMMA RecordArmed ==
    ASSUME TypeOK, ArmedByPolicy, NEW u \in Units, NEW r, NEW ls, NEW rest, Record(u, r, ls, rest),
           r.timer => units[u].timer \/ ByPolicy(u)
    PROVE  ArmedByPolicy'
<1> SUFFICES ASSUME NEW x \in Units, units'[x].timer PROVE ByPolicy(x)
  BY DEF ArmedByPolicy
<1>1. CASE x = u
  BY <1>1 DEF Record, ArmedByPolicy
<1>2. CASE x # u
  <2>1. units[x] \in Managed
    BY DEF TypeOK
  <2>2. \E h : units'[x] = units[x] \/ units'[x] = [units[x] EXCEPT !.awaiting = @ \ {u}, !.held = h]
    BY <1>2 DEF Record
  <2>3. units'[x].timer <=> units[x].timer
    BY <2>1, <2>2 DEF Managed
  <2> QED BY <2>3 DEF ArmedByPolicy
<1> QED BY <1>1, <1>2

LEMMA NextArmed == TypeOK /\ LaunchInv /\ ArmedByPolicy /\ [Next]_vars => ArmedByPolicy'
<1> SUFFICES ASSUME TypeOK, LaunchInv, ArmedByPolicy, [Next]_vars PROVE ArmedByPolicy'
  OBVIOUS
<1>1. ASSUME Rests PROVE ArmedByPolicy'
  BY <1>1 DEF Rests, StateKept, ArmedByPolicy
<1>2. ASSUME NEW u \in Units, StateWeighed(u) PROVE ArmedByPolicy'
  <2>1. PICK r, ls : Weighs(u, r, ls)
    BY <1>2 DEF StateWeighed
  <2> QED BY <2>1, RecordArmed DEF Weighs
<1>3. ASSUME NEW u \in Units, Attempt(u) PROVE ArmedByPolicy'
  <2>1. PICK r, ls : Attempted(u, r, ls)
    BY <1>3, AttemptShape
  <2>2. PICK rest : rest = due \ {u}
    OBVIOUS
  <2>3. Record(u, r, ls, rest) /\ (r.timer => units[u].timer \/ ByPolicy(u))
    BY <2>1, <2>2 DEF Attempted
  <2> QED BY <2>3, RecordArmed
<1>4. ASSUME NEW u \in Units, NeverArrived(u) PROVE ArmedByPolicy'
  <2> DEFINE s == [units[u] EXCEPT !.held = FALSE, !.awaiting = {}, !.notStarted = TRUE]
  <2>1. units[u] \in Managed
    BY DEF TypeOK
  <2>2. s.timer <=> units[u].timer
    BY <2>1 DEF Managed
  <2>3. \A x \in Units : units'[x] = IF x = u THEN s ELSE units[x]
    BY <1>4 DEF NeverArrived, TypeOK
  <2> HIDE DEF s
  <2> QED BY <2>2, <2>3 DEF ArmedByPolicy
<1>5. ASSUME NEW u \in Units, TimerNext(u) \/ PolicyNext(u) PROVE ArmedByPolicy'
  BY <1>1, <1>2, <1>4, <1>5, TimerShape, PolicyShape DEF Woken
<1>6. ASSUME NEW u \in Units, NEW l \in Numbers, LaunchNext(u, l) \/ EndNext(u, l) PROVE ArmedByPolicy'
  BY <1>1, <1>2, <1>6, LaunchShape, EndShape
<1>7. ASSUME NEW u \in Units, NEW in \in PluginInputs, Input(u, in) PROVE ArmedByPolicy'
  BY <1>2, <1>7, InputShape
<1>8. ASSUME NEW o \in Operators, OperatorNext(o) PROVE ArmedByPolicy'
  BY <1>1, <1>2, <1>8, OperatorShape DEF Woken
<1>9. CASE GoQuiet \/ Reconcile
  BY <1>1, <1>9, EngineShape
<1>10. CASE StopNext
  <2> HIDE DEF NextToStop
  <2> QED BY <1>1, <1>2, <1>10, StopShape
<1>11. CASE UNCHANGED vars
  BY <1>1, <1>11, NothingRests DEF vars, stopVars, operatorVars
<1> QED BY <1>3, <1>5, <1>6, <1>7, <1>9, <1>8, <1>10, <1>11 DEF Next

(* What a call asks to start.                                              *)
AsksFor(c, v) == c # Idle /\ c.at = "start" /\ c.unit = v

LEMMA CallReplaced ==
    ASSUME TypeOK, NEW o \in Operators, NEW c, call' = [call EXCEPT ![o] = c]
    PROVE  /\ (\A v : ~AsksFor(call[o], v) /\ ~AsksFor(c, v)) => ToStart' = ToStart
           /\ \A v \in Units : (\A w : ~AsksFor(call[o], w)) /\ (\A w : AsksFor(c, w) <=> w = v)
                => ToStart' = ToStart \cup {v}
           /\ \A v \in Units : (\A w : AsksFor(call[o], w) <=> w = v) /\ (\A w : ~AsksFor(c, w))
                => ToStart' \in {ToStart, ToStart \ {v}}
<1>1. \A p \in Operators : call'[p] = IF p = o THEN c ELSE call[p]
  BY DEF TypeOK
<1>2. ToStart = {v \in Units : \E p \in Operators : AsksFor(call[p], v)}
  BY DEF ToStart, Starting, AsksFor
<1>3. ToStart' = {v \in Units : \E p \in Operators : AsksFor(call'[p], v)}
  BY DEF ToStart, Starting, AsksFor
<1> HIDE DEF ToStart
<1>4. ASSUME NEW v, ~AsksFor(call[o], v), ~AsksFor(c, v)
      PROVE  v \in ToStart' <=> v \in ToStart
  BY <1>1, <1>3, <1>2, <1>4
<1>5. ASSUME NEW v \in Units, AsksFor(c, v) PROVE v \in ToStart'
  BY <1>1, <1>3, <1>5
<1>6. CASE \A v : ~AsksFor(call[o], v) /\ ~AsksFor(c, v)
  BY <1>4, <1>6
<1>7. ASSUME NEW v \in Units, \A w : ~AsksFor(call[o], w), \A w : AsksFor(c, w) <=> w = v
      PROVE  ToStart' = ToStart \cup {v}
  BY <1>4, <1>5, <1>7
<1>8. ASSUME NEW v \in Units, \A w : AsksFor(call[o], w) <=> w = v, \A w : ~AsksFor(c, w)
      PROVE  ToStart' \in {ToStart, ToStart \ {v}}
  <2>1. \A w : w # v => (w \in ToStart' <=> w \in ToStart)
    BY <1>4, <1>8
  <2>2. v \in ToStart
    BY <1>2, <1>8
  <2> QED BY <2>1, <2>2
<1> QED BY <1>6, <1>7, <1>8

(* A step that is at most a call's: it asks for a start, or gives one up.  *)
CallsRest ==
    /\ StateOf' = StateOf /\ HeldUnits' = HeldUnits /\ AwaitingOf' = AwaitingOf /\ due' = due
    /\ \/ ToStart' = ToStart
       \/ \E v \in Units : ToStart' \in {ToStart \cup {v}, ToStart \ {v}}

LEMMA PromisedCall ==
    ASSUME CallsRest
    PROVE  [Promise!Next]_(Promise!promised)
<1>1. CASE ToStart' = ToStart
  BY <1>1, Stutters DEF CallsRest
<1>2. ASSUME NEW v \in Units, ToStart' = ToStart \cup {v} PROVE Promise!Next
  <2>1. Promise!AskStart(v)
    BY <1>2 DEF CallsRest, Promise!AskStart, StateOf, HeldUnits, AwaitingOf, ToStart, Starting
  <2> QED BY <2>1 DEF Promise!Next
<1>3. ASSUME NEW v \in Units, ToStart' = ToStart \ {v} PROVE Promise!Next
  <2>1. Promise!LeaveAsItIs(v)
    BY <1>3 DEF CallsRest, Promise!LeaveAsItIs, StateOf, HeldUnits, AwaitingOf, ToStart, Starting
  <2> QED BY <2>1 DEF Promise!Next
<1> QED BY <1>1, <1>2, <1>3 DEF CallsRest

LEMMA RestsPromised ==
    ASSUME Rests
    PROVE  StateOf' = StateOf /\ HeldUnits' = HeldUnits /\ AwaitingOf' = AwaitingOf
BY RestsMapped DEF Rests, StateKept

LEMMA AskedMapped ==
    ASSUME TypeOK, LaunchInv, NEW u \in Units, AskedToStop(u)
    PROVE  StateOf' = StateOf /\ HeldUnits' = HeldUnits /\ AwaitingOf' = AwaitingOf /\ due' = due
<1>1. PICK r, ls : Weighs(u, r, ls) /\ r.state = units[u].state
  BY DEF AskedToStop
<1>2. /\ r \in Managed /\ ls \in [Numbers -> Lives] /\ Record(u, r, ls, {}) /\ due = {}
      /\ {} \in SUBSET due /\ SameHold(units[u], r)
  BY <1>1 DEF Weighs
<1>3. /\ StateOf' = [StateOf EXCEPT ![u] = r.state]
      /\ HeldUnits' = HeldUnits /\ AwaitingOf' = AwaitingOf /\ due' = {}
  BY <1>1, <1>2, PromisedReleases
<1> QED BY <1>1, <1>2, <1>3 DEF StateOf

(* What an operator does is a start asked for, given up or carried out.    *)
LEMMA PromisedOperator ==
    ASSUME TypeOK, LaunchInv, NEW o \in Operators, OperatorNext(o)
    PROVE  [Promise!Next]_(Promise!promised)
<1>1. call[o] # Idle => call[o] \in Calls /\ call[o].unit \in Units
  BY DEF TypeOK, Calls
<1>2. \A v : ~AsksFor(Idle, v)
  BY DEF AsksFor
<1>3. \A v : AsksFor(call[o], v) <=> call[o] # Idle /\ call[o].at = "start" /\ call[o].unit = v
  BY DEF AsksFor
<1> DEFINE u == call[o].unit
<1>4. ASSUME call[o] # Idle, call[o].at # "start", StopReturns(o)
      PROVE  ToStart' = ToStart \/ ToStart' = ToStart \cup {u}
  <2> DEFINE c == [call[o] EXCEPT !.at = "start"]
  <2>1. \A w : AsksFor(c, w) <=> w = u
    <3>1. c.at = "start" /\ c.unit = u
      BY <1>1, <1>4 DEF Calls
    <3>2. c # Idle
      BY <3>1 DEF Idle
    <3> QED BY <3>1, <3>2 DEF AsksFor
  <2>2. call' = [call EXCEPT ![o] = Idle] \/ call' = [call EXCEPT ![o] = c]
    BY <1>4 DEF StopReturns, Answered, TypeOK
  <2> HIDE DEF c
  <2>3. CASE call' = [call EXCEPT ![o] = Idle]
    BY <1>2, <1>3, <1>4, <2>3, CallReplaced
  <2>4. CASE call' = [call EXCEPT ![o] = c]
    <3>1. \A w : ~AsksFor(call[o], w)
      BY <1>3, <1>4
    <3>2. u \in Units
      BY <1>1, <1>4
    <3> HIDE DEF u
    <3> QED BY <2>1, <2>4, <3>1, <3>2, CallReplaced
  <2> QED BY <2>2, <2>3, <2>4
<1>5. ASSUME Rests, due' = due,
             ToStart' = ToStart \/ \E v \in Units : ToStart' \in {ToStart \cup {v}, ToStart \ {v}}
      PROVE  [Promise!Next]_(Promise!promised)
  BY <1>5, RestsPromised, PromisedCall DEF CallsRest
<1>6. ASSUME NEW op \in Ops, NEW v \in Units, Asks(o, op, v)
      PROVE  ToStart' = ToStart \/ ToStart' = ToStart \cup {v}
  <2> DEFINE c == [at |-> IF op = "start" THEN "start" ELSE "stop", op |-> op,
                   unit |-> v, life |-> 0, pressed |-> FALSE]
  <2>1. call' = [call EXCEPT ![o] = c] /\ call[o] = Idle
    BY <1>6 DEF Asks
  <2>2. (\A w : ~AsksFor(c, w)) \/ (\A w : AsksFor(c, w) <=> w = v)
    <3>1. c.at = (IF op = "start" THEN "start" ELSE "stop") /\ c.unit = v
      OBVIOUS
    <3>2. c # Idle
      BY <3>1 DEF Idle
    <3> HIDE DEF c
    <3> QED BY <3>1, <3>2 DEF AsksFor
  <2> HIDE DEF c
  <2>3. \A w : ~AsksFor(call[o], w)
    BY <1>2, <2>1
  <2> QED BY <2>1, <2>2, <2>3, CallReplaced
<1>7. CASE \E op \in Ops, v \in Units : Asks(o, op, v)
  <2>1. PICK op \in Ops, v \in Units : Asks(o, op, v)
    BY <1>7
  <2>2. Rests /\ due' = due
    BY <2>1, NothingRests DEF Asks, stopVars
  <2> QED BY <1>5, <1>6, <2>1, <2>2
<1>8. CASE UnitStopped(o)
  <2>1. Rests /\ due' = due
    BY <1>8, NothingRests DEF UnitStopped, stopVars
  <2>2. ToStart' = ToStart \/ ToStart' = ToStart \cup {u}
    BY <1>4, <1>8 DEF UnitStopped
  <2> QED BY <1>1, <1>5, <1>8, <2>1, <2>2 DEF UnitStopped
<1>9. CASE PressUnit(o)
  <2> DEFINE c == [call[o] EXCEPT !.pressed = TRUE]
  <2>1. Rests /\ due' = due
    BY <1>1, <1>9, PressShape DEF PressUnit, stopVars
  <2>2. call' = [call EXCEPT ![o] = c]
    BY <1>9 DEF PressUnit, TypeOK
  <2>3. \A w : ~AsksFor(c, w)
    <3>1. c.at = "wait"
      BY <1>1, <1>9 DEF PressUnit, Calls
    <3> QED BY <3>1 DEF AsksFor
  <2> HIDE DEF c
  <2>4. \A w : ~AsksFor(call[o], w)
    BY <1>3, <1>9 DEF PressUnit
  <2> QED BY <1>5, <2>1, <2>3, <2>2, <2>4, CallReplaced
<1>10. CASE StopUnit(o)
  <2>1. u \in Units /\ call[o] # Idle /\ call[o].at = "stop"
    BY <1>1, <1>10 DEF StopUnit
  <2>2. StateOf' = StateOf /\ HeldUnits' = HeldUnits /\ AwaitingOf' = AwaitingOf /\ due' = due
    <3>1. due = {} /\ UNCHANGED <<order, stopping>> /\ StopOne(u)
      BY <1>10 DEF StopUnit, Unlocked, stopVars
    <3> HIDE DEF u
    <3> QED BY <2>1, <3>1, StopOneShape, AskedMapped
  <2>3. ToStart' = ToStart \/ ToStart' = ToStart \cup {u}
    <3>1. CASE units[u].running = 0
      BY <1>4, <1>10, <2>1, <3>1 DEF StopUnit
    <3>2. CASE units[u].running # 0
      <4> DEFINE c == [call[o] EXCEPT !.at = "wait", !.life = units[u].running]
      <4>1. call' = [call EXCEPT ![o] = c]
        BY <1>10, <3>2 DEF StopUnit
      <4>2. \A w : ~AsksFor(c, w)
        <5>1. c.at = "wait"
          BY <1>1, <2>1 DEF Calls
        <5> QED BY <5>1 DEF AsksFor
      <4> HIDE DEF c
      <4>3. \A w : ~AsksFor(call[o], w)
        BY <1>3, <2>1
      <4> QED BY <4>1, <4>2, <4>3, CallReplaced
    <3> QED BY <3>1, <3>2
  <2> QED BY <2>1, <2>2, <2>3, PromisedCall DEF CallsRest
<1>11. CASE StartUnit(o)
  <2>1. u \in Units /\ call[o] # Idle /\ call[o].at = "start" /\ call' = [call EXCEPT ![o] = Idle]
    BY <1>1, <1>11 DEF StartUnit, Answered
  <2>2. \A w : AsksFor(call[o], w) <=> w = u
    BY <1>3, <2>1
  <2> HIDE DEF u
  <2>3. ToStart' \in {ToStart, ToStart \ {u}}
    BY <1>2, <2>1, <2>2, CallReplaced
  <2>4. u \in ToStart
    BY <2>1, <2>2 DEF ToStart, Starting, AsksFor
  <2>5. CASE Rests /\ due' = due
    BY <1>5, <2>1, <2>3, <2>5
  <2>6. CASE Woken(u)
    <3>1. StateOf' = StateOf /\ HeldUnits' = HeldUnits /\ AwaitingOf' = AwaitingOf
          /\ due' = due \cup {u}
      BY <2>6, RestsPromised DEF Woken
    <3>2. PICK v \in Units : v = u
      BY <2>1
    <3>3. Promise!Owe(v)
      BY <2>3, <2>4, <3>1, <3>2 DEF Promise!Owe, StateOf, HeldUnits, AwaitingOf, ToStart, Starting
    <3> QED BY <3>3 DEF Promise!Next
  <2>7. ~StopUnit(o)
    BY <2>1 DEF StopUnit
  <2> QED BY <2>5, <2>6, <2>7, OperatorShape DEF u
<1> QED BY <1>7, <1>8, <1>10, <1>9, <1>11 DEF OperatorNext

(* A hold that runs out, and a timer that fires.                           *)
LEMMA PromisedGiveUp ==
    ASSUME TypeOK, NEW u \in Units, NeverArrived(u), ToStart' = ToStart
    PROVE  Promise!GiveUp(u)
<1> DEFINE s == [units[u] EXCEPT !.held = FALSE, !.awaiting = {}, !.notStarted = TRUE]
<1>1. units[u] \in Managed
  BY DEF TypeOK
<1>2. s.state = units[u].state /\ ~s.held /\ s.awaiting = {}
  BY <1>1 DEF Managed
<1>3. \A x \in Units : units'[x] = IF x = u THEN s ELSE units[x]
  BY DEF NeverArrived, TypeOK
<1>4. units[u].held /\ due' = due
  BY DEF NeverArrived
<1> HIDE DEF s
<1>5. StateOf' = StateOf
  BY <1>2, <1>3 DEF StateOf
<1>6. HeldUnits' = HeldUnits \ {u} /\ u \in HeldUnits
  BY <1>2, <1>3, <1>4 DEF HeldUnits
<1>7. AwaitingOf' = [AwaitingOf EXCEPT ![u] = {}]
  BY <1>2, <1>3 DEF AwaitingOf
<1> QED BY <1>4, <1>6, <1>5, <1>7 DEF Promise!GiveUp, StateOf, HeldUnits, AwaitingOf, ToStart, Starting

LEMMA PromisedWaking ==
    ASSUME TypeOK, SightInv, ArmedByPolicy, NEW u \in Units, Woken(u),
           units[u].timer \/ units[u].late > 0, ToStart' = ToStart
    PROVE  Promise!Owe(u)
<1>1. units[u].late = 0 /\ (units[u].timer => units[u].state = "Failed")
  BY DEF SightInv, UnitsSound, UnitSound, Steady, Timed
<1>2. Restarts(Kind[u], units[u].state, u \in OnFailure)
  BY <1>1 DEF ArmedByPolicy, ByPolicy
<1>3. Promise!Restarts(Kind[u], StateOf[u], u \in OnFailure)
  BY <1>2, PromisedMachine DEF StateOf
<1>4. StateOf' = StateOf /\ HeldUnits' = HeldUnits /\ AwaitingOf' = AwaitingOf /\ due' = due \cup {u}
  BY RestsPromised DEF Woken
<1> QED BY <1>3, <1>4 DEF Promise!Owe, StateOf, HeldUnits, AwaitingOf, ToStart, Starting

LEMMA NextPromised ==
    ASSUME TypeOK, LaunchInv, SightInv, ArmedByPolicy, [Next]_vars
    PROVE  [Promise!Next]_(Promise!promised)
<1>1. withdrawing \subseteq Plugins
  BY DEF SightInv
<1>2. call' = call => ToStart' = ToStart
  BY DEF ToStart, Starting
<1>3. ASSUME Rests, due' = due, call' = call PROVE [Promise!Next]_(Promise!promised)
  BY <1>2, <1>3, RestsPromised, Stutters
<1>4. ASSUME NEW u \in Units, StateWeighed(u), call' = call PROVE [Promise!Next]_(Promise!promised)
  BY <1>1, <1>2, <1>4, PromisedWeighing
<1>5. ASSUME NEW u \in Units, Attempt(u) PROVE [Promise!Next]_(Promise!promised)
  <2>1. PICK r, ls : Attempted(u, r, ls)
    BY <1>5, AttemptShape
  <2>2. call' = call
    BY <2>1 DEF Attempted, Taken, operatorVars
  <2>3. Promise!Begin(u)
    BY <1>2, <2>1, <2>2, PromisedAttempt
  <2> QED BY <2>3 DEF Promise!Next
<1>6. ASSUME NEW u \in Units, TimerNext(u) PROVE [Promise!Next]_(Promise!promised)
  <2>1. call' = call
    BY <1>6 DEF TimerNext, WindowElapsed, NeverArrived, TimerFires, TimerIsLate, LateCallback, operatorVars
  <2>2. CASE Rests /\ due' = due
    BY <1>3, <2>1, <2>2
  <2>3. CASE NeverArrived(u)
    BY <1>2, <2>1, <2>3, PromisedGiveUp DEF Promise!Next
  <2>4. CASE Woken(u) /\ (units[u].timer \/ units[u].late > 0)
    BY <1>2, <2>1, <2>4, PromisedWaking DEF Promise!Next
  <2> QED BY <1>6, <2>2, <2>3, <2>4, TimerShape
<1>7. ASSUME NEW u \in Units, PolicyNext(u) PROVE [Promise!Next]_(Promise!promised)
  <2>1. call' = call
    BY <1>7 DEF PolicyNext, Disable, Enable, Withdraw
  <2> QED BY <1>3, <1>4, <1>7, <2>1, PolicyShape
<1>8. ASSUME NEW u \in Units, NEW l \in Numbers, LaunchNext(u, l) \/ EndNext(u, l)
      PROVE  [Promise!Next]_(Promise!promised)
  <2>1. call' = call
    BY <1>8 DEF LaunchNext, LaunchFails, LaunchStarts, StartErrs, LaunchRecorded, EndNext, Ends,
                HearEnd, Conclude, DisposeKill, operatorVars
  <2> QED BY <1>3, <1>4, <1>8, <2>1, LaunchShape, EndShape
<1>9. ASSUME NEW u \in Units, NEW in \in PluginInputs, Input(u, in)
      PROVE  [Promise!Next]_(Promise!promised)
  <2>1. call' = call
    BY <1>9 DEF Input, operatorVars
  <2> QED BY <1>4, <1>9, <2>1, InputShape
<1>10. CASE GoQuiet \/ Reconcile
  <2>1. call' = call
    BY <1>10 DEF GoQuiet, Reconcile, operatorVars
  <2> QED BY <1>3, <1>10, <2>1, EngineShape
<1>11. CASE StopNext
  <2>1. call' = call
    BY <1>11 DEF StopNext, StopBegins, StopTakes, StopPresses, StopHasStopped, operatorVars
  <2> HIDE DEF NextToStop
  <2> QED BY <1>3, <1>4, <1>11, <2>1, StopShape
<1>12. CASE UNCHANGED vars
  BY <1>3, <1>12, NothingRests DEF vars, stopVars, operatorVars
<1> QED BY <1>5, <1>6, <1>7, <1>9, <1>8, <1>11, <1>10, <1>12, PromisedOperator DEF Next

(* Where timers are served as they fire and the engine answers, every step *)
(* of the supervisor is one the promise allows: a state moves along its    *)
(* kind's diagram or with an attempt, and an attempt is owed to a release, *)
(* a start or a failure the policy restarts (apply, settle, release,       *)
(* StartUnit, supervisor.go; Weigh, machine.go).                           *)
THEOREM KeepsItsPromise ==
    ASSUME ~TimersOvertaken, EngineServes
    PROVE  Spec => LifecycleKept
<1>1. Init => TypeOK /\ LaunchInv /\ SightInv /\ ArmedByPolicy /\ Promise!Init
  BY InitType, InitLaunch, InitSight, InitArmed, PromisedStart
<1>2. TypeOK /\ LaunchInv /\ SightInv /\ ArmedByPolicy /\ [Next]_vars
        => /\ (TypeOK /\ LaunchInv /\ SightInv /\ ArmedByPolicy)'
           /\ [Promise!Next]_(Promise!promised)
  BY NextType, NextLaunch, NextSight, NextArmed, NextPromised
<1> QED BY <1>1, <1>2, PTL DEF Spec, LifecycleKept, Promise!Spec

================================================================================
