------------------------------- MODULE Supervisor -------------------------------
(***************************************************************************)
(* internal/core/supervisor: the one part of the Core that touches         *)
(* processes.  It launches the units of an instance in the order their     *)
(* dependencies fix, learns of their ends, restarts them by policy, takes  *)
(* the operators' stop, start and restart, and stops them all in reverse.  *)
(*                                                                         *)
(* Everything decided is decided under one mutex.  What happens outside    *)
(* it, and so interleaves, has actions of its own: a process ending, the   *)
(* goroutine waiting for it, the engine being asked for a container, its   *)
(* reports, a timer that fired, a stop waiting for an end.  An attempt     *)
(* that makes a unit ready attempts its dependants in the same critical    *)
(* section: due holds the units still to attempt, the mutex is free when   *)
(* due is empty, and every action that takes it is guarded by Unlocked.    *)
(*                                                                         *)
(* What is abstracted: a backoff, a window and a stop window are timers    *)
(* that may run out at any moment, so how long each is makes no matter;    *)
(* the output, the digest and what a need expands into are whether an      *)
(* attempt fails before it has a process; a process is a life of its unit, *)
(* named by the number the unit's counter gave it.                         *)
(***************************************************************************)
EXTENDS UnitMachine, Naturals, Sequences, FiniteSets

CONSTANTS
    Units,           \* the units the deployment declares
    Kind,            \* the kind of each
    Image,           \* the units that name an image, launched in a container
    DependsOn,       \* the units each depends on
    OnFailure,       \* the oneshots declared safe to run twice
    Skips,           \* the oneshots their migration range does not admit
    Faulty,          \* the units whose launch may fail before a process
    Operators,       \* concurrent callers of stop, start and restart
    CanDisable,      \* whether operators disable and enable plugins
    EngineErrs,      \* whether the engine answers a launch with an error
    EngineQuiets,    \* whether the engine's events stop arriving
    TimersOvertaken, \* whether a fired timer may wait while others are served
    MaxLives,        \* BOUND: the lives a unit's counter gives
    LateCap          \* BOUND: the fired timers of a unit that wait at once

ASSUME UnitsAssumption ==
    /\ IsFiniteSet(Units)
    /\ Kind \in [Units -> Kinds]
    /\ Image \subseteq Units
    /\ DependsOn \in [Units -> SUBSET Units]
    /\ OnFailure \subseteq Units
    /\ Skips \subseteq {u \in Units : Kind[u] = "oneshot"}
    /\ Faulty \subseteq Units
ASSUME BoundsAssumption == MaxLives \in Nat \ {0} /\ LateCap \in Nat
ASSUME SwitchesAssumption ==
    /\ CanDisable \in BOOLEAN
    /\ EngineErrs \in BOOLEAN
    /\ EngineQuiets \in BOOLEAN
    /\ TimersOvertaken \in BOOLEAN

VARIABLES
    units,       \* what the supervisor holds of each unit (managed)
    life,        \* each life of each unit: its process, launch and watch
    due,         \* the units still to attempt in this critical section
    order,       \* the order units were launched in
    beyond,      \* the lives of each unit that Stop does not answer for
    stopping,    \* whether Stop has begun
    stop,        \* the goroutine of Stop: who is left, what it waits for
    quiet,       \* whether the engine's events have stopped arriving
    disabled,    \* the plugins disabled, named by the unit that is a copy
    withdrawing, \* the units a disable has yet to withdraw
    call         \* what each operator has asked and not been answered

vars == <<units, life, due, order, beyond, stopping, stop, quiet, disabled,
          withdrawing, call>>
operatorVars == <<disabled, withdrawing, call>>
stopVars == <<stopping, stop>>

Numbers == 1..MaxLives
LifeOrNone == 0..MaxLives

(* A unit: its machine; the state its status shows, which stays the last   *)
(* life's until the new one is recorded; the life whose process it can     *)
(* signal, 0 for none; the life whose end it will conclude, 0 before the   *)
(* attempt has a number; the number counted last; whether its window ran   *)
(* out; whether it waits for its next attempt; the timer of that wait, and *)
(* the callbacks of timers that fired and wait for the mutex; whether it   *)
(* is held, on which dependencies, and whether its hold ran out.           *)
Managed == [state : States, asked : BOOLEAN, shown : States \cup {""},
            running : LifeOrNone, incarnation : LifeOrNone,
            lives : LifeOrNone, windowOut : BOOLEAN, waiting : BOOLEAN,
            timer : BOOLEAN, late : 0..LateCap, held : BOOLEAN,
            awaiting : SUBSET Units, notStarted : BOOLEAN]

(* A life: its process; how far its launch has got with the engine; who    *)
(* watches for its end; whether disposing of it was begun; whether its     *)
(* launch was superseded.                                                  *)
Lives == [proc : {"none", "up", "killed", "zero", "nonzero", "unknown"},
          launch : {"none", "asked", "started", "erred", "over"},
          watch : {"no", "watched", "heard", "concluded"},
          doomed : BOOLEAN, superseded : BOOLEAN]

Alive(l) == l.proc \in {"up", "killed"}
Gone(l) == l.proc \in {"zero", "nonzero", "unknown"}
InFlight(l) == l.launch \in {"asked", "started", "erred"}

Ops == {"stop", "start", "restart"}
Idle == [at |-> "idle"]
Calls == [at : {"stop", "wait", "start"}, op : Ops, unit : Units,
          life : LifeOrNone, pressed : BOOLEAN]

(* Whether a state is a life still going, as the administrative service    *)
(* reads it from a status.                                                 *)
Live(shown) == shown # "" /\ ~Terminal(shown)

Unlocked == due = {}

Unreachable(u) == u \in Image /\ quiet

(* Whether Stop has been through every unit: the engine is followed no     *)
(* longer.                                                                 *)
StopDone == stopping /\ stop.left = <<>>
Followed == ~quiet /\ ~StopDone

NewUnit(u) == [state |-> "Starting", asked |-> FALSE, shown |-> "",
               running |-> 0, incarnation |-> 0, lives |-> 0,
               windowOut |-> FALSE, waiting |-> FALSE, timer |-> FALSE,
               late |-> 0, held |-> DependsOn[u] # {},
               awaiting |-> DependsOn[u], notStarted |-> FALSE]

NoLife == [proc |-> "none", launch |-> "none", watch |-> "no",
           doomed |-> FALSE, superseded |-> FALSE]

NoStop == [left |-> <<>>, life |-> 0, pressed |-> FALSE]

(* Start, up to its first launch: every dependent is held before anything  *)
(* is attempted, and the mutex is kept until every free unit has been.     *)
Init ==
    /\ units = [u \in Units |-> NewUnit(u)]
    /\ life = [u \in Units |-> [l \in Numbers |-> NoLife]]
    /\ due = {u \in Units : DependsOn[u] = {}}
    /\ order = <<>>
    /\ beyond = [u \in Units |-> {}]
    /\ stopping = FALSE
    /\ stop = NoStop
    /\ quiet = FALSE
    /\ disabled = {}
    /\ withdrawing = {}
    /\ call = [o \in Operators |-> Idle]

--------------------------------------------------------------------------------
(* What the handlers are built from.                                       *)

(* apply, the machine's part: one input weighed, and its state shown. *)
Applied(u, r, in) ==
    LET m == Apply(Kind[u], [state |-> r.state, asked |-> r.asked], in)
    IN [r EXCEPT !.state = m.state, !.asked = m.asked, !.shown = m.state]

(* settle: a state the policy restarts arms a timer.  The one it replaces, *)
(* if it was armed, can no longer be stopped.                              *)
Settled(u, r) ==
    IF stopping \/ ~Restarts(Kind[u], r.state, u \in OnFailure) THEN r
    ELSE [r EXCEPT !.waiting = TRUE, !.timer = TRUE,
                   !.late = IF r.timer /\ @ < LateCap THEN @ + 1 ELSE @]

(* A concluded record: no machine was run, no life was begun.  Skipping    *)
(* leaves the timer as it is, declining stops it.                          *)
Without(r, machine) ==
    [r EXCEPT !.state = machine.state, !.asked = machine.asked,
              !.shown = machine.state, !.running = 0, !.incarnation = 0,
              !.windowOut = FALSE, !.waiting = FALSE]

DeclinedStillTimed(r) == Without(r, Declined) \* mutant: the timer goes on
DeclinedUnit(r) == [Without(r, Declined) EXCEPT !.timer = FALSE]

(* Mutant: the process of the life before is still the one signalled. *)
FreshStillSignalling(r) ==
    [r EXCEPT !.state = NewMachine.state, !.asked = NewMachine.asked,
              !.incarnation = 0, !.windowOut = FALSE, !.waiting = FALSE]

(* What an attempt that goes ahead begins with. *)
Fresh(r) ==
    [r EXCEPT !.state = NewMachine.state, !.asked = NewMachine.asked,
              !.running = 0, !.incarnation = 0,
              !.windowOut = FALSE, !.waiting = FALSE]

FailedLaunch(u, r) == Settled(u, Applied(u, r, "LaunchFailed"))

SupersededNever(ls) == ls \* mutant: a launch in flight is not superseded

(* A new attempt, or a stop, counts on: a launch in flight is superseded. *)
Superseded(ls) ==
    [l \in Numbers |-> IF InFlight(ls[l])
                       THEN [ls[l] EXCEPT !.superseded = TRUE] ELSE ls[l]]

(* A signal that ends a process; to the engine while it is quiet, it may   *)
(* be lost, and nothing sends it again.                                    *)
Killed(ls, l, lost) ==
    IF ls[l].proc = "up" /\ ~lost THEN [ls EXCEPT ![l].proc = "killed"] ELSE ls

MayBeLost(u) == IF Unreachable(u) THEN BOOLEAN ELSE {FALSE}

(* Mutants: one dependency is enough; the whole declared list is compared, *)
(* and not what is left of it.                                             *)
FreedByOne(u) == {h \in Units \ {u} : units[h].held /\ u \in units[h].awaiting}
FreedByAll(u) == {h \in Units \ {u} : units[h].held /\ DependsOn[h] = {u}}

(* The units held on u and nothing else. *)
Freed(u) == {h \in Units \ {u} : units[h].held /\ units[h].awaiting \subseteq {u}}

(* The end of a critical section on u: its record and its lives, the       *)
(* disposal of a process that outlives a terminal state, and, where u has  *)
(* become ready, the release of the units held on nothing else.            *)
Record(u, r, ls, rest) ==
    LET moved == r.state # units[u].state
        readied == moved /\ Ready(Kind[u], r.state)
        freed == IF readied /\ ~stopping THEN Freed(u) ELSE {}
    IN /\ units' = [x \in Units |->
                      IF x = u THEN r
                      ELSE IF readied /\ units[x].held
                        THEN [units[x] EXCEPT !.awaiting = @ \ {u},
                                              !.held = x \notin freed]
                        ELSE units[x]]
       /\ life' = [life EXCEPT ![u] =
                     IF moved /\ Terminal(r.state) /\ r.running # 0
                     THEN [ls EXCEPT ![r.running].doomed = TRUE] ELSE ls]
       /\ due' = rest \cup freed

--------------------------------------------------------------------------------
(* attempt: what a launch does with the mutex held.                        *)

(* Stop does not answer for the process an attempt lost the handle of.     *)
Taken(u) ==
    /\ u \in due
    /\ order' = IF \E i \in DOMAIN order : order[i] = u
                THEN order ELSE Append(order, u)
    /\ beyond' = [beyond EXCEPT ![u] = @ \cup ({units[u].running} \cap Numbers)]
    /\ UNCHANGED <<stopVars, quiet, operatorVars>>

IsDeclined(u) == Kind[u] = "plugin" /\ u \in disabled
GoesAhead(u) == u \notin Skips /\ ~IsDeclined(u)

(* A oneshot its migration range does not admit: Completed, with no life. *)
Skip(u) ==
    /\ Taken(u)
    /\ u \in Skips
    /\ Record(u, Without(units[u], Skipped), life[u], due \ {u})

(* A copy of a disabled plugin: Refused, with no life. *)
Decline(u) ==
    /\ Taken(u)
    /\ IsDeclined(u)
    /\ Record(u, DeclinedUnit(units[u]), life[u], due \ {u})

(* A need that cannot be met, an executable that cannot be read or is not  *)
(* the one declared, no engine: a failed attempt that counts no life.      *)
AttemptFaults(u) ==
    /\ Taken(u)
    /\ GoesAhead(u)
    /\ u \in Faulty
    /\ Record(u, FailedLaunch(u, Fresh(units[u])), Superseded(life[u]),
              due \ {u})

(* The executable does not start: a failed attempt that counts a life. *)
StartFaults(u) ==
    /\ Taken(u)
    /\ GoesAhead(u)
    /\ u \in Faulty \ Image
    /\ units[u].lives < MaxLives
    /\ Record(u, FailedLaunch(u, [Fresh(units[u]) EXCEPT !.lives = @ + 1]),
              Superseded(life[u]), due \ {u})

(* On the host: the process is up before the mutex is let go. *)
Spawn(u) ==
    /\ Taken(u)
    /\ GoesAhead(u)
    /\ u \notin Image
    /\ units[u].lives < MaxLives
    /\ LET n == units[u].lives + 1
       IN Record(u,
            Applied(u, [Fresh(units[u]) EXCEPT !.lives = n, !.incarnation = n,
                                               !.running = n],
                    "ProcessStarted"),
            [Superseded(life[u]) EXCEPT ![n] =
               [NoLife EXCEPT !.proc = "up", !.launch = "over",
                              !.watch = "watched"]],
            due \ {u})

(* In a container: the life is counted and named, and the engine is asked  *)
(* without the mutex.  The status shows the state of the life before.      *)
Ask(u) ==
    /\ Taken(u)
    /\ GoesAhead(u)
    /\ u \in Image
    /\ units[u].lives < MaxLives
    /\ LET n == units[u].lives + 1
       IN Record(u,
            [Fresh(units[u]) EXCEPT !.lives = n, !.incarnation = n],
            [Superseded(life[u]) EXCEPT ![n] = [NoLife EXCEPT !.launch = "asked"]],
            due \ {u})

Attempt(u) ==
    \/ Skip(u)
    \/ Decline(u)
    \/ AttemptFaults(u)
    \/ StartFaults(u)
    \/ Spawn(u)
    \/ Ask(u)

(* Whether an attempt can be made within the bound on lives. *)
WithinBound(u) == units[u].lives < MaxLives

--------------------------------------------------------------------------------
(* launchContainer: what the engine is asked, without the mutex.           *)

SetLife(u, l, new) == life' = [life EXCEPT ![u][l] = new]

Over(ls, l) == [ls EXCEPT ![l] = [@ EXCEPT !.launch = "over", !.superseded = FALSE]]

(* What fail does: nothing once the launch is superseded or Stop began. *)
RecordFailure(u, l, ls) ==
    IF life[u][l].superseded \/ stopping
    THEN /\ life' = [life EXCEPT ![u] = ls]
         /\ UNCHANGED <<units, due>>
    ELSE Record(u, FailedLaunch(u, units[u]), ls, due)

(* The engine cannot be reached, holds no such image, cannot create the    *)
(* container or attach to it; or what its start left has been removed.     *)
LaunchFails(u, l) ==
    /\ Unlocked
    /\ EngineErrs
    /\ life[u][l].launch \in {"asked", "erred"}
    /\ RecordFailure(u, l, Over(life[u], l))
    /\ UNCHANGED <<order, beyond, stopVars, quiet, operatorVars>>

(* The engine starts the container, watched before it is started. *)
LaunchStarts(u, l) ==
    /\ life[u][l].launch = "asked"
    /\ SetLife(u, l, [life[u][l] EXCEPT !.launch = "started", !.proc = "up",
                                        !.watch = "watched"])
    /\ UNCHANGED <<units, due, order, beyond, stopVars, quiet, operatorVars>>

Erred(ls, l) ==
    LET watch == IF ls[l].watch = "watched" THEN "no" ELSE ls[l].watch
    IN [ls EXCEPT ![l] = [@ EXCEPT !.launch = "erred", !.watch = watch]]

(* The engine answers the start with an error: the container is no longer  *)
(* watched, unless its end was heard already, which may now be concluded;  *)
(* and it is removed by force.                                             *)
StartErrs(u, l) ==
    /\ EngineErrs
    /\ life[u][l].launch = "started"
    /\ \E lost \in MayBeLost(u) :
         life' = [life EXCEPT ![u] = Erred(Killed(@, l, lost), l)]
    /\ UNCHANGED <<units, due, order, beyond, stopVars, quiet, operatorVars>>

(* The launch is recorded.  Superseded, what it started is ended. *)
LaunchRecorded(u, l) ==
    /\ Unlocked
    /\ life[u][l].launch = "started"
    /\ LET over == Over(life[u], l)
       IN IF life[u][l].superseded \/ stopping
          THEN \E lost \in MayBeLost(u) :
                 /\ life' = [life EXCEPT ![u] = Killed(over, l, lost)]
                 /\ UNCHANGED <<units, due>>
          ELSE Record(u, Applied(u, [units[u] EXCEPT !.running = l],
                                 "ProcessStarted"), over, due)
    /\ UNCHANGED <<order, beyond, stopVars, quiet, operatorVars>>

--------------------------------------------------------------------------------
(* A process ends, and its end is concluded.                               *)

(* On its own or asked to, with any status; killed, never with zero. *)
Ends(u, l) ==
    /\ Alive(life[u][l])
    /\ \E how \in {"zero", "nonzero"} :
         /\ life[u][l].proc = "killed" => how = "nonzero"
         /\ SetLife(u, l, [life[u][l] EXCEPT !.proc = how])
    /\ UNCHANGED <<units, due, order, beyond, stopVars, quiet, operatorVars>>

(* read: the engine's report of a container's end. *)
HearEnd(u, l) ==
    /\ u \in Image
    /\ Followed
    /\ life[u][l].watch = "watched" /\ Gone(life[u][l])
    /\ SetLife(u, l, [life[u][l] EXCEPT !.watch = "heard"])
    /\ UNCHANGED <<units, due, order, beyond, stopVars, quiet, operatorVars>>

(* Whether the goroutine of a life's end has reached ended: the kernel     *)
(* reported it, or the engine did and the launch is recorded or abandoned. *)
EndReached(u, l) ==
    /\ Gone(life[u][l])
    /\ life[u][l].watch = IF u \in Image THEN "heard" ELSE "watched"
    /\ life[u][l].launch \in {"erred", "over"}

(* What a machine reads of a status; one the engine did not keep is not    *)
(* zero.                                                                   *)
ExitOf(l) == IF l.proc = "zero" THEN "ExitedZero" ELSE "ExitedNonzero"

(* ended: concluded only of the life the unit is in. *)
Conclude(u, l) ==
    /\ Unlocked
    /\ EndReached(u, l)
    /\ LET ls == [life[u] EXCEPT ![l] = [@ EXCEPT !.watch = "concluded", !.doomed = FALSE]]
           r == [units[u] EXCEPT !.running = 0]
           in == IF r.windowOut THEN "WindowElapsed" ELSE ExitOf(life[u][l])
       IN IF units[u].incarnation # l
          THEN /\ life' = [life EXCEPT ![u] = ls]
               /\ UNCHANGED <<units, due>>
          ELSE Record(u, Settled(u, Applied(u, r, in)), ls, due)
    /\ UNCHANGED <<order, beyond, stopVars, quiet, operatorVars>>

(* Mutant: the process is asked, and never ended. *)
DisposeAsk(u, l) ==
    /\ life[u][l].doomed /\ life[u][l].proc = "up"
    /\ life' = [life EXCEPT ![u][l].doomed = FALSE]
    /\ UNCHANGED <<units, due, order, beyond, stopVars, quiet, operatorVars>>

(* The goroutine apply left behind ends a process that outlives its        *)
(* terminal state and the stop window.                                     *)
DisposeKill(u, l) ==
    /\ life[u][l].doomed /\ life[u][l].proc = "up"
    /\ \E lost \in MayBeLost(u) :
         life' = [life EXCEPT ![u] =
                    [Killed(life[u], l, lost) EXCEPT ![l].doomed = FALSE]]
    /\ UNCHANGED <<units, due, order, beyond, stopVars, quiet, operatorVars>>

--------------------------------------------------------------------------------
(* Timers.                                                                 *)

(* Mutant: the window is noted, and the process left to itself. *)
WindowNoted(u) ==
    /\ Unlocked
    /\ units[u].state = "Starting" /\ units[u].running # 0
    /\ ~units[u].windowOut
    /\ units' = [units EXCEPT ![u].windowOut = TRUE]
    /\ UNCHANGED <<life, due, order, beyond, stopVars, quiet, operatorVars>>

(* windowElapsed: the startup window runs out on a unit still starting.    *)
(* Its callback is the current life's: an earlier one returns.             *)
WindowElapsed(u) ==
    /\ Unlocked
    /\ units[u].state = "Starting" /\ units[u].running # 0
    /\ units[u].running = units[u].incarnation
    /\ ~units[u].windowOut
    /\ units' = [units EXCEPT ![u].windowOut = TRUE]
    /\ \E lost \in MayBeLost(u) :
         life' = [life EXCEPT ![u] = Killed(@, units[u].running, lost)]
    /\ UNCHANGED <<due, order, beyond, stopVars, quiet, operatorVars>>

(* Mutant: a hold ends only where none of the dependencies arrived. *)
NoneArrived(u) ==
    /\ Unlocked
    /\ units[u].held /\ ~stopping /\ units[u].awaiting = DependsOn[u]
    /\ units' = [units EXCEPT ![u] = [@ EXCEPT !.held = FALSE, !.awaiting = {},
                                               !.notStarted = TRUE]]
    /\ UNCHANGED <<life, due, order, beyond, stopVars, quiet, operatorVars>>

(* Mutant: a unit whose hold runs out is launched without what it needs. *)
ArrivedAnyway(u) ==
    /\ Unlocked
    /\ units[u].held /\ ~stopping
    /\ units' = [units EXCEPT ![u] = [@ EXCEPT !.held = FALSE, !.awaiting = {}]]
    /\ due' = {u}
    /\ UNCHANGED <<life, order, beyond, stopVars, quiet, operatorVars>>

(* neverArrived: a held unit's window runs out. *)
NeverArrived(u) ==
    /\ Unlocked
    /\ units[u].held /\ ~stopping
    /\ units' = [units EXCEPT ![u] = [@ EXCEPT !.held = FALSE, !.awaiting = {},
                                               !.notStarted = TRUE]]
    /\ UNCHANGED <<life, due, order, beyond, stopVars, quiet, operatorVars>>

(* settle's timer fires, and its callback gets the mutex at once. *)
TimerFires(u) ==
    /\ Unlocked
    /\ units[u].timer /\ ~stopping
    /\ WithinBound(u)
    /\ units' = [units EXCEPT ![u].timer = FALSE]
    /\ due' = {u}
    /\ UNCHANGED <<life, order, beyond, stopVars, quiet, operatorVars>>

(* It fires, and its callback waits for the mutex: stopping the timer no   *)
(* longer stops it.                                                        *)
TimerIsLate(u) ==
    /\ TimersOvertaken
    /\ units[u].timer /\ units[u].late < LateCap
    /\ units' = [units EXCEPT ![u] = [units[u] EXCEPT !.timer = FALSE, !.late = @ + 1]]
    /\ UNCHANGED <<life, due, order, beyond, stopVars, quiet, operatorVars>>

LateCallback(u) ==
    /\ Unlocked
    /\ units[u].late > 0
    /\ stopping \/ WithinBound(u)
    /\ units' = [units EXCEPT ![u].late = @ - 1]
    /\ due' = IF stopping THEN {} ELSE {u}
    /\ UNCHANGED <<life, order, beyond, stopVars, quiet, operatorVars>>

--------------------------------------------------------------------------------
(* Input: what admission and the Session conclude of a Plugin unit.  They  *)
(* name the unit and not its life, so an input may reach a later one.      *)

PluginInputs == {"AdmissionAccepted", "AdmissionDeclined", "SessionOpened",
                 "SessionLost", "SessionWithdrawn"}

Input(u, in) ==
    /\ Unlocked
    /\ Kind[u] = "plugin"
    /\ \E l \in Numbers : life[u][l].proc # "none"
    /\ Applied(u, units[u], in).state # units[u].state
    /\ Record(u, Applied(u, units[u], in), life[u], {})
    /\ UNCHANGED <<order, beyond, stopVars, quiet, operatorVars>>

--------------------------------------------------------------------------------
(* The container engine's events.                                          *)

GoQuiet ==
    /\ EngineQuiets /\ Image # {}
    /\ Followed
    /\ quiet' = TRUE
    /\ UNCHANGED <<units, life, due, order, beyond, stopVars, operatorVars>>

(* Mutants: an end nobody was told is missed; what nobody watches is left. *)
ReconciledDeaf(l, unknown) ==
    IF Gone(l) /\ l.watch = "watched" THEN [l EXCEPT !.watch = "lost"] ELSE l
ReconciledLeaving(l, unknown) ==
    IF Gone(l) /\ l.watch = "watched" THEN [l EXCEPT !.watch = "heard"] ELSE l

(* follow after a quiet spell: reconcile hears every end nobody was told,  *)
(* some with no status kept, and removes what nobody watches, before the   *)
(* engine is observable again.                                             *)
Reconciled(l, unknown) ==
    IF Gone(l) /\ l.watch = "watched"
    THEN [l EXCEPT !.watch = "heard", !.proc = IF unknown THEN "unknown" ELSE @]
    ELSE IF l.proc = "up" /\ l.watch = "no" /\ l.launch = "over"
    THEN [l EXCEPT !.proc = "killed"]
    ELSE l

Reconcile ==
    /\ quiet /\ ~StopDone
    /\ quiet' = FALSE
    /\ \E unknown \in SUBSET Image :
         life' = [u \in Units |->
                    IF u \notin Image THEN life[u]
                    ELSE [l \in Numbers |->
                            Reconciled(life[u][l], u \in unknown)]]
    /\ UNCHANGED <<units, due, order, beyond, stopVars, operatorVars>>

--------------------------------------------------------------------------------
(* Operators.                                                              *)

(* stopOne, with the mutex: the timer is stopped, a launch in flight is    *)
(* superseded, and a unit with a process is asked.                         *)
StopOne(u) ==
    LET r == [units[u] EXCEPT !.timer = FALSE]
    IN Record(u, IF r.running = 0 THEN r ELSE Applied(u, r, "StopAsked"),
              Superseded(life[u]), {})

Answered(o) == call' = [call EXCEPT ![o] = Idle]

(* act: the state a status shows decides whether anything is asked of the  *)
(* supervisor; a stop or a restart of an unreachable unit is refused.      *)
Asks(o, op, u) ==
    /\ Unlocked
    /\ call[o] = Idle
    /\ op = "stop" => Live(units[u].shown)
    /\ op = "start" => ~Live(units[u].shown)
    /\ op # "start" => ~Unreachable(u)
    /\ call' = [call EXCEPT ![o] =
                  [at |-> IF op = "start" THEN "start" ELSE "stop", op |-> op,
                   unit |-> u, life |-> 0, pressed |-> FALSE]]
    /\ UNCHANGED <<units, life, due, order, beyond, stopVars, quiet, disabled,
                   withdrawing>>

(* The answer of a stop, which goes on to start where it is a restart. *)
StopReturns(o) ==
    IF call[o].op = "stop" THEN Answered(o)
    ELSE call' = [call EXCEPT ![o].at = "start"]

StopUnit(o) ==
    /\ Unlocked
    /\ call[o] # Idle /\ call[o].at = "stop"
    /\ LET u == call[o].unit
       IN /\ StopOne(u)
          /\ IF units[u].running = 0 THEN StopReturns(o)
             ELSE call' = [call EXCEPT ![o] = [@ EXCEPT !.at = "wait",
                                                        !.life = units[u].running]]
    /\ UNCHANGED <<order, beyond, stopVars, quiet, disabled, withdrawing>>

(* The stop window runs out on what was asked: it is ended, once. *)
PressUnit(o) ==
    /\ call[o] # Idle /\ call[o].at = "wait" /\ ~call[o].pressed
    /\ LET u == call[o].unit
       IN \E lost \in MayBeLost(u) :
            life' = [life EXCEPT ![u] = Killed(@, call[o].life, lost)]
    /\ call' = [call EXCEPT ![o].pressed = TRUE]
    /\ UNCHANGED <<units, due, order, beyond, stopVars, quiet, disabled, withdrawing>>

UnitStopped(o) ==
    /\ call[o] # Idle /\ call[o].at = "wait"
    /\ life[call[o].unit][call[o].life].watch = "concluded"
    /\ StopReturns(o)
    /\ UNCHANGED <<units, life, due, order, beyond, stopVars, quiet, disabled,
                   withdrawing>>

(* Mutant: a unit with a process is started again. *)
LeftWhereHeld(u) == Unreachable(u) \/ units[u].held

(* StartUnit leaves alone a unit it cannot reach, one waiting on its       *)
(* dependencies, and one with a process and a state that is not terminal.  *)
LeftAsItIs(u) ==
    \/ Unreachable(u)
    \/ units[u].held
    \/ units[u].running # 0 /\ ~Terminal(units[u].state)

(* It does not look whether Stop has begun, which then does not answer for *)
(* the life that begins.                                                   *)
GoesBeyond(u) ==
    beyond' = IF stopping THEN [beyond EXCEPT ![u] = @ \cup {units[u].lives + 1}]
              ELSE beyond

StartUnit(o) ==
    /\ Unlocked
    /\ call[o] # Idle /\ call[o].at = "start"
    /\ LET u == call[o].unit
       IN IF LeftAsItIs(u) THEN UNCHANGED <<units, due, beyond>>
          ELSE /\ WithinBound(u)
               /\ units' = [units EXCEPT ![u].timer = FALSE]
               /\ due' = {u}
               /\ GoesBeyond(u)
    /\ Answered(o)
    /\ UNCHANGED <<life, order, stopVars, quiet, disabled, withdrawing>>

(* A plugin is disabled in the registry, and then every copy withdrawn. *)
Disable(u) ==
    /\ CanDisable /\ Kind[u] = "plugin"
    /\ u \notin disabled
    /\ disabled' = disabled \cup {u}
    /\ withdrawing' = withdrawing \cup {u}
    /\ UNCHANGED <<units, life, due, order, beyond, stopVars, quiet, call>>

Enable(u) ==
    /\ u \in disabled
    /\ disabled' = disabled \ {u}
    /\ UNCHANGED <<units, life, due, order, beyond, stopVars, quiet, withdrawing, call>>

(* Withdraw: a unit that holds no Session yet, or waits to be relaunched,  *)
(* is concluded from the decision; a Session is revoked elsewhere, and     *)
(* reaches the machine as an input.                                        *)
Withdraw(u) ==
    /\ Unlocked
    /\ u \in withdrawing
    /\ withdrawing' = withdrawing \ {u}
    /\ LET r == units[u]
       IN CASE r.state = "Starting" ->
                 Record(u, Settled(u, Applied(u, r, "AdmissionDeclined")),
                        life[u], {})
            [] r.state = "Admitted" ->
                 Record(u, Settled(u, Applied(u, r, "AdmissionWithdrawn")),
                        life[u], {})
            [] Terminal(r.state) /\ r.waiting ->
                 Record(u, DeclinedUnit(r), life[u], {})
            [] OTHER -> UNCHANGED <<units, life, due>>
    /\ UNCHANGED <<order, beyond, stopVars, quiet, disabled, call>>

--------------------------------------------------------------------------------
(* Stop, once: its timers first, then each unit in the reverse of order.   *)

StopBegins ==
    /\ Unlocked
    /\ ~stopping
    /\ stopping' = TRUE
    /\ stop' = [stop EXCEPT !.left = order]
    /\ units' = [u \in Units |-> [units[u] EXCEPT !.timer = FALSE]]
    /\ UNCHANGED <<life, due, order, beyond, quiet, operatorVars>>

NextToStop == stop.left[Len(stop.left)]
StopGoesOn ==
    stop' = [NoStop EXCEPT !.left = SubSeq(stop.left, 1, Len(stop.left) - 1)]

StopTakes ==
    /\ Unlocked
    /\ stop.left # <<>> /\ stop.life = 0
    /\ LET u == NextToStop
       IN IF Unreachable(u)
          THEN StopGoesOn /\ UNCHANGED <<units, life, due>>
          ELSE /\ StopOne(u)
               /\ IF units[u].running = 0 THEN StopGoesOn
                  ELSE stop' = [stop EXCEPT !.life = units[u].running]
    /\ UNCHANGED <<order, beyond, stopping, quiet, operatorVars>>

(* Mutant: what outlives the stop window is asked again, and not ended. *)
StopAsksAgain ==
    /\ stop.life # 0 /\ ~stop.pressed
    /\ stop' = [stop EXCEPT !.pressed = TRUE]
    /\ UNCHANGED <<units, life, due, order, beyond, stopping, quiet, operatorVars>>

StopPresses ==
    /\ stop.life # 0 /\ ~stop.pressed
    /\ \E lost \in MayBeLost(NextToStop) :
         life' = [life EXCEPT ![NextToStop] = Killed(@, stop.life, lost)]
    /\ stop' = [stop EXCEPT !.pressed = TRUE]
    /\ UNCHANGED <<units, due, order, beyond, stopping, quiet, operatorVars>>

(* Mutant: the end of the process is not waited for. *)
StopDoesNotWait ==
    /\ stop.life # 0 /\ stop.pressed
    /\ StopGoesOn
    /\ UNCHANGED <<units, life, due, order, beyond, stopping, quiet, operatorVars>>

StopHasStopped ==
    /\ stop.life # 0
    /\ life[NextToStop][stop.life].watch = "concluded"
    /\ StopGoesOn
    /\ UNCHANGED <<units, life, due, order, beyond, stopping, quiet, operatorVars>>

--------------------------------------------------------------------------------
StopNext == StopBegins \/ StopTakes \/ StopPresses \/ StopHasStopped

LaunchNext(u, l) ==
    \/ LaunchFails(u, l)
    \/ LaunchStarts(u, l)
    \/ StartErrs(u, l)
    \/ LaunchRecorded(u, l)

EndNext(u, l) ==
    \/ Ends(u, l)
    \/ HearEnd(u, l)
    \/ Conclude(u, l)
    \/ DisposeKill(u, l)

TimerNext(u) ==
    \/ WindowElapsed(u)
    \/ NeverArrived(u)
    \/ TimerFires(u)
    \/ TimerIsLate(u)
    \/ LateCallback(u)

OperatorNext(o) ==
    \/ \E op \in Ops, u \in Units : Asks(o, op, u)
    \/ StopUnit(o)
    \/ PressUnit(o)
    \/ UnitStopped(o)
    \/ StartUnit(o)

PolicyNext(u) == Disable(u) \/ Enable(u) \/ Withdraw(u)

Next ==
    \/ \E u \in Units : Attempt(u) \/ TimerNext(u) \/ PolicyNext(u)
    \/ \E u \in Units, l \in Numbers : LaunchNext(u, l) \/ EndNext(u, l)
    \/ \E u \in Units, in \in PluginInputs : Input(u, in)
    \/ \E o \in Operators : OperatorNext(o)
    \/ GoQuiet
    \/ Reconcile
    \/ StopNext

(* What the runtime keeps going: a critical section under way, a launch,   *)
(* the goroutines of an end, every timer, and a stop once begun.  Nothing  *)
(* obliges a process to end unless it was killed, a plugin to be admitted, *)
(* an operator to ask, or the instance to stop.                            *)
Fairness ==
    /\ \A u \in Units :
         /\ WF_vars(Attempt(u))
         /\ WF_vars(WindowElapsed(u))
         /\ WF_vars(NeverArrived(u))
         /\ WF_vars(TimerFires(u))
         /\ WF_vars(LateCallback(u))
         /\ WF_vars(Withdraw(u))
    /\ \A u \in Units, l \in Numbers :
         /\ WF_vars(LaunchFails(u, l) \/ LaunchStarts(u, l))
         /\ WF_vars(StartErrs(u, l) \/ LaunchRecorded(u, l))
         /\ WF_vars(life[u][l].proc = "killed" /\ Ends(u, l))
         /\ WF_vars(HearEnd(u, l))
         /\ WF_vars(Conclude(u, l))
         /\ WF_vars(DisposeKill(u, l))
    /\ \A o \in Operators :
         WF_vars(StopUnit(o) \/ PressUnit(o) \/ UnitStopped(o) \/ StartUnit(o))
    /\ WF_vars(Reconcile)
    /\ WF_vars(StopTakes)
    /\ WF_vars(StopPresses)
    /\ WF_vars(StopHasStopped)

Spec == Init /\ [][Next]_vars
FairSpec == Spec /\ Fairness

--------------------------------------------------------------------------------
(* What is promised.                                                       *)

(* Every variable holds what the handlers put there: a unit's record, its  *)
(* lives, the units due, the launch order, Stop's place and the calls.     *)
TypeOK ==
    /\ units \in [Units -> Managed]
    /\ life \in [Units -> [Numbers -> Lives]]
    /\ due \subseteq Units
    /\ order \in Seq(Units)
    /\ beyond \in [Units -> SUBSET Numbers]
    /\ stopping \in BOOLEAN
    /\ stop \in [left : Seq(Units), life : LifeOrNone, pressed : BOOLEAN]
    /\ quiet \in BOOLEAN
    /\ disabled \subseteq Units
    /\ withdrawing \subseteq Units
    /\ call \in [Operators -> {Idle} \cup Calls]

(* A process is never lost sight of: while it lives, the unit can signal   *)
(* it, or its disposal or its launch is under way, or it was killed.  An   *)
(* attempt overwrites running (attempt, supervisor.go:395), and whatever   *)
(* it held then would run on, unsupervised.                                *)
NoOrphan ==
    \A u \in Units, l \in Numbers :
        Alive(life[u][l]) =>
            \/ units[u].running = l
            \/ life[u][l].doomed \/ life[u][l].proc = "killed"
            \/ InFlight(life[u][l])

(* On the host, the process a unit signals is the one of the life whose    *)
(* end it will conclude, the last one counted, and that end is still to    *)
(* be concluded: a stop, a window and a disposal never reach another life. *)
SignalsTheCurrentLife ==
    \A u \in Units \ Image :
        LET r == units[u].running
        IN r # 0 => /\ r = units[u].incarnation
                    /\ r = units[u].lives
                    /\ life[u][r].watch = "watched"

(* Completed is the word of a oneshot whose process exited zero, or that   *)
(* was skipped, whatever raced with its end (ended, apply).                *)
CompletedExitedZero ==
    \A u \in Units :
        units[u].state = "Completed" =>
            /\ Kind[u] = "oneshot"
            /\ IF units[u].incarnation = 0 THEN u \in Skips
               ELSE life[u][units[u].incarnation].proc = "zero"

(* An end that was concluded left the machine terminal, unless the startup *)
(* window had run out on the unit first (ended, supervisor.go:547).        *)
EndConcluded ==
    \A u \in Units :
        LET l == units[u].incarnation
        IN l # 0 /\ life[u][l].watch = "concluded" =>
             Terminal(units[u].state) \/ units[u].windowOut

(* A unit is held for a reason: one of its dependencies is not ready.  A   *)
(* dependency that became ready was not missed (Start, release).           *)
HeldForAReason ==
    Unlocked /\ ~stopping =>
        \A u \in Units : units[u].held =>
            \E d \in DependsOn[u] : ~Ready(Kind[d], units[d].state)

(* A unit was launched after everything it depends on, unless an operator  *)
(* started it after its hold had run out (release, StartUnit).             *)
DependenciesLaunchedFirst ==
    \A i \in DOMAIN order :
        ~units[order[i]].notStarted =>
            \A d \in DependsOn[order[i]] : \E j \in 1..(i - 1) : order[j] = d

StopAsked(u) ==
    /\ stopping
    /\ \A i \in DOMAIN stop.left : stop.left[i] = u =>
         i = Len(stop.left) /\ stop.life # 0

(* What Stop answers for: each life but those an operator's start overtook *)
(* it with (StartUnit does not look whether Stop has begun), and those an  *)
(* attempt had begun to end or lost before, which NoOrphan is about.       *)
Answers(u, l) == l \notin beyond[u]

(* While Stop ends a unit on the host, and after, no unit launched on it   *)
(* has a process left that Stop answers for (Stop, stopOne).               *)
StopsDependantsFirst ==
    \A d \in Units : StopAsked(d) =>
        \A u \in Units \ Image : d \in DependsOn[u] /\ ~units[u].notStarted =>
            \A l \in Numbers : Alive(life[u][l]) => ~Answers(u, l)

(* Once Stop has been through a unit on the host, it has no process left   *)
(* that Stop answers for.                                                  *)
StopLeavesNothing ==
    stopping =>
        \A u \in Units \ Image : (\A i \in DOMAIN stop.left : stop.left[i] # u)
            => \A l \in Numbers : Alive(life[u][l]) => ~Answers(u, l)

(* Start launches in the order of the dependencies, none missed and none   *)
(* overtaken, whenever it became ready (Start, release); Stop ends them in *)
(* the reverse of it and leaves none running that it answers for, whatever *)
(* ended, restarted, was released or was asked for meanwhile.              *)
OrderKept ==
    /\ HeldForAReason /\ DependenciesLaunchedFirst
    /\ StopsDependantsFirst /\ StopLeavesNothing

(* A timer that fires finds no process it has not begun to end: a life     *)
(* policy begins is never beside the one before (settle, ended).           *)
RestartsAfterTheEnd ==
    \A u \in Units : units[u].timer =>
        units[u].running = 0 /\ units[u].state = "Failed"

(* No process is lost sight of, a life is concluded from its end, and the  *)
(* next begins after it, whoever of the exit, the window, the operator and *)
(* the timer came first.                                                   *)
EndsBeforeRestarts == NoOrphan /\ EndConcluded /\ RestartsAfterTheEnd

Served(u) == \E o \in Operators : call[o] # Idle /\ call[o].unit = u

(* A unit that failed, and that the policy restarts, is attempted again,   *)
(* unless the instance stops or an operator takes it over: its process, if *)
(* it lingers, is disposed of, its end concluded, its wait runs out.  Not  *)
(* promised where the startup window ran out on it: see EndConcluded.      *)
FailedRestarts ==
    \A u \in Units :
        /\ units[u].state = "Failed" /\ ~units[u].windowOut
        /\ units[u].waiting => units[u].timer
        /\ Kind[u] # "oneshot" \/ u \in OnFailure
        ~> stopping \/ units[u].state # "Failed" \/ ~WithinBound(u)
                    \/ u \in due \/ Served(u)

(* A unit on the host does not stay Starting: its window bounds it.        *)
StartingEnds ==
    \A u \in Units \ Image :
        units[u].state = "Starting" /\ units[u].incarnation # 0
        ~> units[u].state # "Starting" \/ units[u].incarnation = 0

(* A unit is not held for ever.                                            *)
HoldEnds == \A u \in Units : units[u].held ~> ~units[u].held \/ stopping

(* What outlives its terminal state on the host is ended.                  *)
TerminalEnds ==
    \A u \in Units \ Image, l \in Numbers :
        Terminal(units[u].state) /\ Alive(life[u][l]) ~> ~Alive(life[u][l])

(* Stop gets through every unit: each is asked, pressed and awaited.       *)
StopEnds == stopping ~> StopDone

(* Nothing on the host waits for ever: neither a unit that failed for its  *)
(* relaunch, nor a start for its admission, nor a unit that ended for its  *)
(* process to go, nor Stop for a unit (restart, window, dispose, Stop).    *)
WaitsEnd == FailedRestarts /\ StartingEnds /\ TerminalEnds /\ StopEnds

(* Every end of a watched container is concluded, whether the engine told  *)
(* it, or went quiet and reconcile found it, unless its start erred or     *)
(* Stop is through.                                                        *)
EveryEndConcluded ==
    \A u \in Image, l \in Numbers :
        Gone(life[u][l]) /\ life[u][l].watch = "watched"
        ~> life[u][l].watch \in {"concluded", "no"} \/ StopDone

(* What a failed start left in the engine is removed, at once or when the  *)
(* quiet engine is followed again.  Not promised where that look finds the *)
(* launch not yet abandoned: it leaves what is in flight to its launch,    *)
(* which asked for the removal before (reconcile, containers.go:287).      *)
DebrisRemoved ==
    \A u \in Image, l \in Numbers :
        /\ life[u][l].launch = "over" /\ life[u][l].watch = "no"
        /\ Alive(life[u][l])
        /\ quiet \/ life[u][l].proc = "killed"
        ~> ~Alive(life[u][l]) \/ StopDone

(* An engine that erred or went quiet costs no end and leaves nothing, once *)
(* it is followed again, and what it can no longer say of an end is not    *)
(* read as success (reconcile, ended).                                     *)
QuietIsMadeUp == EveryEndConcluded /\ DebrisRemoved /\ []CompletedExitedZero

(* The supervisor implements what it promises of the units' states, on the *)
(* host and with timers served at once: where an attempt is owed, it is    *)
(* owed to a start, a release or a failure the policy restarts.            *)
Promise == INSTANCE UnitLife WITH
    state <- [u \in Units |-> units[u].state],
    held <- {u \in Units : units[u].held},
    awaiting <- [u \in Units |-> units[u].awaiting],
    owed <- due,
    started <- {u \in Units : \E o \in Operators :
                   call[o] # Idle /\ call[o].at = "start" /\ call[o].unit = u}

LifecycleKept == Promise!Spec

================================================================================
