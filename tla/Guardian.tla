--------------------------------- MODULE Guardian ---------------------------------
(***************************************************************************)
(* The account's guardian over one instance (internal/guardian/guardian.go)*)
(* with the managers that write what the instance should be and then tell  *)
(* it (internal/manager/guardian.go) and the claim a Core serves under     *)
(* (internal/core/instance/instance.go).  The guardian is one loop: each   *)
(* event is handled whole.  Managers, Cores, timers and the end of a       *)
(* process come at any moment between two events, in any order.            *)
(*                                                                         *)
(* Left out: the attempts and the lengths of the waits (a timer fires at   *)
(* any moment), the beats after the first, which only put the silence off, *)
(* the reports and subscribers, a record that cannot be read, and the      *)
(* fallback without control groups, which is weaker as declared.  Every    *)
(* wake comes over the channel and is explicit, and nothing else           *)
(* reconciles a refused instance, so a refusal is always tried again.      *)
(***************************************************************************)
EXTENDS Naturals, Sequences, FiniteSets

CONSTANTS
    Managers, \* those who call on the manager
    MaxVerbs, \* bounds the invocations each makes
    MaxCores  \* bounds the Cores executed

ASSUME GuardianAssumption == MaxCores \in Nat /\ MaxVerbs \in Nat

VARIABLES
    record,  \* what declares the instance
    owed,    \* whether this guardian did not compare the record since it changed
    loop,    \* where the guardian is
    watch,   \* what it holds about the instance
    runs,    \* how many Cores it executed
    timers,  \* those running
    inbox,   \* whether a wake was sent and not handled
    cores,   \* the Cores executed, by anybody, in order
    units,   \* the Cores whose units may be alive, in the instance's slice
    manager  \* what each calls: its verb, how far it is, the verbs left

daemonVars == <<loop, watch, runs, timers, inbox>>
worldVars == <<cores, units>>
intentVars == <<record, owed, manager>>
guardianVars == <<daemonVars, worldVars, intentVars>>

Unwatched == [state |-> "none", run |-> 0, core |-> 0, live |-> FALSE,
              silent |-> FALSE, ephemeral |-> FALSE]
Undeclared == [there |-> FALSE, desired |-> "stopped", failed |-> FALSE,
               ephemeral |-> FALSE, autostart |-> FALSE]
Records == [there : {TRUE}, desired : {"running", "stopped"}, failed : {FALSE},
            ephemeral : BOOLEAN, autostart : BOOLEAN]
Creatable == {r \in Records : ~r.autostart /\ (r.ephemeral <=> r.desired = "running")}
Told == {r \in Records : r.ephemeral => ~r.autostart}
Timer(kind, w) == [kind |-> kind, run |-> w.run, of |-> w.core]

GuardianInit ==
    /\ record \in Told
    /\ owed = TRUE
    /\ loop \in {"none", "first"}
    /\ watch = Unwatched
    /\ runs = 0
    /\ timers = {}
    /\ inbox = FALSE
    /\ cores = <<>>
    /\ units = {}
    /\ manager = [m \in Managers |-> [verb |-> "none", at |-> "idle", left |-> MaxVerbs]]

-------------------------------------------------------------------------------
(* The Cores.  The claim is a record lock: whoever holds it has it until   *)
(* the process ends.                                                       *)
Executed(cs, slice) ==
    Append(cs, [at |-> "executed", slice |-> slice, asked |-> FALSE, by |-> 0])
Live(cs, p) == p \in DOMAIN cs /\ cs[p].at # "ended"
Holders(cs) == {p \in DOMAIN cs : cs[p].at = "claimed"}
Holder(cs) == IF Holders(cs) = {} THEN 0 ELSE CHOOSE p \in Holders(cs) : TRUE
Killed(cs, p, of) == [cs EXCEPT ![p] = [@ EXCEPT !.at = "ended", !.by = of]]

(* empty: the slice is killed whole, its Cores and every unit in it. *)
Emptied(cs) == [p \in DOMAIN cs |-> IF cs[p].slice THEN [cs[p] EXCEPT !.at = "ended"]
                                    ELSE cs[p]]

(* A Core is executed by hand, outside the slice. *)
ByHand ==
    /\ Len(cores) < MaxCores
    /\ cores' = Executed(cores, FALSE)
    /\ UNCHANGED <<daemonVars, units, intentVars>>

Claim(p) ==
    /\ cores[p].at = "executed"
    /\ Holders(cores) = {}
    /\ cores' = [cores EXCEPT ![p].at = "claimed"]
    /\ units' = IF cores[p].slice THEN units \cup {p} ELSE units
    /\ UNCHANGED <<daemonVars, intentVars>>

(* It ends, asked to or not: its units with it, or left behind. *)
CoreEnds(p) ==
    /\ Live(cores, p)
    /\ cores' = [cores EXCEPT ![p].at = "ended"]
    /\ units' \in {units, units \ {p}}
    /\ UNCHANGED <<daemonVars, intentVars>>

-------------------------------------------------------------------------------
(* What the loop does about the instance, given the record and the watch   *)
(* as the handler has them and the processes as it leaves them.            *)
Want(rec, boot) ==
    /\ rec.there /\ rec.desired = "running" /\ ~rec.failed
    /\ boot => rec.autostart /\ ~rec.ephemeral

(* Mutant: the stop window of a Core that is asked is not armed. *)
StopAsksAlone(w, cs) ==
    /\ watch' = [w EXCEPT !.state = "stopping"]
    /\ cores' = [cs EXCEPT ![w.core].asked = TRUE]
    /\ UNCHANGED timers

(* stop: the Core is asked, and its stop window begins. *)
Stop(w, cs) ==
    /\ watch' = [w EXCEPT !.state = "stopping"]
    /\ cores' = [cs EXCEPT ![w.core].asked = TRUE]
    /\ timers' = timers \cup {Timer("kill", w)}

(* failed: an ephemeral run is marked and no longer watched; a declared    *)
(* instance waits to be tried again.                                       *)
Failed(rec, w) ==
    IF w.ephemeral
    THEN /\ record' = [rec EXCEPT !.failed = rec.there]
         /\ watch' = Unwatched
         /\ timers' = timers
    ELSE /\ record' = rec
         /\ watch' = [w EXCEPT !.state = "waiting"]
         /\ timers' = timers \cup {Timer("retry", w)}

(* Mutant: executions are counted by the watch. *)
NewRunOfWatch(w) == w.run + 1
NewRun(w) == runs + 1

Keep(rec, w, cs, us) ==
    /\ record' = rec
    /\ watch' = w
    /\ cores' = cs
    /\ units' = us
    /\ UNCHANGED <<timers, runs>>

Refuse(rec, w, cs, us) ==
    Keep(rec, [w EXCEPT !.state = "refused", !.core = 0, !.ephemeral = rec.ephemeral], cs, us)

(* Mutant: what an earlier guardian's Core left is not looked for. *)
ClearedAtEndsAlone(us) == us
Cleared(us) == {}

(* start, past the gate: what an earlier incarnation left is ended, and    *)
(* the Core is executed, or cannot be.                                     *)
Start(rec, w, cs, us) ==
    LET left == Emptied(cs)
        next == [w EXCEPT !.run = NewRun(w), !.ephemeral = rec.ephemeral] IN
    /\ runs < MaxCores
    /\ runs' = NewRun(w)
    /\ units' = Cleared(us)
    /\ \/ /\ cores' = left
          /\ Failed(rec, next)
       \/ LET up == [next EXCEPT !.state = "starting", !.core = Len(left) + 1, !.live = TRUE] IN
          /\ Len(left) < MaxCores
          /\ cores' = Executed(left, TRUE)
          /\ watch' = up
          /\ timers' = timers \cup {Timer("noBeat", up)}
          /\ record' = rec

(* reconcile: what the record declares against what is alive. *)
Reconcile(rec, w, cs, us, boot) ==
    LET held == Holder(cs)
        want == Want(rec, boot) IN
    /\ owed' = (owed /\ boot)
    /\ \/ /\ w.live /\ (want \/ w.state = "stopping")
          /\ Keep(rec, w, cs, us)
       \/ /\ w.live /\ ~want /\ w.state # "stopping"
          /\ Stop(w, cs)
          /\ record' = rec
          /\ units' = us
          /\ UNCHANGED runs
       \/ /\ ~w.live /\ rec.there /\ held # 0
          /\ Keep(rec, [w EXCEPT !.state = "running", !.core = held],
                  [cs EXCEPT ![held].asked = @ \/ ~want], us)
       \/ /\ ~w.live /\ held = 0 /\ want /\ w.state = "waiting"
          /\ Keep(rec, w, cs, us)
       \/ /\ ~w.live /\ held = 0 /\ want /\ w.state # "waiting"
          /\ Refuse(rec, w, cs, us) \/ Start(rec, w, cs, us)
       \/ /\ ~w.live /\ (~rec.there \/ (held = 0 /\ ~want))
          /\ Keep(rec, Unwatched, cs, us)

(* idle, after an event and before the next: the guardian stays while it   *)
(* acts on the instance, or something was told to it.                      *)
Active == {"starting", "observable", "stopping", "waiting"}
GoesOn ==
    loop' = IF watch'.state \in Active \/ inbox' THEN "waiting" ELSE "leaving"

-------------------------------------------------------------------------------
(* The events of the loop. *)

Begins(boot) ==
    /\ loop = "none"
    /\ boot => cores = <<>>
    /\ loop' = IF boot THEN "boot" ELSE "first"
    /\ UNCHANGED <<watch, runs, timers, inbox, worldVars, intentVars>>

First ==
    /\ loop \in {"boot", "first"}
    /\ Reconcile(record, watch, cores, units, loop = "boot")
    /\ UNCHANGED <<inbox, manager>>
    /\ GoesOn

Wake ==
    /\ loop = "waiting"
    /\ inbox
    /\ inbox' = FALSE
    /\ Reconcile(record, watch, cores, units, FALSE)
    /\ UNCHANGED manager
    /\ GoesOn

(* A beat, which is of the process the watch names or is refused: the      *)
(* first makes the instance observable, and one says the Core is stopping. *)
Beat(p) ==
    /\ loop = "waiting"
    /\ cores[p].at = "claimed" /\ watch.core = p
    /\ \/ /\ watch.state \in {"starting", "observable"}
          /\ watch' = [watch EXCEPT !.state = "stopping", !.silent = FALSE]
          /\ UNCHANGED timers
       \/ /\ watch.state = "starting"
          /\ watch' = [watch EXCEPT !.state = "observable", !.silent = FALSE]
          /\ timers' = timers \cup {Timer("silence", watch)}
    /\ UNCHANGED <<loop, runs, inbox, worldVars, intentVars>>

(* Mutant: the record is not looked at once its Core has stopped. *)
StoppedAndDone(rec, cs) == Keep(rec, Unwatched, cs, {}) /\ UNCHANGED owed

(* Orderly stopped: forgotten, and whatever was declared meanwhile is      *)
(* acted on.                                                               *)
Stopped(rec, cs) == Reconcile(rec, Unwatched, cs, {}, FALSE)

(* ended: the slice is emptied; an orderly stop, or a failure. *)
Ended ==
    LET cs == Emptied(cores)
        w == [watch EXCEPT !.core = 0, !.live = FALSE]
        rec == IF watch.ephemeral THEN Undeclared ELSE record IN
    /\ loop = "waiting"
    /\ watch.live /\ ~Live(cores, watch.core)
    /\ \/ /\ watch.state = "stopping" /\ ~watch.silent
          /\ Stopped(rec, cs)
       \/ /\ watch.state # "stopping" \/ watch.silent
          /\ Failed(record, w)
          /\ units' = {}
          /\ cores' = cs
          /\ UNCHANGED <<runs, owed>>
    /\ UNCHANGED <<inbox, manager>>
    /\ GoesOn

(* A timer elapses: it is about the run it was set in, or changes nothing. *)
Current(t) == watch.state # "none" /\ watch.run = t.run
Acts(t) ==
    /\ Current(t)
    /\ \/ t.kind = "kill" /\ watch.state = "stopping" /\ watch.live
       \/ t.kind = "noBeat" /\ watch.state = "starting"
       \/ t.kind = "silence" /\ watch.state = "observable"
       \/ t.kind = "retry" /\ watch.state = "waiting"

Kills(t) ==
    /\ t.kind \in {"kill", "noBeat"}
    /\ cores' = IF Live(cores, watch.core) THEN Killed(cores, watch.core, t.of) ELSE cores
    /\ timers' = timers \ {t}
    /\ UNCHANGED <<watch, runs, units, record, owed>>

GrowsSilent(t) ==
    /\ t.kind = "silence"
    /\ Stop([watch EXCEPT !.silent = TRUE], cores)
    /\ UNCHANGED <<runs, units, record, owed>>

TriesAgain(t) ==
    /\ t.kind = "retry"
    /\ Reconcile(record, [watch EXCEPT !.state = "none"], cores, units, FALSE)

Elapses(t) ==
    /\ loop = "waiting"
    /\ t \in timers /\ Acts(t)
    /\ Kills(t) \/ GrowsSilent(t) \/ TriesAgain(t)
    /\ UNCHANGED <<inbox, manager>>
    /\ GoesOn

(* Nothing left to watch: what was sent since is read by nobody. *)
Gone ==
    /\ loop' = "none"
    /\ watch' = Unwatched
    /\ runs' = 0
    /\ timers' = {}
    /\ inbox' = FALSE
    /\ owed' = TRUE

Exits == loop = "leaving" /\ Gone /\ UNCHANGED <<worldVars, record, manager>>

(* It is told to stop, and ends the Core it executed; or it crashes. *)
Abandons ==
    /\ loop = "waiting" /\ Gone
    /\ cores' = IF Live(cores, watch.core) /\ watch.live
                THEN Killed(cores, watch.core, watch.core) ELSE cores
    /\ units' \in {units, units \ {watch.core}}
    /\ UNCHANGED <<record, manager>>

Crashes == loop # "none" /\ Gone /\ UNCHANGED <<worldVars, record, manager>>

-------------------------------------------------------------------------------
(* The managers: a verb writes intent, and then tells. *)

Writes(r) == record' = r /\ owed' = TRUE
Goes(m, at) == manager' = [manager EXCEPT ![m].at = at]
Turns(m, verb, at) == manager' = [manager EXCEPT ![m] = [@ EXCEPT !.verb = verb, !.at = at]]
Begun(m, verb, at) ==
    /\ manager[m].left > 0
    /\ manager' = [manager EXCEPT ![m] = [verb |-> verb, at |-> at, left |-> @.left - 1]]
At(m, verb, at) == manager[m].verb = verb /\ manager[m].at = at
Idle(m) == manager[m].at \in {"idle", "done", "told"}

StartVerb(m) ==
    /\ Idle(m) /\ record.there
    /\ Writes([record EXCEPT !.desired = "running"])
    /\ Begun(m, "start", "wrote")

StopVerb(m) ==
    /\ Idle(m) /\ record.there
    /\ Writes([record EXCEPT !.desired = "stopped"])
    /\ Begun(m, "stop", "wrote")

(* restart: stopped and waited for where it is up, and then started. *)
RestartVerb(m) ==
    /\ Idle(m) /\ record.there
    /\ IF Holder(cores) = 0
       THEN Writes([record EXCEPT !.desired = "running"]) /\ Begun(m, "start", "wrote")
       ELSE Writes([record EXCEPT !.desired = "stopped"]) /\ Begun(m, "restart", "tell")

Waited(m) ==
    /\ At(m, "restart", "told")
    /\ Holder(cores) = 0 /\ record.there
    /\ Writes([record EXCEPT !.desired = "running"])
    /\ Turns(m, "start", "wrote")

(* remove, and create anew: the claim is looked at, and then the record    *)
(* goes; a record is created where none is.                                *)
RemoveVerb(m) ==
    /\ Idle(m) /\ record.there /\ Holder(cores) = 0
    /\ Begun(m, "remove", "removing")
    /\ UNCHANGED <<record, owed>>

Removes(m) ==
    /\ At(m, "remove", "removing")
    /\ Writes(Undeclared)
    /\ Goes(m, "done")

Creates(m) ==
    /\ Idle(m) /\ ~record.there
    /\ \E r \in Creatable : Writes(r) /\ Begun(m, "create", IF r.ephemeral THEN "tell" ELSE "done")

(* Whom it tells: a start the gate refuses, and a stop of what is not up,  *)
(* summon no guardian.                                                     *)
Looks(m) ==
    /\ manager[m].at = "wrote"
    /\ Goes(m, IF manager[m].verb = "stop" /\ Holder(cores) = 0 THEN "mention" ELSE "tell")
       \/ (manager[m].verb = "start" /\ Goes(m, "mention"))
    /\ UNCHANGED <<record, owed>>

Finds(m) ==
    /\ manager[m].at \in {"tell", "mention"}
    /\ \/ loop = "waiting" /\ Goes(m, "asking")
       \/ manager[m].at = "mention" /\ loop = "none" /\ Goes(m, "done")
    /\ UNCHANGED <<record, owed>>

(* The request is sent to the loop; once the guardian is leaving it is     *)
(* accepted and lost, and once it is gone refused.                         *)
Asks(m) ==
    /\ manager[m].at = "asking"
    /\ Goes(m, "told")
    /\ inbox' = (inbox \/ (loop \in {"boot", "first", "waiting"} /\ record.there))
    /\ UNCHANGED <<loop, watch, runs, timers, worldVars, record, owed>>

Manages(m) ==
    /\ \/ StartVerb(m) \/ StopVerb(m) \/ RestartVerb(m) \/ Waited(m) \/ RemoveVerb(m)
       \/ Removes(m) \/ Creates(m) \/ Looks(m) \/ Finds(m)
    /\ UNCHANGED <<daemonVars, worldVars>>

-------------------------------------------------------------------------------
Summoned == \E m \in Managers : manager[m].at = "tell"
Handles == First \/ Wake \/ Ended
Acting == Abandons \/ Crashes \/ Exits

GuardianNext ==
    \/ Begins(TRUE)
    \/ Summoned /\ Begins(FALSE)
    \/ Handles \/ Acting
    \/ \E t \in timers : Elapses(t)
    \/ ByHand
    \/ \E p \in DOMAIN cores :
          Claim(p) \/ Beat(p) \/ CoreEnds(p)
    \/ \E m \in Managers : Manages(m) \/ Asks(m)

Timely == \E t \in timers : t.kind = "kill" /\ Elapses(t)
GuardianFairness == WF_guardianVars(Handles) /\ WF_guardianVars(Timely)

GuardianSpec == GuardianInit /\ [][GuardianNext]_guardianVars /\ GuardianFairness

-------------------------------------------------------------------------------
Kinds == {"kill", "noBeat", "silence", "retry"}
GuardianTypeOK ==
    /\ record \in [there : BOOLEAN, desired : {"running", "stopped"}, failed : BOOLEAN,
                   ephemeral : BOOLEAN, autostart : BOOLEAN]
    /\ owed \in BOOLEAN
    /\ loop \in {"none", "boot", "first", "waiting", "leaving"}
    /\ watch \in [state : Active \cup {"none", "running", "refused"}, run : Nat,
                  core : 0..MaxCores, live : BOOLEAN, silent : BOOLEAN, ephemeral : BOOLEAN]
    /\ runs \in Nat
    /\ timers \subseteq [kind : Kinds, run : Nat, of : 0..MaxCores]
    /\ inbox \in BOOLEAN
    /\ cores \in Seq([at : {"executed", "claimed", "ended"}, slice : BOOLEAN, asked : BOOLEAN,
                      by : 0..MaxCores])
    /\ Len(cores) <= MaxCores
    /\ units \subseteq DOMAIN cores

(* What the record declares is acted on, whatever ended, elapsed or was    *)
(* told in between: once it was compared since it last changed, a guardian *)
(* that waits or leaves has the instance on its way up, waiting, refused   *)
(* or alive under somebody's claim where it is wanted, and has asked its   *)
(* Core to stop where it is not (reconcile, ended, idle).                  *)
RecordIsActedOn ==
    loop \in {"waiting", "leaving"} /\ ~owed =>
       IF Want(record, FALSE)
       THEN watch.state \in Active \cup {"refused", "running"}
       ELSE watch.live => watch.state = "stopping"

(* An instance that loses its Core loses everything that belonged to it    *)
(* once the guardian has heard of it, and what an earlier guardian's Core  *)
(* left is gone before the next is executed (empty, in start and in ended).*)
UnitsEndWithTheirCore ==
    /\ \A p, q \in units : p = q
    /\ loop = "waiting" /\ watch.live =>
         units \subseteq {watch.core}
    /\ loop \in {"waiting", "leaving"} /\ watch.state = "waiting" => units = {}

(* A timer that ends a Core ends the one it was set for: none left by an   *)
(* earlier execution is taken for the next one's, though a watch made      *)
(* again starts anew (guardian.runs, current).                             *)
KilledInItsOwnWindow == \A p \in DOMAIN cores : cores[p].by \in {0, p}

(* What an earlier incarnation left is never carried into the next: neither*)
(* its units nor its timers.                                               *)
NothingCarriedOver == UnitsEndWithTheirCore /\ KilledInItsOwnWindow

(* A Core that was asked to stop ends, though it hangs: its stop window    *)
(* ends it, unless the guardian itself ends first (stop, kill).            *)
AskedIsEnded ==
    \A p \in 1..MaxCores :
       (p = watch.core /\ watch.live /\ watch.state = "stopping" /\ cores[p].asked)
       ~> (~Live(cores, p) \/ loop = "none")

(* The guardian removes no record but an ephemeral one: a record that goes *)
(* and is declared is one a manager removed (ended).                       *)
OnlyEphemeralRemoved ==
    [][record.there /\ ~record.ephemeral /\ ~record'.there
       => \E m \in Managers : At(m, "remove", "removing") /\ manager'[m].at = "done"]_guardianVars
=================================================================================
