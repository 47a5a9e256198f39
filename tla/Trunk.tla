---------------------------------- MODULE Trunk ----------------------------------
(***************************************************************************)
(* The lives of one instance's Core (internal/core/trunk) over the state   *)
(* they share: from the guardian's gate through the eleven steps to the    *)
(* units, the stop that undoes them, a death at any point; what a dead one *)
(* leaves in the engine and under the root; and what a manager does to the *)
(* instance's state meanwhile (internal/instances).                        *)
(*                                                                         *)
(* A version has at most two units that matter here: a migration, a        *)
(* oneshot, and one that depends on it and writes the instance's data, in  *)
(* a container where the version names an image.  A step that fails before *)
(* readiness ends the process as a death does: the kernel gives the claim  *)
(* up, and nothing is undone.  The stores are state here, and no more; the *)
(* claim is Reclaim's, a manager's verbs on the record Guardian's, and     *)
(* what the units do Supervisor's.                                         *)
(***************************************************************************)
EXTENDS Naturals

CONSTANTS
    MaxRelease,   \* the versions are numbered from one
    Reads,        \* the versions whose data each declares it reads
    MigratesFrom, \* those its migration rewrites, {} where it has none
    Naming,       \* the versions that name an image
    Forms,        \* the deployment forms looked at
    MaxRuns,      \* BOUND: the Cores executed
    Overlaps      \* whether anything overtakes a start between its gate and its
                  \* claim, and a verb meets what a Core that died left running

Releases == 1..MaxRelease
Runs == 1..MaxRuns

ASSUME TrunkAssumption ==
    /\ MaxRelease \in Nat \ {0} /\ MaxRuns \in Nat
    /\ Reads \in [Releases -> SUBSET Releases]
    /\ MigratesFrom \in [Releases -> SUBSET Releases]
    /\ Naming \subseteq Releases
    /\ Forms \subseteq {"service", "application"}
    /\ Overlaps \in BOOLEAN

VARIABLES
    form,      \* the deployment form
    pinned,    \* the version the instance's record pins
    core,      \* each Core
    holder,    \* the Core whose claim is on the file at the root, 0 for none
    sockets,   \* whose sockets are under the root
    container, \* the container of each Core's unit, as the engine has it
    state,     \* the instance's state directory
    former,    \* the one a restore put aside
    staged,    \* the one it is making
    copied,    \* the copy somebody keeps
    verb       \* what the manager is doing

lifeVars == <<form, core, holder, sockets, container>>
dirVars == <<state, former, staged, copied>>
trunkVars == <<lifeVars, pinned, dirVars, verb>>

ReleaseOrNone == 0..MaxRelease

(* The version that stamped the directory, the one whose layout its data is *)
(* in, whether it is all there, and the Cores whose unit has it.            *)
Directories == [there : BOOLEAN, stamp : ReleaseOrNone, wrote : ReleaseOrNone,
                whole : BOOLEAN, users : SUBSET Runs]
NoDirectory == [there |-> FALSE, stamp |-> 0, wrote |-> 0, whole |-> TRUE, users |-> {}]

(* The step done last; the units are what the last one started. *)
Chain == {"gated", "logging", "claim", "debris", "stores", "inherited",
          "declarations", "channels", "ready", "units"}
StopChain == {"stopped", "closed", "removed"}
UnitStates == {"none", "migrating", "unmigrated", "launching", "faulted", "up"}
CoreState == [at : {"out", "over"} \cup Chain \cup StopChain, of : ReleaseOrNone,
              deployed : BOOLEAN, lastRan : ReleaseOrNone, unit : UnitStates]
NoCore == [at |-> "out", of |-> 0, deployed |-> FALSE, lastRan |-> 0, unit |-> "none"]

Alive(r) == core[r].at \notin {"out", "over"}
Stamped == {"ready", "units"} \cup StopChain

TrunkInit ==
    /\ form \in Forms
    /\ pinned = 1
    /\ core = [r \in Runs |-> NoCore]
    /\ holder = 0 /\ sockets = {}
    /\ container = [r \in Runs |-> "none"]
    /\ state = NoDirectory /\ former = NoDirectory
    /\ staged = NoDirectory /\ copied = NoDirectory
    /\ verb = [at |-> "none", of |-> 0]

Step(r, from, to) == core[r].at = from /\ core' = [core EXCEPT ![r].at = to]

-------------------------------------------------------------------------------
(* The chain.                                                              *)

(* Readable: no stamp admits anything. *)
Readable(v, stamp) == stamp = 0 \/ stamp \in Reads[v]

(* Mutant: the data range is not looked at. *)
GatedUnread(r) ==
    /\ core[r].at = "out" /\ \A q \in Runs : q < r => core[q].at # "out"
    /\ Overlaps \/ \A q \in Runs : core[q].at \in {"out", "over", "units", "stopped", "closed"}
    /\ Overlaps \/ verb.at \in {"none", "pinning"}
    /\ core' = [core EXCEPT ![r] = [NoCore EXCEPT !.at = "gated", !.of = pinned]]
    /\ UNCHANGED <<form, holder, sockets, container, pinned, dirVars, verb>>

(* GateStart: the guardian reads the record and the stamp.  The service    *)
(* form has neither, and is executed as it is configured.                  *)
Gated(r) ==
    /\ core[r].at = "out" /\ \A q \in Runs : q < r => core[q].at # "out"
    /\ Overlaps \/ \A q \in Runs : core[q].at \in {"out", "over", "units", "stopped", "closed"}
    /\ Overlaps \/ verb.at \in {"none", "pinning"}
    /\ form = "application" => Readable(pinned, state.stamp)
    /\ core' = [core EXCEPT ![r] = [NoCore EXCEPT !.at = "gated", !.of = pinned]]
    /\ UNCHANGED <<form, holder, sockets, container, pinned, dirVars, verb>>

(* Executed: identity and paths, parameters, logging. *)
Logging(r) ==
    /\ Step(r, "gated", "logging")
    /\ UNCHANGED <<form, holder, sockets, container, pinned, dirVars, verb>>

(* Claim: refused where another holds it, and then nothing was touched.  A *)
(* Core that has removed its root is about to exit.                        *)
ClaimsRoot(r) ==
    /\ holder = 0
    /\ Overlaps \/ \A q \in Runs : core[q].at # "removed"
    /\ Step(r, "logging", "claim")
    /\ holder' = r
    /\ UNCHANGED <<form, sockets, container, pinned, dirVars, verb>>

(* ClearDebris: all that is under the root but the claim. *)
ClearDebris(r) ==
    /\ Step(r, "claim", "debris")
    /\ sockets' = {}
    /\ UNCHANGED <<form, holder, container, pinned, dirVars, verb>>

Stores(r) ==
    /\ Step(r, "debris", "stores")
    /\ state' = [state EXCEPT !.there = TRUE]
    /\ UNCHANGED <<form, holder, sockets, container, pinned, former, staged, copied, verb>>

(* What the engine lists: a request it has not come to yet is not in it. *)
Listed(r) == {q \in Runs \ {r} : container[q] \in {"created", "starting", "running"}}
Without(gone) == [q \in Runs |-> IF q \in gone THEN "none" ELSE container[q]]
Unused(dir, gone) == [dir EXCEPT !.users = @ \ gone]

(* Mutant: a container that is not removed is passed over. *)
InheritedPassedOver(r) ==
    \E gone \in SUBSET Listed(r) :
      /\ core[r].at = "stores"
      /\ core' = [core EXCEPT ![r] = [@ EXCEPT !.at = "inherited", !.deployed = TRUE]]
      /\ container' = Without(gone)
      /\ state' = Unused(state, gone) /\ former' = Unused(former, gone)
      /\ UNCHANGED <<form, holder, sockets, pinned, staged, copied, verb>>

(* The composition is read, and refused or not; what an earlier life left  *)
(* in the engine is removed where the deployment names an image.  One that *)
(* is not removed is fatal: what was removed before it stays removed.      *)
Inherited(r) ==
    /\ core[r].at = "stores"
    /\ \E deployed \in BOOLEAN, gone \in SUBSET Listed(r) :
         /\ (~deployed \/ core[r].of \notin Naming) => gone = {}
         /\ core' = [core EXCEPT ![r] =
                       IF deployed /\ core[r].of \in Naming /\ gone # Listed(r)
                       THEN [@ EXCEPT !.at = "over"]
                       ELSE [@ EXCEPT !.at = "inherited", !.deployed = deployed]]
         /\ holder' = IF core'[r].at = "over" THEN 0 ELSE holder
         /\ container' = Without(gone)
         /\ state' = Unused(state, gone) /\ former' = Unused(former, gone)
    /\ UNCHANGED <<form, sockets, pinned, staged, copied, verb>>

(* A description refused is fatal in the application form alone. *)
Declarations(r) ==
    /\ core[r].deployed \/ form = "service"
    /\ Step(r, "inherited", "declarations")
    /\ UNCHANGED <<form, holder, sockets, container, pinned, dirVars, verb>>

BindsChannels(r) ==
    /\ Step(r, "declarations", "channels")
    /\ sockets' = sockets \cup {r}
    /\ UNCHANGED <<form, holder, container, pinned, dirVars, verb>>

(* stamp, and ready: the version that last ran is kept for the units. *)
Stamps(r) ==
    /\ core[r].at = "channels"
    /\ IF form = "application" /\ core[r].deployed
       THEN /\ core' = [core EXCEPT ![r] = [@ EXCEPT !.at = "ready", !.lastRan = state.stamp]]
            /\ state' = [state EXCEPT !.stamp = core[r].of]
       ELSE /\ core' = [core EXCEPT ![r].at = "ready"]
            /\ UNCHANGED state
    /\ UNCHANGED <<form, holder, sockets, container, pinned, former, staged, copied, verb>>

(* Migrations: one whose range does not admit the version that last ran is *)
(* Completed as it is, and what depends on it is launched.                 *)
StartsUnits(r) ==
    /\ core[r].at = "ready"
    /\ core' = [core EXCEPT ![r] =
                  [@ EXCEPT !.at = "units",
                            !.unit = CASE ~core[r].deployed -> "none"
                                       [] core[r].deployed /\ core[r].lastRan \in MigratesFrom[core[r].of]
                                            -> "migrating"
                                       [] OTHER -> "launching"]]
    /\ UNCHANGED <<form, holder, sockets, container, pinned, dirVars, verb>>

(* The process exits or dies, or a step fails.  A unit on the host goes    *)
(* with it, and what the engine was asked for is the engine's.             *)
Dies(r) ==
    /\ Alive(r)
    /\ core' = [core EXCEPT ![r] = [@ EXCEPT !.at = "over", !.unit = "none"]]
    /\ holder' = IF holder = r THEN 0 ELSE holder
    /\ state' = IF container[r] = "running" THEN state ELSE Unused(state, {r})
    /\ UNCHANGED <<form, sockets, container, pinned, former, staged, copied, verb>>

Starts(r) ==
    \/ Gated(r) \/ Logging(r) \/ ClaimsRoot(r) \/ ClearDebris(r) \/ Stores(r)
    \/ Inherited(r) \/ Declarations(r) \/ BindsChannels(r) \/ Stamps(r)
    \/ StartsUnits(r) \/ Dies(r)

-------------------------------------------------------------------------------
(* The units, and the engine.                                              *)

UnitIs(r, from, to) ==
    /\ core[r].at = "units" /\ core[r].unit = from
    /\ core' = [core EXCEPT ![r].unit = to]

(* The migration rewrites the data, or fails, and is tried again. *)
Migrates(r) ==
    /\ \/ UnitIs(r, "migrating", "launching") /\ state' = [state EXCEPT !.wrote = core[r].of]
       \/ UnitIs(r, "migrating", "unmigrated") /\ UNCHANGED state
       \/ UnitIs(r, "unmigrated", "migrating") /\ UNCHANGED state
       \/ UnitIs(r, "faulted", "launching") /\ UNCHANGED state
    /\ UNCHANGED <<form, holder, sockets, container, pinned, former, staged, copied, verb>>

(* On the host, or by asking the engine for a container. *)
Launches(r) ==
    /\ \/ /\ core[r].of \notin Naming
          /\ UnitIs(r, "launching", "up")
          /\ state' = [state EXCEPT !.users = @ \cup {r}]
          /\ UNCHANGED container
       \/ /\ core[r].of \in Naming /\ container[r] = "none"
          /\ UnitIs(r, "launching", "launching")
          /\ container' = [container EXCEPT ![r] = "asked"]
          /\ UNCHANGED state
    /\ UNCHANGED <<form, holder, sockets, pinned, former, staged, copied, verb>>

ContainerGoes(r, from, to) ==
    /\ container[r] = from
    /\ container' = [container EXCEPT ![r] = to]

(* The engine comes to what it was asked, whoever asked still there or not. *)
EngineActs(r) ==
    /\ \/ ContainerGoes(r, "asked", "created") /\ UNCHANGED state
       \/ /\ state.there /\ ContainerGoes(r, "starting", "running")
          /\ state' = [state EXCEPT !.users = @ \cup {r}]
    /\ UNCHANGED <<form, core, holder, sockets, pinned, former, staged, copied, verb>>

(* Created, it is started, a stop begun meanwhile or not; started, it is   *)
(* the unit's, or it is killed.                                            *)
Follows(r) ==
    /\ Alive(r)
    /\ \/ ContainerGoes(r, "created", "starting") /\ UNCHANGED <<core, state>>
       \/ /\ container[r] = "running" /\ UnitIs(r, "launching", "up")
          /\ UNCHANGED <<container, state>>
       \/ /\ core[r].at \in StopChain /\ ContainerGoes(r, "running", "none")
          /\ state' = Unused(state, {r})
          /\ UNCHANGED core
    /\ UNCHANGED <<form, holder, sockets, pinned, former, staged, copied, verb>>

(* The engine fails, or the unit ends. *)
Faults(r) ==
    /\ \/ /\ core[r].of \in Naming /\ container[r] # "none"
          /\ \E u \in {"launching", "up"} : UnitIs(r, u, "faulted")
       \/ core[r].of \notin Naming /\ UnitIs(r, "up", "faulted")
    /\ container' = [container EXCEPT ![r] = "none"]
    /\ state' = Unused(state, {r})
    /\ UNCHANGED <<form, holder, sockets, pinned, former, staged, copied, verb>>

(* A unit writes the data it was given, its Core there or not. *)
WritesData(r) ==
    /\ r \in state.users
    /\ state' = [state EXCEPT !.wrote = core[r].of]
    /\ UNCHANGED <<lifeVars, pinned, former, staged, copied, verb>>

Works(r) ==
    Migrates(r) \/ Launches(r) \/ EngineActs(r) \/ Follows(r) \/ Faults(r) \/ WritesData(r)

-------------------------------------------------------------------------------
(* Stop, in the reverse of the order of the steps: the units, what was     *)
(* bound, and the stores; the root; the claim.                             *)

(* A launch under way is superseded, and not waited for. *)
StopsUnits(r) ==
    /\ core[r].at = "units"
    /\ core' = [core EXCEPT ![r] = [@ EXCEPT !.at = "stopped", !.unit = "none"]]
    /\ container' = IF core[r].unit = "up" THEN [container EXCEPT ![r] = "none"] ELSE container
    /\ state' = IF container'[r] = "running" THEN state ELSE Unused(state, {r})
    /\ UNCHANGED <<form, holder, sockets, pinned, former, staged, copied, verb>>

Closes(r) ==
    /\ Step(r, "stopped", "closed")
    /\ sockets' = sockets \ {r}
    /\ UNCHANGED <<form, holder, container, pinned, dirVars, verb>>

(* The lock file goes with the rest of the root: another may be claimed at *)
(* its path before this Core gives its own up.                             *)
RemovesRoot(r) ==
    /\ Step(r, "closed", "removed")
    /\ sockets' = {}
    /\ holder' = 0
    /\ UNCHANGED <<form, container, pinned, dirVars, verb>>

Stops(r) == StopsUnits(r) \/ Closes(r) \/ RemovesRoot(r)

-------------------------------------------------------------------------------
(* The manager.                                                            *)

VerbIs(at) == verb' = [verb EXCEPT !.at = at]
VerbEnds == verb' = [at |-> "none", of |-> 0]

(* stopped: nobody holds the claim, which says nothing of the containers.  *)
BeginsVerb(at) ==
    /\ form = "application" /\ verb.at = "none" /\ holder = 0
    /\ Overlaps \/ \A r \in Runs : ~Alive(r) /\ container[r] \notin {"starting", "running"}
    /\ VerbIs(at)
    /\ UNCHANGED <<lifeVars, pinned, dirVars>>

(* SetVersion: what the version reads is looked at, and the pin written. *)
SetVersion ==
    /\ \/ /\ form = "application" /\ verb.at = "none"
          /\ \E v \in Releases : /\ Readable(v, state.stamp)
                                 /\ verb' = [at |-> "pinning", of |-> v]
          /\ UNCHANGED pinned
       \/ /\ verb.at = "pinning"
          /\ pinned' = verb.of
          /\ VerbEnds
    /\ UNCHANGED <<lifeVars, dirVars>>

Copies ==
    /\ verb.at = "copying"
    /\ copied' = [state EXCEPT !.there = TRUE, !.users = {}]
    /\ VerbEnds
    /\ UNCHANGED <<lifeVars, pinned, state, former, staged>>

(* RemoveAll, in any order: the stamp, or the data, may go before the rest. *)
Clears ==
    /\ verb.at = "clearing"
    /\ \/ state' \in {[state EXCEPT !.stamp = 0, !.whole = FALSE],
                      [state EXCEPT !.wrote = 0, !.whole = FALSE]} /\ UNCHANGED verb
       \/ state' = NoDirectory /\ VerbEnds
    /\ UNCHANGED <<lifeVars, pinned, former, staged, copied>>

(* Restore: the copy is made beside the state, whole, or not at all. *)
Stages ==
    /\ \/ /\ verb.at = "restoring" /\ copied.there
          /\ staged' = [copied EXCEPT !.whole = FALSE]
          /\ VerbIs("staging")
       \/ verb.at = "staging" /\ staged' = copied /\ VerbIs("staged")
       \/ verb.at = "staging" /\ staged' = NoDirectory /\ VerbEnds
    /\ UNCHANGED <<lifeVars, pinned, state, former, copied>>

(* What an earlier restore put aside goes, and then the state is put aside. *)
PutsAside ==
    /\ verb.at = "staged"
    /\ \/ /\ former' = state /\ state' = NoDirectory
          /\ UNCHANGED staged
          /\ VerbIs("aside")
       \/ /\ former' = NoDirectory /\ staged' = NoDirectory
          /\ UNCHANGED state
          /\ VerbEnds
    /\ UNCHANGED <<lifeVars, pinned, copied>>

(* Mutant: what was put aside is not put back. *)
SwapsOrFails ==
    /\ verb.at = "aside"
    /\ \/ state' = staged /\ staged' = NoDirectory /\ UNCHANGED former
          /\ VerbIs("restored")
       \/ UNCHANGED <<former, state, staged>> /\ VerbEnds
    /\ UNCHANGED <<lifeVars, pinned, copied>>

(* It takes the state's place, or what was put aside is put back. *)
Swaps ==
    /\ verb.at = "aside"
    /\ \/ state' = staged /\ staged' = NoDirectory /\ UNCHANGED former
          /\ VerbIs("restored")
       \/ /\ state' = former /\ former' = NoDirectory /\ UNCHANGED staged
          /\ VerbEnds
    /\ UNCHANGED <<lifeVars, pinned, copied>>

(* What was put aside goes, or some of it stays where that fails. *)
Tidies ==
    /\ verb.at = "restored"
    /\ former' \in {NoDirectory, [former EXCEPT !.whole = FALSE]}
    /\ VerbEnds
    /\ UNCHANGED <<lifeVars, pinned, state, staged, copied>>

RunsVerbs ==
    \/ \E at \in {"copying", "clearing", "restoring"} : BeginsVerb(at)
    \/ SetVersion \/ Copies \/ Clears \/ Stages \/ PutsAside \/ Swaps \/ Tidies

-------------------------------------------------------------------------------
TrunkNext ==
    \/ \E r \in Runs : Starts(r) \/ Works(r) \/ Stops(r)
    \/ RunsVerbs

TrunkSpec == TrunkInit /\ [][TrunkNext]_trunkVars

-------------------------------------------------------------------------------
(* Every variable has its type. *)
TrunkTypeOK ==
    /\ form \in Forms /\ pinned \in Releases
    /\ core \in [Runs -> CoreState]
    /\ holder \in 0..MaxRuns /\ sockets \subseteq Runs
    /\ container \in [Runs -> {"none", "asked", "created", "starting", "running"}]
    /\ {state, former, staged, copied} \subseteq Directories
    /\ verb \in [at : {"none", "pinning", "copying", "clearing", "restoring",
                       "staging", "staged", "aside", "restored"}, of : ReleaseOrNone]

(* What an earlier life left is gone before the units are launched         *)
(* (inherited, ClearDebris): once a Core whose deployment names an image   *)
(* is ready, no socket under the root is another's, and no container of    *)
(* another life runs or will, whatever request of a Core that died the     *)
(* engine came to late.                                                    *)
NothingInherited ==
    \A r \in Runs :
        /\ core[r].at \in {"channels", "ready", "units"} => sockets = {r}
        /\ (/\ core[r].at \in {"ready", "units"}
            /\ core[r].deployed /\ core[r].of \in Naming)
             => \A q \in Runs \ {r} : container[q] \notin {"starting", "running"}

(* The version that ran last before this one is one it reads, and while    *)
(* anything of a version has the state, its stamp is that version's, so    *)
(* the next one is weighed against who wrote last (stamp, Readable),       *)
(* whatever is re-pointed, restored or cleared between two lives.          *)
StateIsReadable ==
    form = "application" =>
        /\ \A r \in Runs :
             core[r].at \in Stamped => Readable(core[r].of, core[r].lastRan)
        /\ \A r \in state.users : state.stamp = core[r].of

(* Restore replaces the state or leaves it: however one of its steps fails, *)
(* when it is over what is at the state's path is whole, and the state is   *)
(* never left only where it was put aside.                                  *)
StateIsKept ==
    verb.at = "none" => /\ state.whole
                        /\ former.there /\ former.whole => state.there

(* "A Core on a bundle runs the migration once, across the version it      *)
(* rewrites": what depends on a migration runs on data it has rewritten.   *)
MigrationRan ==
    \A r \in Runs :
        core[r].unit = "up" => state.wrote \notin MigratesFrom[core[r].of]
===============================================================================
