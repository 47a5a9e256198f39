--------------------------------- MODULE Reclaim ---------------------------------
(***************************************************************************)
(* What is installed, what pins it and what removes it: the versions of    *)
(* one application in the install root (internal/installroot, install), the*)
(* instances' records that point at them (internal/instances,              *)
(* instancerecord), and the removals and the reclaiming pass               *)
(* (internal/reclaim), which also takes the claims of instances that no    *)
(* Core serves and removes their runtime directories (core/instance).      *)
(* Everybody is a process of its own over the same files: every access to  *)
(* them is a step, and any process may die between two.                    *)
(*                                                                         *)
(* Left out: the gate and every other check that refuses before anything   *)
(* is written, images, ephemeral records, and pre-releases, which are      *)
(* never collected.                                                        *)
(***************************************************************************)
EXTENDS Naturals, FiniteSets

CONSTANTS
    MaxVersion,   \* the versions are numbered from one
    Installers,   \* the installations, one version each
    Instances,    \* the instances that may be declared
    Pinners,      \* the calls that create or re-point one
    Removers,     \* the removals and passes
    Cores,        \* the Cores executed for one more instance
    Sweepers,     \* the passes over its runtime directory
    MaxFiles      \* bounds the lock files made

ASSUME ReclaimAssumption == MaxVersion \in Nat /\ MaxFiles \in Nat

VARIABLES
    tree,      \* each version's directory: its record and its bundle
    pins,      \* the version each instance is pinned to, 0 for none
    installer, \* each installation
    pinner,    \* each call that pins
    remover,   \* each removal
    late,      \* history: the instances whose pin no look can see any more
    shared,    \* history: the versions two of them were at at once
    lockFile,  \* the lock file at the instance's path, 0 for none
    made,      \* how many were made
    claim,     \* each Core and pass: the file it opened or holds
    overtaken  \* history: a claim is held that was taken on a file which was
               \* at the path no more

treeVars == <<tree, pins, installer, pinner, remover, late, shared>>
lockVars == <<lockFile, made, claim, overtaken>>
reclaimVars == <<treeVars, lockVars>>

Versions == 1..MaxVersion
Absent == [there |-> FALSE, record |-> "none", bundle |-> "none"]

ReclaimInit ==
    /\ tree = [v \in Versions |-> Absent]
    /\ pins = [n \in Instances |-> 0]
    /\ installer = [i \in Installers |-> [at |-> "out", of |-> 0]]
    /\ pinner = [p \in Pinners |-> [at |-> "out", of |-> 0]]
    /\ remover = [r \in Removers |-> [at |-> "out", of |-> 0, was |-> "none"]]
    /\ late = {}
    /\ shared = {}
    /\ lockFile = 0
    /\ made = 0
    /\ overtaken = FALSE
    /\ claim = [p \in Cores \cup Sweepers |-> [at |-> "out", of |-> 0]]

PointingAt(v) == {n \in Instances : pins[n] = v}

Installing(v) == \E i \in Installers :
    installer[i].of = v /\ installer[i].at \notin {"out", "failed", "done"}

Removing(v) == \E r \in Removers :
    remover[r].of = v /\ remover[r].at \notin {"out", "refused", "done", "dead"}

(* Nothing keeps installations and removals of a version apart but the     *)
(* directory an installation makes; what the properties say of a version   *)
(* ends where two of them are at it at once.                               *)
Shares(v) == shared' = IF Installing(v) \/ Removing(v) THEN shared \cup {v} ELSE shared

-------------------------------------------------------------------------------
(* An installation: the directory, made exclusively, the record that says  *)
(* incomplete, the bundle, and the record that says complete.              *)
InstallerGoes(i, at) == installer' = [installer EXCEPT ![i].at = at]
ByInstaller == UNCHANGED <<pins, pinner, remover, late, lockVars>>

Begin(i, v) ==
    /\ installer[i].at = "out" /\ ~tree[v].there
    /\ tree' = [tree EXCEPT ![v].there = TRUE]
    /\ installer' = [installer EXCEPT ![i] = [at |-> "begun", of |-> v]]
    /\ Shares(v)
    /\ ByInstaller

(* A record is written beside a bundle that is still there. *)
Write(i, from, record, to) ==
    LET v == installer[i].of IN
    /\ installer[i].at = from
    /\ IF tree[v].there
       THEN tree' = [tree EXCEPT ![v].record = record] /\ InstallerGoes(i, to)
       ELSE UNCHANGED tree /\ InstallerGoes(i, "failed")
    /\ UNCHANGED shared
    /\ ByInstaller

(* Every directory on the way to an entry is made where it is not there,   *)
(* the version's own among them; what went meanwhile is not written again. *)
Expand(i) ==
    LET v == installer[i].of
        second == installer[i].at = "expanding"
    IN
    /\ installer[i].at \in {"incomplete", "expanding"}
    /\ \E b \in IF second /\ tree[v].bundle = "part" THEN {"part", "whole"} ELSE {"part"} :
          tree' = [tree EXCEPT ![v] = [@ EXCEPT !.there = TRUE, !.bundle = b]]
    /\ InstallerGoes(i, IF second THEN "expanded" ELSE "expanding")
    /\ UNCHANGED shared
    /\ ByInstaller

(* Every component against the digest the descriptor states. *)
Components(i) ==
    /\ installer[i].at = "expanded"
    /\ InstallerGoes(i, IF tree[installer[i].of].bundle = "whole" THEN "checked" ELSE "failed")
    /\ UNCHANGED <<tree, shared>>
    /\ ByInstaller

InstallFails(i) ==
    /\ installer[i].at \in {"begun", "incomplete", "expanding", "expanded", "checked"}
    /\ InstallerGoes(i, "failed")
    /\ UNCHANGED <<tree, shared>>
    /\ ByInstaller

Install(i) ==
    \/ \E v \in Versions : Begin(i, v)
    \/ Write(i, "begun", "incomplete", "incomplete")
    \/ Expand(i) \/ Components(i)
    \/ Write(i, "checked", "complete", "done")
    \/ InstallFails(i)

-------------------------------------------------------------------------------
(* A pin: a complete version is found, and the instance's record written.  *)
(* It comes too late for a version that is not as it was found, or that a  *)
(* removal is past its last look at, or is to put back as what it listed.  *)
ByPinner == UNCHANGED <<tree, installer, remover, shared, lockVars>>

Overlooks(r, v) ==
    /\ remover[r].of = v
    /\ \/ remover[r].at = "removing"
       \/ remover[r].at = "withdrawing" /\ tree[v].record = "withdrawn"
       \/ remover[r].at \in {"looking", "restoring"} /\ remover[r].was # "complete"

TooLate(v) ==
    \/ tree[v].bundle # "whole" \/ tree[v].record \notin {"complete", "withdrawn"}
    \/ \E r \in Removers : Overlooks(r, v)

Pinnable(p, v) ==
    /\ pinner[p].at = "out" /\ tree[v].record = "complete"
    /\ pinner' = [pinner EXCEPT ![p] = [at |-> "found", of |-> v]]
    /\ UNCHANGED <<pins, late>>
    /\ ByPinner

Pin(p, n) ==
    /\ pinner[p].at = "found"
    /\ pins' = [pins EXCEPT ![n] = pinner[p].of]
    /\ late' = IF TooLate(pinner[p].of) THEN late \cup {n} ELSE late \ {n}
    /\ pinner' = [pinner EXCEPT ![p].at = "done"]
    /\ ByPinner

(* An instance is removed. *)
Undeclare(n) ==
    /\ pins[n] # 0
    /\ pins' = [pins EXCEPT ![n] = 0]
    /\ late' = late \ {n}
    /\ UNCHANGED pinner
    /\ ByPinner

-------------------------------------------------------------------------------
(* A removal, or the pass over what is collectable. *)
ByRemover == UNCHANGED <<pins, installer, pinner, late, lockVars>>
RemoverGoes(r, at) == remover' = [remover EXCEPT ![r].at = at]

Incomplete(v) == tree[v].there /\ tree[v].record \in {"none", "incomplete"}
Superseded(v) == /\ tree[v].record = "complete"
                 /\ \E w \in Versions : w > v /\ tree[w].record = "complete"

(* What was listed is remembered as it was. *)
Lists(r, v) ==
    /\ remover[r].at = "out" /\ tree[v].there
    /\ Shares(v)
    /\ \/ remover' = [remover EXCEPT ![r] = [at |-> "named", of |-> v, was |-> tree[v].record]]
       \/ /\ Incomplete(v) \/ Superseded(v)
          /\ remover' = [remover EXCEPT ![r] = [at |-> "listed", of |-> v, was |-> tree[v].record]]
    /\ UNCHANGED tree
    /\ ByRemover

(* The first look: what is pinned is kept, but an install that was         *)
(* incomplete when it was listed goes on to the second.  It is the last at  *)
(* what an earlier removal left withdrawn.                                 *)
FirstLook(r) ==
    LET v == remover[r].of IN
    /\ remover[r].at \in {"named", "listed"}
    /\ RemoverGoes(r, IF /\ PointingAt(v) # {}
                         /\ remover[r].at = "named" \/ remover[r].was = "complete"
                      THEN "refused" ELSE "withdrawing")
    /\ UNCHANGED <<tree, shared>>
    /\ ByRemover

(* withdraw: the record says withdrawn, or there is none to say it. *)
Withdraw(r) ==
    LET v == remover[r].of IN
    /\ remover[r].at = "withdrawing"
    /\ IF tree[v].record \in {"none", "withdrawn"}
       THEN UNCHANGED tree /\ RemoverGoes(r, "removing")
       ELSE /\ tree' = [tree EXCEPT ![v].record = "withdrawn"]
            /\ remover' = [remover EXCEPT ![r] = [@ EXCEPT !.at = "looking", !.was = tree[v].record]]
    /\ UNCHANGED shared
    /\ ByRemover

(* Mutant: what was looked at is not looked at again. *)
LooksOnce(r) ==
    /\ remover[r].at = "looking"
    /\ RemoverGoes(r, "removing")
    /\ UNCHANGED <<tree, shared>>
    /\ ByRemover

(* Nothing has pinned it meanwhile, or the record is to be put back. *)
SecondLook(r) ==
    LET v == remover[r].of IN
    /\ remover[r].at = "looking"
    /\ RemoverGoes(r, IF PointingAt(v) # {} THEN "restoring" ELSE "removing")
    /\ UNCHANGED <<tree, shared>>
    /\ ByRemover

PutBack(r) ==
    LET v == remover[r].of IN
    /\ remover[r].at = "restoring"
    /\ tree' = IF tree[v].there THEN [tree EXCEPT ![v].record = remover[r].was] ELSE tree
    /\ RemoverGoes(r, "refused")
    /\ UNCHANGED shared
    /\ ByRemover

(* What is in the directory goes in any order, and the directory last; one *)
(* that is not empty by then stays.                                        *)
RemoveAll(r) ==
    LET v == remover[r].of IN
    /\ remover[r].at = "removing"
    /\ \/ /\ tree[v].bundle # "none"
          /\ tree' \in {[tree EXCEPT ![v].bundle = b] : b \in {"part", "none"}}
          /\ UNCHANGED remover
       \/ /\ tree[v].record # "none"
          /\ tree' = [tree EXCEPT ![v].record = "none"]
          /\ UNCHANGED remover
       \/ /\ tree[v].bundle = "none" /\ tree[v].record = "none"
          /\ tree' = [tree EXCEPT ![v] = Absent]
          /\ RemoverGoes(r, "done")
    /\ UNCHANGED shared
    /\ ByRemover

RemoverDies(r) ==
    /\ remover[r].at \notin {"out", "done", "refused", "dead"}
    /\ RemoverGoes(r, "dead")
    /\ UNCHANGED <<tree, shared>>
    /\ ByRemover

Remove(r) ==
    \/ \E v \in Versions : Lists(r, v)
    \/ FirstLook(r) \/ Withdraw(r) \/ SecondLook(r) \/ PutBack(r) \/ RemoveAll(r)
    \/ RemoverDies(r)

-------------------------------------------------------------------------------
(* The claim of one instance: a lock on the file at its path, held for the *)
(* file that was opened, whatever the path names since, until it is given   *)
(* up or the process dies.                                                 *)
Claimants == Cores \cup Sweepers
HoldsFile(p) == claim[p].at \in {"holds", "removed"}
HolderOf(f) == {p \in Claimants : HoldsFile(p) /\ claim[p].of = f}

(* Open: the file is made where there is none; a pass only looks at a      *)
(* directory that has one.                                                 *)
Open(p) ==
    /\ claim[p].at = "out"
    /\ IF lockFile # 0
       THEN /\ UNCHANGED <<lockFile, made>>
            /\ claim' = [claim EXCEPT ![p] = [at |-> "opened", of |-> lockFile]]
       ELSE /\ p \in Cores /\ made < MaxFiles
            /\ made' = made + 1
            /\ lockFile' = made + 1
            /\ claim' = [claim EXCEPT ![p] = [at |-> "opened", of |-> made + 1]]
    /\ UNCHANGED <<overtaken, treeVars>>

(* Nothing asks whether the file that was opened is still at the path.     *)
Lock(p) ==
    LET free == HolderOf(claim[p].of) = {} IN
    /\ claim[p].at = "opened"
    /\ claim' = [claim EXCEPT ![p].at = IF free THEN "holds" ELSE "refused"]
    /\ overtaken' = (overtaken \/ (free /\ claim[p].of # lockFile))
    /\ UNCHANGED <<lockFile, made, treeVars>>

(* Mutant: a pass removes without taking the claim. *)
RemoveUnclaimed(p) ==
    /\ \/ claim[p].at = "holds"
       \/ p \in Sweepers /\ claim[p].at = "opened"
    /\ lockFile' = 0
    /\ claim' = [claim EXCEPT ![p].at = "removed"]
    /\ UNCHANGED <<made, overtaken, treeVars>>

(* The directory goes with the lock file that is in it, under the claim: a  *)
(* pass removes what nobody serves, and a Core that stops undoes its claim  *)
(* last of all, the directory before the claim.                            *)
RemoveRoot(p) ==
    /\ claim[p].at = "holds"
    /\ lockFile' = 0
    /\ claim' = [claim EXCEPT ![p].at = "removed"]
    /\ UNCHANGED <<made, overtaken, treeVars>>

(* A claim is given up by its holder, or by the kernel as it dies, with the *)
(* directory removed or not.                                               *)
Release(p) ==
    /\ claim[p].at \in {"holds", "removed", "refused"}
    /\ claim' = [claim EXCEPT ![p] = [at |-> "out", of |-> 0]]
    /\ overtaken' = (overtaken /\ \E q \in Claimants \ {p} : HoldsFile(q))
    /\ UNCHANGED <<lockFile, made, treeVars>>

Claims(p) == Open(p) \/ Lock(p) \/ RemoveRoot(p) \/ Release(p)

-------------------------------------------------------------------------------
InstalledNext ==
    \/ \E i \in Installers : Install(i)
    \/ \E p \in Pinners, v \in Versions : Pinnable(p, v)
    \/ \E p \in Pinners, n \in Instances : Pin(p, n)
    \/ \E n \in Instances : Undeclare(n)
    \/ \E r \in Removers : Remove(r)

ReclaimNext == InstalledNext \/ \E p \in Claimants : Claims(p)

ReclaimSpec == ReclaimInit /\ [][ReclaimNext]_reclaimVars

-------------------------------------------------------------------------------
ReclaimTypeOK ==
    /\ tree \in [Versions -> [there : BOOLEAN,
                              record : {"none", "incomplete", "complete", "withdrawn"},
                              bundle : {"none", "part", "whole"}]]
    /\ pins \in [Instances -> 0..MaxVersion]
    /\ late \subseteq Instances /\ shared \subseteq Versions
    /\ lockFile \in 0..made /\ made \in 0..MaxFiles /\ overtaken \in BOOLEAN
    /\ \A p \in Claimants : claim[p].of \in 0..made

CompleteIsWhole == \A v \in Versions \ shared :
    tree[v].record = "complete" => tree[v].bundle = "whole"

PinnedIsWhole == \A n \in Instances \ late :
    LET v == pins[n] IN
    v \notin {0} \cup shared =>
       /\ tree[v].bundle = "whole"
       /\ tree[v].record \in {"complete", "withdrawn"}

(* What may be pinned is whole: however an installation or a removal ends, *)
(* at whatever step it dies, no record says complete beside a bundle that  *)
(* is not (Install's numbered steps).  And what is pinned stays: a pin     *)
(* written before the last look of whoever is removing the version is seen *)
(* by one look or the other, and the record then put back, or left         *)
(* withdrawn by a removal that died (withdraw).  Nothing is said of a      *)
(* version two of them were at at once, nor of a pin that came too late.   *)
InstalledIsWhole == CompleteIsWhole /\ PinnedIsWhole

(* One Core serves the instance, and whoever asks who holds the claim is   *)
(* answered with it: who removes the file holds the claim on it, so that   *)
(* none serves under a file that is at the path no more (Claim, claim,     *)
(* runtimes), unless a claim was taken on a file that was removed between  *)
(* the opening and the lock, and until all that hold one then are gone.    *)
(* A Core that has removed its directory serves nothing any more.          *)
OneServes == ~overtaken =>
    \A p \in Cores : claim[p].at = "holds" =>
       /\ claim[p].of = lockFile
       /\ \A q \in Cores : claim[q].at = "holds" => q = p
=================================================================================
