----------------------------- MODULE AccountProofs ------------------------------
(***************************************************************************)
(* The account's parts, for every number of processes, of versions and of  *)
(* lives: that one Core serves an instance, what is installed is whole and *)
(* what is pinned stays, but for what was overtaken; that the guardian     *)
(* acts on what the record declares and carries nothing from one Core to   *)
(* the next; and, of the lives of a Core over its state, that nothing      *)
(* inherited runs beside one that is ready, that the data stay readable    *)
(* and that a restore replaces the state or leaves it.                     *)
(***************************************************************************)
EXTENDS Guardian, Reclaim, Trunk, SequenceTheorems, TLAPS

--------------------------------------------------------------------------------
(* The claim of an instance.  A file is held by one at most; and where no  *)
(* claim was taken on a file that is at the path no more, who holds one    *)
(* and has not removed it holds the one at the path.                       *)

ClaimsTyped ==
    /\ lockFile \in Nat /\ made \in Nat /\ lockFile <= made /\ overtaken \in BOOLEAN
    /\ claim \in [Claimants -> [at : {"out", "opened", "holds", "refused", "removed"}, of : Nat]]

OpenedIsAFile == \A p \in Claimants : claim[p].at = "opened" => claim[p].of # 0

OneHoldsAFile ==
    \A p, q \in Claimants : HoldsFile(p) /\ HoldsFile(q) /\ claim[p].of = claim[q].of => p = q

HeldIsCurrent == ~overtaken =>
    \A p \in Claimants : claim[p].at = "holds" => claim[p].of = lockFile /\ lockFile # 0

ClaimsInv == ClaimsTyped /\ OpenedIsAFile /\ OneHoldsAFile /\ HeldIsCurrent

(* A claim opens, waits, is held and is given up within its types.         *)
LEMMA ClaimsStep ==
    ASSUME ClaimsInv, NEW p \in Claimants, Claims(p)
    PROVE  ClaimsInv'
<1> USE DEF ClaimsInv
<1>1. CASE Open(p)
  <2>1. claim' = [claim EXCEPT ![p] = [at |-> "opened", of |-> lockFile']] /\ lockFile' # 0
    BY <1>1 DEF Open, ClaimsTyped
  <2>2. ClaimsTyped'
    BY <1>1, <2>1 DEF Open, ClaimsTyped
  <2>3. OpenedIsAFile' /\ OneHoldsAFile'
    BY <2>1 DEF ClaimsTyped, OpenedIsAFile, OneHoldsAFile, HoldsFile
  <2>4. HeldIsCurrent'
    BY <1>1, <2>1 DEF Open, ClaimsTyped, HeldIsCurrent
  <2> QED BY <2>2, <2>3, <2>4
<1>2. CASE Lock(p)
  <2>1. PICK to \in {"holds", "refused"} :
            /\ claim' = [claim EXCEPT ![p].at = to]
            /\ to = "holds" => HolderOf(claim[p].of) = {} /\ (~overtaken' => claim[p].of = lockFile)
            /\ ~overtaken' => ~overtaken
    BY <1>2 DEF Lock
  <2>2. claim[p].at = "opened" /\ UNCHANGED <<lockFile, made>> /\ overtaken' \in BOOLEAN
    BY <1>2 DEF Lock, ClaimsTyped
  <2>3. ClaimsTyped' /\ OpenedIsAFile'
    BY <2>1, <2>2 DEF ClaimsTyped, OpenedIsAFile
  <2>4. ASSUME to = "holds", NEW q \in Claimants, HoldsFile(q), claim[q].of = claim[p].of
        PROVE  FALSE
    BY <2>1, <2>4 DEF HolderOf
  <2>5. OneHoldsAFile'
    BY <2>1, <2>2, <2>4 DEF ClaimsTyped, OneHoldsAFile, HoldsFile
  <2>6. HeldIsCurrent'
    BY <2>1, <2>2 DEF ClaimsTyped, HeldIsCurrent, OpenedIsAFile
  <2> QED BY <2>3, <2>5, <2>6
<1>3. CASE RemoveRoot(p)
  <2>1. /\ claim[p].at = "holds" /\ claim' = [claim EXCEPT ![p].at = "removed"]
        /\ lockFile' = 0 /\ UNCHANGED <<made, overtaken>>
    BY <1>3 DEF RemoveRoot
  <2>2. ClaimsTyped' /\ OpenedIsAFile'
    BY <2>1 DEF ClaimsTyped, OpenedIsAFile
  <2>3. OneHoldsAFile'
    BY <2>1 DEF ClaimsTyped, OneHoldsAFile, HoldsFile
  <2>4. ASSUME ~overtaken, NEW q \in Claimants, claim[q].at = "holds"
        PROVE  q = p
    BY <2>1, <2>4 DEF HeldIsCurrent, OneHoldsAFile, HoldsFile
  <2>5. HeldIsCurrent'
    BY <2>1, <2>4 DEF ClaimsTyped, HeldIsCurrent
  <2> QED BY <2>2, <2>3, <2>5
<1>4. CASE Release(p)
  <2>1. /\ claim' = [claim EXCEPT ![p] = [at |-> "out", of |-> 0]]
        /\ UNCHANGED <<lockFile, made>> /\ overtaken' \in BOOLEAN
        /\ overtaken /\ ~overtaken' => \A q \in Claimants \ {p} : ~HoldsFile(q)
    BY <1>4 DEF Release, ClaimsTyped
  <2>2. ClaimsTyped' /\ OpenedIsAFile'
    BY <2>1 DEF ClaimsTyped, OpenedIsAFile
  <2>3. OneHoldsAFile'
    BY <2>1 DEF ClaimsTyped, OneHoldsAFile, HoldsFile
  <2>4. HeldIsCurrent'
    BY <2>1 DEF ClaimsTyped, HeldIsCurrent, HoldsFile
  <2> QED BY <2>2, <2>3, <2>4
<1> QED BY <1>2, <1>1, <1>3, <1>4 DEF Claims

(* What is done to the tree leaves the claims alone.                       *)
LEMMA TreeKeepsClaims ==
    ASSUME InstalledNext
    PROVE  UNCHANGED lockVars
<1>1. CASE \E i \in Installers : Install(i)
  BY <1>1 DEF Install, Begin, Write, Expand, Components, InstallFails, ByInstaller
<1>2. CASE \E p \in Pinners, v \in Versions : Pinnable(p, v)
  BY <1>2 DEF Pinnable, ByPinner
<1>3. CASE \E p \in Pinners, n \in Instances : Pin(p, n)
  BY <1>3 DEF Pin, ByPinner
<1>4. CASE \E n \in Instances : Undeclare(n)
  BY <1>4 DEF Undeclare, ByPinner
<1>5. CASE \E r \in Removers : Remove(r)
  BY <1>5 DEF Remove, Lists, FirstLook, Withdraw, SecondLook, PutBack, RemoveAll,
              RemoverDies, ByRemover
<1> QED BY <1>2, <1>1, <1>3, <1>4, <1>5 DEF InstalledNext

(* And the claims the tree.                                                *)
LEMMA ClaimsKeepTree ==
    ASSUME NEW p \in Claimants, Claims(p)
    PROVE  UNCHANGED treeVars
BY DEF Claims, Open, Lock, RemoveRoot, Release

(* One Core at most serves the instance, and the file it holds is the one  *)
(* at the path, until a claim is taken on a file that was removed after it *)
(* was opened, and again once all that held one then are gone (Claim in    *)
(* instance.go, claim in trunk.go, runtimes in reclaim.go).                *)
THEOREM OneCoreServes == ReclaimSpec => []OneServes
<1>1. ReclaimInit => ClaimsInv
  <2> SUFFICES ASSUME ReclaimInit
               PROVE  ClaimsInv
    OBVIOUS
  <2>1. lockFile = 0 /\ made = 0 /\ overtaken \in BOOLEAN
        /\ claim = [p \in Claimants |-> [at |-> "out", of |-> 0]]
    BY DEF ReclaimInit, Claimants
  <2>2. ClaimsTyped
    BY <2>1 DEF ClaimsTyped
  <2>3. OpenedIsAFile /\ OneHoldsAFile /\ HeldIsCurrent
    BY <2>1 DEF OpenedIsAFile, OneHoldsAFile, HeldIsCurrent, HoldsFile
  <2> QED BY <2>2, <2>3 DEF ClaimsInv
<1>2. ClaimsInv /\ [ReclaimNext]_reclaimVars => ClaimsInv'
  <2> SUFFICES ASSUME ClaimsInv, [ReclaimNext]_reclaimVars
               PROVE  ClaimsInv'
    OBVIOUS
  <2>1. ASSUME NEW p \in Claimants, Claims(p)
        PROVE  ClaimsInv'
    BY <2>1, ClaimsStep
  <2>2. CASE UNCHANGED lockVars
    BY <2>2 DEF lockVars, ClaimsInv, ClaimsTyped, OpenedIsAFile, OneHoldsAFile, HeldIsCurrent, HoldsFile
  <2>3. CASE InstalledNext
    BY <2>2, <2>3, TreeKeepsClaims
  <2> QED BY <2>1, <2>3, <2>2 DEF ReclaimNext, reclaimVars
<1>3. ClaimsInv => OneServes
  BY DEF ClaimsInv, HeldIsCurrent, OneHoldsAFile, HoldsFile, OneServes, Claimants
<1> QED BY <1>1, <1>3, <1>2, PTL DEF ReclaimSpec
--------------------------------------------------------------------------------
(* What is installed.  Where a version was never shared: while an           *)
(* installation or a removal is at it, it is there, and nobody else is at   *)
(* it; what is pinned, and in time, is whole and says complete, or          *)
(* withdrawn.                                                               *)

TreeRecord == [there : BOOLEAN, record : {"none", "incomplete", "complete", "withdrawn"},
               bundle : {"none", "part", "whole"}]
InstallerRecord == [at : {"out", "begun", "incomplete", "expanding", "expanded", "checked",
                          "failed", "done"}, of : 0..MaxVersion]
RemoverRecord == [at : {"out", "named", "listed", "withdrawing", "looking", "restoring",
                        "removing", "refused", "done", "dead"}, of : 0..MaxVersion,
                  was : {"none", "incomplete", "complete", "withdrawn"}]
PinnerRecord == [at : {"out", "found", "done"}, of : 0..MaxVersion]

InstalledTyped ==
    /\ tree \in [Versions -> TreeRecord]
    /\ pins \in [Instances -> 0..MaxVersion]
    /\ installer \in [Installers -> InstallerRecord]
    /\ pinner \in [Pinners -> PinnerRecord]
    /\ remover \in [Removers -> RemoverRecord]
    /\ late \subseteq Instances /\ shared \subseteq Versions

Apart == Versions \ shared
Installs(i) == installer[i].at \notin {"out", "failed", "done"}
Removal(r) == remover[r].at \notin {"out", "refused", "done", "dead"}
Pinned(v) == \E n \in Instances \ late : pins[n] = v

NothingThere == \A v \in Apart : ~tree[v].there => tree[v] = Absent

PinnedStays == \A v \in Apart :
    Pinned(v) => tree[v].bundle = "whole" /\ tree[v].record \in {"complete", "withdrawn"}

(* How far an installation is, and what it has written.                    *)
AsWritten(at, t) ==
    /\ t.there
    /\ t.record = IF at = "begun" THEN "none" ELSE "incomplete"
    /\ t.bundle \in CASE at \in {"begun", "incomplete"} -> {"none"}
                      [] at = "expanding" -> {"part"}
                      [] at = "expanded" -> {"part", "whole"}
                      [] OTHER -> {"whole"}

InstallersAt == \A i \in Installers :
    Installs(i) =>
        /\ installer[i].of \in Versions
        /\ installer[i].of \in Apart => AsWritten(installer[i].at, tree[installer[i].of])

(* What a removal has seen of its version, and when it counts on nobody's  *)
(* pinning it.                                                             *)
AsSeen(s, t) ==
    /\ t.there
    /\ s.at \in {"named", "listed", "withdrawing"} => t.record = s.was
    /\ s.at = "listed" => s.was # "withdrawn"
    /\ s.at \in {"looking", "restoring"} =>
         /\ t.record = "withdrawn"
         /\ s.was \in {"complete", "incomplete"}
         /\ s.was = "complete" => t.bundle = "whole"
    /\ s.at = "removing" => t.record # "complete"

SeenUnpinned(s, t) ==
    \/ s.at = "withdrawing" /\ t.record \in {"none", "withdrawn"}
    \/ s.at \in {"looking", "restoring"} /\ s.was = "incomplete"
    \/ s.at = "removing"

RemoverAt(s, t, v) == AsSeen(s, t) /\ (SeenUnpinned(s, t) => ~Pinned(v))

RemoversAt == \A r \in Removers :
    Removal(r) =>
        /\ remover[r].of \in Versions
        /\ remover[r].of \in Apart => RemoverAt(remover[r], tree[remover[r].of], remover[r].of)

OneAtAVersion ==
    /\ \A i, j \in Installers : Installs(i) /\ Installs(j) /\ installer[i].of = installer[j].of
         => i = j \/ installer[i].of \in shared
    /\ \A q, r \in Removers : Removal(q) /\ Removal(r) /\ remover[q].of = remover[r].of
         => q = r \/ remover[q].of \in shared
    /\ \A i \in Installers, r \in Removers :
         Installs(i) /\ Removal(r) /\ installer[i].of = remover[r].of
         => installer[i].of \in shared

InstalledInv ==
    /\ InstalledTyped /\ NothingThere /\ CompleteIsWhole /\ PinnedStays
    /\ InstallersAt /\ RemoversAt /\ OneAtAVersion

(* What is pinned is read of the pins alone.                               *)
LEMMA PinsKept ==
    ASSUME UNCHANGED <<pins, late>>
    PROVE  \A v : Pinned(v)' <=> Pinned(v)
BY DEF Pinned

(* Whatever is done at a version that is shared, or becomes so, leaves what *)
(* is said of the others.                                                  *)
LEMMA SharedStep ==
    ASSUME InstalledInv, InstalledTyped', UNCHANGED <<pins, late>>,
           NEW v \in Versions, shared' = shared \cup {v},
           \A w \in Versions \ {v} : tree'[w] = tree[w],
           \A i \in Installers : installer'[i] = installer[i] \/ installer'[i].of = v,
           \A r \in Removers : remover'[r] = remover[r] \/ remover'[r].of = v
    PROVE  InstalledInv'
<1> USE DEF InstalledInv
<1>0. /\ Apart' = Apart \ {v} /\ \A w : Pinned(w)' <=> Pinned(w)
      /\ \A w \in Apart' : tree'[w] = tree[w]
  BY PinsKept DEF Apart
<1>1. NothingThere' /\ CompleteIsWhole' /\ PinnedStays'
  BY <1>0 DEF NothingThere, CompleteIsWhole, PinnedStays, Apart
<1>2. InstallersAt'
  BY <1>0 DEF InstallersAt, Installs, Apart
<1>3. RemoversAt'
  <2> SUFFICES ASSUME NEW r \in Removers, Removal(r)'
               PROVE  /\ remover'[r].of \in Versions
                      /\ remover'[r].of \in Apart' =>
                            RemoverAt(remover[r], tree[remover[r].of], remover[r].of)'
    BY DEF RemoversAt
  <2>1. CASE remover'[r].of = v
    BY <1>0, <2>1
  <2>2. CASE remover'[r].of # v
    <3>1. remover'[r] = remover[r] /\ Removal(r)
      BY <2>2 DEF Removal
    <3>2. remover[r].of \in Versions
          /\ (remover[r].of \in Apart => RemoverAt(remover[r], tree[remover[r].of], remover[r].of))
      BY <3>1 DEF RemoversAt
    <3> QED BY <1>0, <3>1, <3>2 DEF RemoverAt
  <2> QED BY <2>1, <2>2
<1>4. OneAtAVersion'
  <2>1. /\ \A i \in Installers : Installs(i)' => installer'[i].of = v \/ (installer'[i] = installer[i] /\ Installs(i))
        /\ \A r \in Removers : Removal(r)' => remover'[r].of = v \/ (remover'[r] = remover[r] /\ Removal(r))
    BY DEF Installs, Removal
  <2> QED BY <2>1 DEF OneAtAVersion
<1> QED BY <1>1, <1>3, <1>2, <1>4

(* An installation goes on in its own version's directory, where nobody    *)
(* else is.                                                                *)
LEMMA InstallStep ==
    ASSUME InstalledInv, NEW i \in Installers, Install(i), ReclaimAssumption
    PROVE  InstalledInv'
<1> USE DEF InstalledInv, ReclaimAssumption
<1> DEFINE v == installer[i].of
<1>0. UNCHANGED <<pins, pinner, remover, late>>
  BY DEF Install, Begin, Write, Expand, Components, InstallFails, ByInstaller
<1>1. \A w : Pinned(w)' <=> Pinned(w)
  BY <1>0, PinsKept
<1>2. CASE \E w \in Versions : Begin(i, w)
  <2> PICK w \in Versions : Begin(i, w)
    BY <1>2
  <2>1. /\ ~tree[w].there /\ installer[i].at = "out"
        /\ tree' = [tree EXCEPT ![w].there = TRUE]
        /\ installer' = [installer EXCEPT ![i] = [at |-> "begun", of |-> w]]
        /\ Shares(w)
    BY DEF Begin
  <2>2. InstalledTyped'
    <3>1. [at |-> "begun", of |-> w] \in InstallerRecord
      BY DEF InstallerRecord, Versions
    <3>2. tree' \in [Versions -> TreeRecord] /\ shared' \subseteq Versions
      BY <2>1 DEF InstalledTyped, TreeRecord, Shares
    <3> QED BY <1>0, <2>1, <3>1, <3>2 DEF InstalledTyped
  <2>3. CASE shared' = shared \cup {w}
    <3>1. /\ \A x \in Versions \ {w} : tree'[x] = tree[x]
          /\ \A j \in Installers : installer'[j] = installer[j] \/ installer'[j].of = w
          /\ \A r \in Removers : remover'[r] = remover[r] \/ remover'[r].of = w
      BY <1>0, <2>1 DEF InstalledTyped
    <3> QED BY <1>0, <2>2, <2>3, <3>1, SharedStep
  <2>4. CASE shared' = shared /\ w \notin shared
    <3>1. tree[w] = Absent /\ Apart' = Apart /\ w \in Apart
      BY <2>1, <2>4 DEF NothingThere, Apart
    <3>2. NothingThere' /\ CompleteIsWhole'
      BY <2>1, <2>4, <3>1 DEF NothingThere, CompleteIsWhole, InstalledTyped, TreeRecord, Absent, Apart
    <3>3. PinnedStays'
      BY <1>1, <2>1, <3>1 DEF PinnedStays, InstalledTyped, TreeRecord, Absent, Apart
    <3>4. \A j \in Installers : Installs(j) => installer[j].of # w
      BY <2>1, <3>1 DEF InstallersAt, AsWritten
    <3>5. \A r \in Removers : Removal(r) => remover[r].of # w
      BY <2>1, <3>1 DEF RemoversAt, RemoverAt, AsSeen
    <3>6. InstallersAt'
      <4> SUFFICES ASSUME NEW j \in Installers, Installs(j)'
                   PROVE  /\ installer'[j].of \in Versions
                          /\ installer'[j].of \in Apart => AsWritten(installer'[j].at, tree'[installer'[j].of])
        BY <3>1 DEF InstallersAt
      <4>1. CASE j = i
        BY <2>1, <3>1, <4>1 DEF AsWritten, InstalledTyped, TreeRecord, Absent
      <4>2. CASE j # i
        BY <2>1, <3>4, <4>2 DEF InstallersAt, Installs, InstalledTyped, Versions
      <4> QED BY <4>1, <4>2
    <3>7. RemoversAt'
      BY <1>0, <1>1, <2>1, <3>1, <3>5 DEF RemoversAt, RemoverAt, Removal, InstalledTyped
    <3>8. OneAtAVersion'
      BY <1>0, <2>1, <2>4, <3>4, <3>5 DEF OneAtAVersion, Installs, Removal, InstalledTyped
    <3> QED BY <2>2, <3>2, <3>3, <3>6, <3>7, <3>8
  <2>5. shared' = shared \cup {w} \/ (shared' = shared /\ w \notin shared)
    BY <2>1 DEF Shares
  <2> QED BY <2>3, <2>4, <2>5
<1>3. ASSUME NEW to \in {"incomplete", "expanding", "expanded", "checked", "failed", "done"},
             NEW t \in TreeRecord,
             Installs(i), UNCHANGED shared,
             installer' = [installer EXCEPT ![i].at = to],
             tree' = [tree EXCEPT ![v] = t],
             v \in Apart =>
                /\ to \in {"incomplete", "expanding", "expanded", "checked"} => AsWritten(to, t)
                /\ t.there /\ ~Pinned(v)
                /\ t.record = "complete" => t.bundle = "whole"
      PROVE  InstalledInv'
  <2>1. v \in Versions
    BY <1>3 DEF InstallersAt
  <2>2. InstalledTyped'
    BY <1>0, <1>3 DEF InstalledTyped, InstallerRecord
  <2>3. \A j \in Installers : installer'[j].of = installer[j].of /\ (j # i => installer'[j] = installer[j])
    BY <1>3 DEF InstalledTyped, InstallerRecord
  <2>4. tree'[v] = t /\ \A w \in Versions \ {v} : tree'[w] = tree[w]
    BY <1>3, <2>1 DEF InstalledTyped
  <2>5. CASE v \in shared
    <3>1. shared' = shared \cup {v}
      BY <1>3, <2>5
    <3>2. \A j \in Installers : installer'[j] = installer[j] \/ installer'[j].of = v
      BY <2>3
    <3>3. \A r \in Removers : remover'[r] = remover[r] \/ remover'[r].of = v
      BY <1>0
    <3> HIDE DEF v
    <3> QED BY <1>0, <2>1, <2>2, <2>4, <3>1, <3>2, <3>3, SharedStep
  <2>6. CASE v \notin shared
    <3>0. v \in Apart /\ Apart' = Apart
      BY <1>3, <2>1, <2>6 DEF Apart
    <3>1. NothingThere' /\ CompleteIsWhole'
      BY <1>3, <2>4, <3>0 DEF NothingThere, CompleteIsWhole, Apart
    <3>2. PinnedStays'
      BY <1>1, <1>3, <2>4, <3>0 DEF PinnedStays, Apart
    <3>3. \A j \in Installers \ {i} : Installs(j) => installer[j].of # v
      BY <1>3, <2>6 DEF OneAtAVersion
    <3>4. \A r \in Removers : Removal(r) => remover[r].of # v
      BY <1>3, <2>6 DEF OneAtAVersion
    <3>5. installer'[i].at = to
      BY <1>3 DEF InstalledTyped, InstallerRecord
    <3>6. InstallersAt'
      <4> SUFFICES ASSUME NEW j \in Installers, Installs(j)'
                   PROVE  /\ installer'[j].of \in Versions
                          /\ installer'[j].of \in Apart => AsWritten(installer'[j].at, tree'[installer'[j].of])
        BY <3>0 DEF InstallersAt
      <4>1. CASE j = i
        BY <1>3, <2>1, <2>3, <2>4, <3>0, <3>5, <4>1 DEF Installs
      <4>2. CASE j # i
        BY <2>1, <2>3, <2>4, <3>3, <4>2 DEF InstallersAt, Installs
      <4> QED BY <4>1, <4>2
    <3>7. RemoversAt'
      <4> SUFFICES ASSUME NEW r \in Removers, Removal(r)
                   PROVE  /\ remover[r].of \in Versions
                          /\ remover[r].of \in Apart =>
                                RemoverAt(remover[r], tree[remover[r].of], remover[r].of)'
        BY <1>0, <3>0 DEF RemoversAt, Removal
      <4>1. remover[r].of \in Versions /\ remover[r].of # v
        BY <3>4 DEF RemoversAt
      <4>2. tree'[remover[r].of] = tree[remover[r].of] /\ remover' = remover
        BY <1>0, <2>4, <4>1
      <4> HIDE DEF v
      <4> QED BY <1>1, <4>1, <4>2 DEF RemoversAt, RemoverAt
    <3>8. OneAtAVersion'
      BY <1>0, <1>3, <2>3, <3>3, <3>4 DEF OneAtAVersion, Installs, Removal
    <3> QED BY <2>2, <3>1, <3>2, <3>6, <3>7, <3>8
  <2> QED BY <2>5, <2>6
<1>4. ASSUME Installs(i)
      PROVE  /\ v \in Versions /\ tree[v] \in TreeRecord
             /\ v \in Apart => AsWritten(installer[i].at, tree[v]) /\ ~Pinned(v)
  <2>1. v \in Versions /\ tree[v] \in TreeRecord /\ (v \in Apart => AsWritten(installer[i].at, tree[v]))
    BY <1>4 DEF InstallersAt, InstalledTyped
  <2> QED BY <1>4, <2>1 DEF AsWritten, PinnedStays, Installs
<1>5. ASSUME NEW from \in {"begun", "checked"}, NEW record1 \in {"incomplete", "complete"},
             NEW to \in {"incomplete", "done"},
             from = "begun" => record1 = "incomplete" /\ to = "incomplete",
             from = "checked" => record1 = "complete" /\ to = "done",
             Write(i, from, record1, to)
      PROVE  InstalledInv'
  <2>1. Installs(i) /\ installer[i].at = from /\ UNCHANGED shared
    BY <1>5 DEF Write, Installs
  <2>2. CASE tree[v].there
    <3> DEFINE t == [tree[v] EXCEPT !.record = record1]
    <3>1. installer' = [installer EXCEPT ![i].at = to] /\ tree' = [tree EXCEPT ![v] = t]
      BY <1>5, <2>2 DEF Write, InstallerGoes
    <3>2. t \in TreeRecord /\ t.there
      BY <1>4, <2>1, <2>2 DEF TreeRecord
    <3>3. v \in Apart => /\ t.record = "complete" => t.bundle = "whole"
                         /\ to = "incomplete" => AsWritten(to, t)
      BY <1>4, <1>5, <2>1 DEF AsWritten, TreeRecord
    <3> HIDE DEF t
    <3> QED BY <1>3, <1>4, <1>5, <2>1, <3>1, <3>2, <3>3
  <2>3. CASE ~tree[v].there
    <3> DEFINE t == tree[v]
    <3>1. v \notin Apart
      BY <1>4, <2>1, <2>3 DEF AsWritten
    <3>2. installer' = [installer EXCEPT ![i].at = "failed"] /\ tree' = [tree EXCEPT ![v] = t]
      BY <1>4, <1>5, <2>1, <2>3 DEF Write, InstallerGoes, InstalledTyped
    <3>3. t \in TreeRecord
      BY <1>4, <2>1
    <3> HIDE DEF t
    <3> QED BY <1>3, <2>1, <3>1, <3>2, <3>3
  <2> QED BY <2>2, <2>3
<1>6. CASE Expand(i)
  <2> DEFINE to == IF installer[i].at = "expanding" THEN "expanded" ELSE "expanding"
  <2>1. Installs(i) /\ installer[i].at \in {"incomplete", "expanding"} /\ UNCHANGED shared
    BY <1>6 DEF Expand, Installs
  <2>2. PICK b \in {"part", "whole"} :
           /\ b = "whole" => installer[i].at = "expanding"
           /\ tree' = [tree EXCEPT ![v] = [@ EXCEPT !.there = TRUE, !.bundle = b]]
    BY <1>6 DEF Expand
  <2> DEFINE t == [tree[v] EXCEPT !.there = TRUE, !.bundle = b]
  <2>3. installer' = [installer EXCEPT ![i].at = to] /\ tree' = [tree EXCEPT ![v] = t]
    BY <1>6, <2>2 DEF Expand, InstallerGoes
  <2>4. t \in TreeRecord /\ t.there
    BY <1>4, <2>1 DEF TreeRecord
  <2>5. v \in Apart => AsWritten(to, t) /\ (t.record = "complete" => t.bundle = "whole")
    BY <1>4, <2>1, <2>2 DEF AsWritten, TreeRecord
  <2>6. to \in {"expanded", "expanding"}
    OBVIOUS
  <2> HIDE DEF t, to
  <2> QED BY <1>3, <1>4, <2>1, <2>3, <2>4, <2>5, <2>6
<1>7. CASE Components(i) \/ InstallFails(i)
  <2>1. Installs(i) /\ UNCHANGED <<tree, shared>>
    BY <1>7 DEF Components, InstallFails, Installs
  <2> DEFINE t == tree[v]
  <2>2. tree' = [tree EXCEPT ![v] = t] /\ t \in TreeRecord
    BY <1>4, <2>1 DEF InstalledTyped
  <2>3. v \in Apart => t.there /\ (t.record = "complete" => t.bundle = "whole")
    BY <1>4, <2>1 DEF AsWritten
  <2>4. CASE installer' = [installer EXCEPT ![i].at = "failed"]
    <3> HIDE DEF t
    <3> QED BY <1>3, <1>4, <2>1, <2>2, <2>3, <2>4
  <2>5. CASE /\ installer[i].at = "expanded" /\ t.bundle = "whole"
             /\ installer' = [installer EXCEPT ![i].at = "checked"]
    <3>1. v \in Apart => AsWritten("checked", t)
      BY <1>4, <2>1, <2>5 DEF AsWritten
    <3> HIDE DEF t
    <3> QED BY <1>3, <1>4, <2>1, <2>2, <2>3, <2>5, <3>1
  <2> QED BY <1>7, <2>4, <2>5 DEF Components, InstallFails, InstallerGoes
<1> QED BY <1>2, <1>5, <1>6, <1>7 DEF Install

(* A pin that does not come too late is one of a version that is whole, and *)
(* no removal of it goes on unless it looks at the pins again.             *)
LEMMA PinStep ==
    ASSUME InstalledInv,
           \/ \E p \in Pinners, v \in Versions : Pinnable(p, v)
           \/ \E p \in Pinners, n \in Instances : Pin(p, n)
           \/ \E n \in Instances : Undeclare(n),
           ReclaimAssumption
    PROVE  InstalledInv'
<1> USE DEF InstalledInv, ReclaimAssumption
<1>0. UNCHANGED <<tree, installer, remover, shared>> /\ Apart' = Apart
  BY DEF Pinnable, Pin, Undeclare, ByPinner, Apart
<1>1. InstalledTyped'
  <2>1. CASE \E p \in Pinners, v \in Versions : Pinnable(p, v)
    <3> PICK p \in Pinners, v \in Versions : Pinnable(p, v)
      BY <2>1
    <3>1. [at |-> "found", of |-> v] \in PinnerRecord
      BY DEF PinnerRecord, Versions
    <3>2. pinner' \in [Pinners -> PinnerRecord] /\ UNCHANGED <<pins, late>>
      BY <3>1 DEF Pinnable, InstalledTyped
    <3> QED BY <1>0, <3>2 DEF InstalledTyped
  <2>2. CASE \E p \in Pinners, n \in Instances : Pin(p, n)
    BY <1>0, <2>2 DEF Pin, InstalledTyped, PinnerRecord
  <2>3. CASE \E n \in Instances : Undeclare(n)
    BY <1>0, <2>3 DEF Undeclare, InstalledTyped
  <2> QED BY <2>1, <2>3, <2>2
<1>2. ASSUME NEW w \in Versions, Pinned(w)'
      PROVE  Pinned(w) \/ ~TooLate(w)
  <2>0. w # 0
    BY DEF Versions
  <2>1. PICK m \in Instances : m \notin late' /\ pins'[m] = w
    BY <1>2 DEF Pinned
  <2>2. CASE \E p \in Pinners, v \in Versions : Pinnable(p, v)
    BY <2>1, <2>2 DEF Pinnable, Pinned
  <2>3. CASE \E p \in Pinners, n \in Instances : Pin(p, n)
    <3> PICK p \in Pinners, n \in Instances : Pin(p, n)
      BY <2>3
    <3>1. /\ pins' = [pins EXCEPT ![n] = pinner[p].of]
          /\ late' = IF TooLate(pinner[p].of) THEN late \cup {n} ELSE late \ {n}
      BY DEF Pin
    <3>2. CASE m = n
      BY <2>1, <3>1, <3>2 DEF InstalledTyped
    <3>3. CASE m # n
      BY <2>1, <3>1, <3>3 DEF InstalledTyped, Pinned
    <3> QED BY <3>2, <3>3
  <2>4. CASE \E n \in Instances : Undeclare(n)
    <3> PICK n \in Instances : Undeclare(n)
      BY <2>4
    <3>1. m # n
      BY <2>0, <2>1 DEF Undeclare, InstalledTyped
    <3> QED BY <2>1, <3>1 DEF Undeclare, InstalledTyped, Pinned
  <2> QED BY <2>2, <2>3, <2>4
<1>3. NothingThere' /\ CompleteIsWhole' /\ InstallersAt' /\ OneAtAVersion'
  BY <1>0 DEF NothingThere, CompleteIsWhole, InstallersAt, OneAtAVersion, Installs, Removal
<1>4. PinnedStays'
  <2> SUFFICES ASSUME NEW w \in Apart, Pinned(w)'
               PROVE  tree[w].bundle = "whole" /\ tree[w].record \in {"complete", "withdrawn"}
    BY <1>0 DEF PinnedStays
  <2> QED BY <1>2 DEF PinnedStays, TooLate, Apart
<1>5. RemoversAt'
  <2> SUFFICES ASSUME NEW r \in Removers, Removal(r), remover[r].of \in Apart,
                      SeenUnpinned(remover[r], tree[remover[r].of]), Pinned(remover[r].of)'
               PROVE  FALSE
    BY <1>0 DEF RemoversAt, RemoverAt, Removal
  <2>0. PICK w \in Versions : w = remover[r].of
    BY DEF RemoversAt
  <2>1. RemoverAt(remover[r], tree[w], w)
    BY <2>0 DEF RemoversAt
  <2>2. ~Pinned(w) /\ (tree[w].record = "none" \/ Overlooks(r, w))
    BY <2>0, <2>1 DEF RemoverAt, SeenUnpinned, Overlooks
  <2>3. TooLate(w)
    BY <2>2 DEF TooLate
  <2>4. Pinned(w)'
    BY <1>0, <2>0 DEF Pinned
  <2> QED BY <1>2, <2>2, <2>3, <2>4
<1> QED BY <1>1, <1>3, <1>4, <1>5

(* What a removal does at a version that is its own, or becomes it.        *)
LEMMA RemovalActs ==
    ASSUME InstalledInv, NEW r \in Removers, NEW v \in Versions,
           NEW to \in RemoverRecord, NEW t \in TreeRecord,
           remover' = [remover EXCEPT ![r] = to], to.of = v,
           tree' = [tree EXCEPT ![v] = t],
           UNCHANGED <<pins, pinner, installer, late, shared>>,
           v \in Apart =>
             /\ \A i \in Installers : Installs(i) => installer[i].of # v
             /\ \A q \in Removers \ {r} : Removal(q) => remover[q].of # v
             /\ ~t.there => t = Absent
             /\ t.record = "complete" => t.bundle = "whole"
             /\ Pinned(v) => t.bundle = "whole" /\ t.record \in {"complete", "withdrawn"}
             /\ to.at \in {"out", "refused", "done", "dead"} \/ RemoverAt(to, t, v)
    PROVE  InstalledInv'
<1> USE DEF InstalledInv
<1>1. (\A w : Pinned(w)' <=> Pinned(w)) /\ Apart' = Apart
  BY PinsKept DEF Apart
<1>2. InstalledTyped'
  BY DEF InstalledTyped
<1>0. /\ tree'[v] = t /\ \A w \in Versions \ {v} : tree'[w] = tree[w]
      /\ remover'[r] = to /\ \A q \in Removers \ {r} : remover'[q] = remover[q]
  BY DEF InstalledTyped
<1>8. CASE v \in shared
  <2>1. shared' = shared \cup {v} /\ \A q \in Removers : remover'[q] = remover[q] \/ remover'[q].of = v
    BY <1>0, <1>8
  <2> QED BY <1>0, <1>2, <2>1, SharedStep
<1>9. CASE v \notin shared
  <2>0. v \in Apart
    BY <1>9 DEF Apart
  <2>1. NothingThere' /\ CompleteIsWhole'
    <3>1. NothingThere'
      BY <1>0, <1>1, <2>0 DEF NothingThere, Apart
    <3>2. CompleteIsWhole'
      BY <1>0, <1>1, <2>0 DEF CompleteIsWhole, Apart
    <3> QED BY <3>1, <3>2
  <2>2. PinnedStays'
    BY <1>0, <1>1, <2>0 DEF PinnedStays, Apart
  <2>3. InstallersAt'
    BY <1>0, <1>1, <2>0 DEF InstallersAt, Installs
  <2>4. RemoversAt'
    <3> SUFFICES ASSUME NEW q \in Removers, Removal(q)'
                 PROVE  /\ remover'[q].of \in Versions
                        /\ remover'[q].of \in Apart =>
                             /\ AsSeen(remover'[q], tree'[remover'[q].of])
                             /\ SeenUnpinned(remover'[q], tree'[remover'[q].of]) => ~Pinned(remover'[q].of)
      BY <1>1 DEF RemoversAt, RemoverAt
    <3>1. CASE q = r
      BY <1>0, <2>0, <3>1 DEF Removal, RemoverAt
    <3>2. CASE q # r
      <4>1. remover'[q] = remover[q] /\ Removal(q)
        BY <1>0, <3>2 DEF Removal
      <4>2. remover[q].of # v /\ remover[q].of \in Versions
            /\ (remover[q].of \in Apart => RemoverAt(remover[q], tree[remover[q].of], remover[q].of))
        BY <2>0, <3>2, <4>1 DEF RemoversAt
      <4>3. tree'[remover[q].of] = tree[remover[q].of]
        BY <1>0, <4>2
      <4> QED BY <4>1, <4>3, <4>2 DEF RemoverAt
    <3> QED BY <3>1, <3>2
  <2>5. OneAtAVersion'
    <3>1. \A q \in Removers \ {r} : Removal(q)' <=> Removal(q)
      BY <1>0 DEF Removal
    <3> QED BY <1>0, <2>0, <3>1 DEF OneAtAVersion, Installs
  <2> QED BY <1>2, <2>1, <2>2, <2>3, <2>4, <2>5
<1> QED BY <1>8, <1>9

(* A removal at a version that is its own.                                 *)
LEMMA RemovalGoesOn ==
    ASSUME InstalledInv, NEW r \in Removers, Removal(r), ReclaimAssumption,
           NEW at \in {"withdrawing", "looking", "restoring", "removing", "refused", "done", "dead"},
           NEW was \in {"none", "incomplete", "complete", "withdrawn"},
           remover' = [remover EXCEPT ![r] = [at |-> at, of |-> remover[r].of, was |-> was]],
           NEW t \in TreeRecord,
           tree' = [tree EXCEPT ![remover[r].of] = t],
           UNCHANGED <<pins, pinner, installer, late, shared>>,
           remover[r].of \in Apart =>
             /\ ~t.there => t = Absent
             /\ t.record = "complete" => t.bundle = "whole"
             /\ Pinned(remover[r].of) => t.bundle = "whole" /\ t.record \in {"complete", "withdrawn"}
             /\ \/ at \in {"refused", "done", "dead"}
                \/ RemoverAt([at |-> at, of |-> remover[r].of, was |-> was], t, remover[r].of)
    PROVE  InstalledInv'
<1> PICK v \in Versions : v = remover[r].of
  BY DEF InstalledInv, RemoversAt
<1> DEFINE to == [at |-> at, of |-> v, was |-> was]
<1>1. v \in Apart =>
        /\ \A i \in Installers : Installs(i) => installer[i].of # v
        /\ \A q \in Removers \ {r} : Removal(q) => remover[q].of # v
  BY DEF InstalledInv, OneAtAVersion, Apart
<1>2. to \in RemoverRecord /\ to.of = v /\ to.at = at
  <2>1. v \in 0..MaxVersion
    BY ReclaimAssumption DEF Versions
  <2> QED BY <2>1 DEF RemoverRecord
<1>3. remover' = [remover EXCEPT ![r] = to] /\ tree' = [tree EXCEPT ![v] = t]
  OBVIOUS
<1>4. v \in Apart => to.at \in {"out", "refused", "done", "dead"} \/ RemoverAt(to, t, v)
  BY <1>2
<1>5. v \in Apart =>
        /\ ~t.there => t = Absent
        /\ t.record = "complete" => t.bundle = "whole"
        /\ Pinned(v) => t.bundle = "whole" /\ t.record \in {"complete", "withdrawn"}
  OBVIOUS
<1>6. UNCHANGED <<pins, pinner, installer, late, shared>>
  OBVIOUS
<1> HIDE DEF to
<1> QED BY ONLY InstalledInv, <1>2, <1>1, <1>3, <1>4, <1>5, <1>6, RemovalActs,
               r \in Removers, v \in Versions, t \in TreeRecord

(* What a removal does after it has listed its version.                    *)
Proceeds(r) ==
    FirstLook(r) \/ Withdraw(r) \/ SecondLook(r) \/ PutBack(r) \/ RemoveAll(r) \/ RemoverDies(r)

(* At a version that is shared it stays within its types, and at that      *)
(* version.                                                                *)
LEMMA RemovalShared ==
    ASSUME InstalledInv, NEW r \in Removers, Proceeds(r), remover[r].of \in shared
    PROVE  InstalledInv'
<1> DEFINE v == remover[r].of
<1>1. InstalledTyped /\ v \in Versions /\ tree[v] \in TreeRecord /\ remover[r] \in RemoverRecord
  BY DEF InstalledInv, InstalledTyped
<1>2. UNCHANGED <<pins, pinner, installer, late, shared>>
  BY DEF Proceeds, FirstLook, Withdraw, SecondLook, PutBack, RemoveAll, RemoverDies, ByRemover
<1>3. ASSUME NEW at \in {"withdrawing", "looking", "restoring", "removing", "refused", "done", "dead"},
             NEW was \in {"none", "incomplete", "complete", "withdrawn"}, NEW t \in TreeRecord,
             remover' = [remover EXCEPT ![r] = [@ EXCEPT !.at = at, !.was = was]],
             tree' = [tree EXCEPT ![v] = t]
      PROVE  InstalledInv'
  <2>1. [remover[r] EXCEPT !.at = at, !.was = was] \in RemoverRecord
    BY <1>1 DEF RemoverRecord
  <2>2. InstalledTyped'
    BY <1>1, <1>2, <1>3, <2>1 DEF InstalledTyped
  <2>3. /\ \A w \in Versions \ {v} : tree'[w] = tree[w]
        /\ \A q \in Removers : remover'[q] = remover[q] \/ remover'[q].of = v
    BY <1>1, <1>3 DEF InstalledTyped, RemoverRecord
  <2>4. shared' = shared \cup {v}
    BY <1>2
  <2> HIDE DEF v
  <2> QED BY <1>1, <1>2, <2>2, <2>3, <2>4, SharedStep
<1>4. ASSUME NEW at \in {"withdrawing", "restoring", "removing", "refused", "done", "dead"},
             RemoverGoes(r, at)
      PROVE  remover' = [remover EXCEPT ![r] = [@ EXCEPT !.at = at, !.was = remover[r].was]]
             /\ remover[r].was \in {"none", "incomplete", "complete", "withdrawn"}
  BY <1>1, <1>4 DEF RemoverGoes, RemoverRecord
<1>5. UNCHANGED tree => tree' = [tree EXCEPT ![v] = tree[v]]
  BY <1>1 DEF InstalledTyped
<1>6. CASE FirstLook(r) \/ SecondLook(r) \/ RemoverDies(r)
  <2>1. UNCHANGED tree /\ \E at \in {"withdrawing", "restoring", "removing", "refused", "dead"} : RemoverGoes(r, at)
    BY <1>6 DEF FirstLook, SecondLook, RemoverDies
  <2> QED BY <1>1, <1>3, <1>4, <1>5, <2>1
<1>7. CASE Withdraw(r)
  <2>1. CASE tree[v].record \in {"none", "withdrawn"}
    <3>1. UNCHANGED tree /\ RemoverGoes(r, "removing")
      BY <1>7, <2>1 DEF Withdraw
    <3> QED BY <1>1, <1>3, <1>4, <1>5, <3>1
  <2>2. CASE tree[v].record \notin {"none", "withdrawn"}
    <3> DEFINE t == [tree[v] EXCEPT !.record = "withdrawn"]
               was == tree[v].record
    <3>1. remover' = [remover EXCEPT ![r] = [@ EXCEPT !.at = "looking", !.was = was]]
          /\ tree' = [tree EXCEPT ![v] = t]
      BY <1>7, <2>2 DEF Withdraw
    <3>2. t \in TreeRecord /\ was \in {"none", "incomplete", "complete", "withdrawn"}
      BY <1>1 DEF TreeRecord
    <3> HIDE DEF t, was
    <3> QED BY <1>3, <3>1, <3>2
  <2> QED BY <2>1, <2>2
<1>8. CASE PutBack(r)
  <2> DEFINE t == IF tree[v].there THEN [tree[v] EXCEPT !.record = remover[r].was] ELSE tree[v]
  <2>1. RemoverGoes(r, "refused") /\ tree' = [tree EXCEPT ![v] = t]
    BY <1>1, <1>8 DEF PutBack, InstalledTyped
  <2>2. t \in TreeRecord
    BY <1>1 DEF TreeRecord, RemoverRecord
  <2> HIDE DEF t
  <2> QED BY <1>3, <1>4, <2>1, <2>2
<1>9. CASE RemoveAll(r)
  <2>1. PICK t \in TreeRecord : tree' = [tree EXCEPT ![v] = t]
    <3>1. \A b \in {"part", "none"} : [tree[v] EXCEPT !.bundle = b] \in TreeRecord
      BY <1>1 DEF TreeRecord
    <3>2. [tree[v] EXCEPT !.record = "none"] \in TreeRecord /\ Absent \in TreeRecord
      BY <1>1 DEF TreeRecord, Absent
    <3> QED BY <1>9, <3>1, <3>2 DEF RemoveAll
  <2>2. CASE UNCHANGED remover
    <3>1. remover[r].at = "removing"
      BY <1>9 DEF RemoveAll
    <3>2. remover' = [remover EXCEPT ![r] = [@ EXCEPT !.at = "removing", !.was = remover[r].was]]
          /\ remover[r].was \in {"none", "incomplete", "complete", "withdrawn"}
      BY <1>1, <2>2, <3>1 DEF InstalledTyped, RemoverRecord
    <3> QED BY <1>3, <2>1, <3>2
  <2>3. CASE RemoverGoes(r, "done")
    BY <1>3, <1>4, <2>1, <2>3
  <2> QED BY <1>9, <2>2, <2>3 DEF RemoveAll
<1> QED BY <1>6, <1>7, <1>8, <1>9 DEF Proceeds

(* A removal takes its version from everybody else's sight before it takes *)
(* anything away, and puts back what it finds pinned.                      *)
LEMMA RemovalApart ==
    ASSUME InstalledInv, NEW r \in Removers, Proceeds(r), remover[r].of \in Apart, ReclaimAssumption
    PROVE  InstalledInv'
<1>0. UNCHANGED <<pins, pinner, installer, late, shared>>
  BY DEF Proceeds, FirstLook, Withdraw, SecondLook, PutBack, RemoveAll, RemoverDies, ByRemover
<1>2. InstalledTyped
  BY DEF InstalledInv
<1> DEFINE v == remover[r].of
           was == remover[r].was
<1>4. Removal(r) =>
        /\ v \in Versions /\ tree[v] \in TreeRecord /\ remover[r] \in RemoverRecord
        /\ RemoverAt(remover[r], tree[v], v)
        /\ tree[v].record = "complete" => tree[v].bundle = "whole"
        /\ Pinned(v) => tree[v].bundle = "whole" /\ tree[v].record \in {"complete", "withdrawn"}
        /\ was \in {"none", "incomplete", "complete", "withdrawn"}
  <2> SUFFICES ASSUME Removal(r)
               PROVE  /\ v \in Versions /\ tree[v] \in TreeRecord /\ remover[r] \in RemoverRecord
                      /\ RemoverAt(remover[r], tree[v], v)
                      /\ tree[v].record = "complete" => tree[v].bundle = "whole"
                      /\ Pinned(v) => tree[v].bundle = "whole" /\ tree[v].record \in {"complete", "withdrawn"}
                      /\ was \in {"none", "incomplete", "complete", "withdrawn"}
    OBVIOUS
  <2>1. v \in Versions /\ RemoverAt(remover[r], tree[v], v)
    BY DEF InstalledInv, RemoversAt
  <2>2. remover[r] \in RemoverRecord /\ tree[v] \in TreeRecord
    BY <1>2, <2>1 DEF InstalledTyped
  <2>3. was \in {"none", "incomplete", "complete", "withdrawn"}
    BY <2>2 DEF RemoverRecord
  <2> QED BY <2>1, <2>3, <2>2 DEF InstalledInv, CompleteIsWhole, PinnedStays, Apart
<1>5. ASSUME Removal(r), NEW at, RemoverGoes(r, at)
      PROVE  remover' = [remover EXCEPT ![r] = [at |-> at, of |-> v, was |-> was]]
  <2>1. remover[r] \in RemoverRecord
    BY <1>4, <1>5
  <2>2. [remover[r] EXCEPT !.at = at] = [at |-> at, of |-> v, was |-> was]
    BY <2>1 DEF RemoverRecord
  <2>3. remover' = [remover EXCEPT ![r] = [remover[r] EXCEPT !.at = at]]
    BY <1>5 DEF RemoverGoes
  <2> QED BY <2>2, <2>3
<1>6. ASSUME Removal(r), UNCHANGED tree,
             NEW at \in {"withdrawing", "looking", "restoring", "removing", "refused", "done", "dead"},
             RemoverGoes(r, at),
             \/ at \in {"refused", "done", "dead"}
             \/ RemoverAt([at |-> at, of |-> v, was |-> was], tree[v], v)
      PROVE  InstalledInv'
  <2>1. remover' = [remover EXCEPT ![r] = [at |-> at, of |-> v, was |-> was]]
    BY <1>5, <1>6
  <2> DEFINE t == tree[v]
  <2>2. tree' = [tree EXCEPT ![v] = t]
    BY <1>2, <1>4, <1>6 DEF InstalledTyped
  <2>5. t.there /\ t \in TreeRecord /\ (t.record = "complete" => t.bundle = "whole")
        /\ (Pinned(v) => t.bundle = "whole" /\ t.record \in {"complete", "withdrawn"})
    BY <1>4, <1>6 DEF RemoverAt, AsSeen
  <2>3. at \in {"refused", "done", "dead"} \/ RemoverAt([at |-> at, of |-> v, was |-> was], t, v)
    BY <1>6
  <2>4. was \in {"none", "incomplete", "complete", "withdrawn"}
    BY <1>4, <1>6
  <2> HIDE DEF t
  <2> QED BY <1>0, <1>6, <2>2, <2>1, <2>3, <2>4, <2>5, RemovalGoesOn
<1>7. CASE FirstLook(r)
  <2>1. Removal(r) /\ remover[r].at \in {"named", "listed"} /\ UNCHANGED tree
    BY <1>7 DEF FirstLook, Removal
  <2>2. CASE RemoverGoes(r, "refused")
    BY <1>6, <2>1, <2>2
  <2>3. CASE /\ RemoverGoes(r, "withdrawing")
             /\ PointingAt(v) = {} \/ ~(remover[r].at = "named" \/ was = "complete")
    <3>1. /\ tree[v].record = was /\ tree[v].there
          /\ remover[r].at = "listed" => was # "withdrawn"
      BY <1>4, <2>1 DEF RemoverAt, AsSeen
    <3>2. tree[v].record = "none" => ~Pinned(v)
      BY <1>4, <2>1
    <3>3. tree[v].record = "withdrawn" => ~Pinned(v)
      BY <1>4, <1>7, <2>1, <2>3, <3>1 DEF FirstLook, Pinned, PointingAt
    <3>4. RemoverAt([at |-> "withdrawing", of |-> v, was |-> was], tree[v], v)
      BY <3>1, <3>2, <3>3 DEF RemoverAt, AsSeen, SeenUnpinned
    <3> QED BY <1>6, <2>1, <2>3, <3>4
  <2> QED BY <1>7, <2>2, <2>3 DEF FirstLook
<1>8. CASE Withdraw(r)
  <2>1. Removal(r) /\ remover[r].at = "withdrawing" /\ tree[v].there
    BY <1>4, <1>8 DEF Withdraw, Removal, RemoverAt, AsSeen
  <2>2. CASE tree[v].record \in {"none", "withdrawn"}
    <3>1. RemoverGoes(r, "removing") /\ UNCHANGED tree
      BY <1>8, <2>2 DEF Withdraw
    <3>2. ~Pinned(v)
      BY <1>4, <2>1, <2>2 DEF RemoverAt, SeenUnpinned
    <3>3. RemoverAt([at |-> "removing", of |-> v, was |-> was], tree[v], v)
      BY <2>1, <2>2, <3>2 DEF RemoverAt, AsSeen
    <3> QED BY <1>6, <2>1, <3>1, <3>3
  <2>3. CASE tree[v].record \notin {"none", "withdrawn"}
    <3> DEFINE before == tree[v].record
               t == [tree[v] EXCEPT !.record = "withdrawn"]
    <3>1. remover' = [remover EXCEPT ![r] = [at |-> "looking", of |-> v, was |-> before]]
      BY <1>4, <1>8, <2>1, <2>3 DEF Withdraw, RemoverRecord
    <3>2. tree' = [tree EXCEPT ![v] = t]
      BY <1>8, <2>3 DEF Withdraw
    <3>3. before \in {"incomplete", "complete"} /\ t \in TreeRecord /\ t.there
          /\ t.record = "withdrawn" /\ t.bundle = tree[v].bundle
      BY <1>4, <2>1, <2>3 DEF TreeRecord
    <3>4. /\ before = "incomplete" => ~Pinned(v)
          /\ before = "complete" => t.bundle = "whole"
          /\ Pinned(v) => t.bundle = "whole"
      BY <1>4, <2>1, <3>3
    <3> HIDE DEF before, t
    <3>5. RemoverAt([at |-> "looking", of |-> v, was |-> before], t, v)
      BY <3>3, <3>4 DEF RemoverAt, AsSeen, SeenUnpinned
    <3> QED BY <1>0, <2>1, <3>2, <3>1, <3>3, <3>4, <3>5, RemovalGoesOn
  <2> QED BY <2>2, <2>3
<1>9. CASE SecondLook(r)
  <2>1. Removal(r) /\ remover[r].at = "looking" /\ UNCHANGED tree
    BY <1>9 DEF SecondLook, Removal
  <2>2. AsSeen(remover[r], tree[v]) /\ (SeenUnpinned(remover[r], tree[v]) => ~Pinned(v))
    BY <1>4, <2>1 DEF RemoverAt
  <2>3. CASE RemoverGoes(r, "restoring")
    <3>1. RemoverAt([at |-> "restoring", of |-> v, was |-> was], tree[v], v)
      BY <2>1, <2>2 DEF RemoverAt, AsSeen, SeenUnpinned
    <3> QED BY <1>6, <2>1, <2>3, <3>1
  <2>4. CASE RemoverGoes(r, "removing") /\ PointingAt(v) = {}
    <3>1. ~Pinned(v)
      BY <2>4 DEF Pinned, PointingAt
    <3>2. RemoverAt([at |-> "removing", of |-> v, was |-> was], tree[v], v)
      BY <2>1, <2>2, <3>1 DEF RemoverAt, AsSeen
    <3> QED BY <1>6, <2>1, <2>4, <3>2
  <2> QED BY <1>9, <2>3, <2>4 DEF SecondLook
<1>10. CASE PutBack(r)
  <2> DEFINE t == [tree[v] EXCEPT !.record = was]
  <2>1. Removal(r) /\ remover[r].at = "restoring" /\ RemoverGoes(r, "refused")
    BY <1>10 DEF PutBack, Removal
  <2>2. tree[v].there /\ was \in {"complete", "incomplete"}
        /\ (was = "complete" => tree[v].bundle = "whole") /\ (was = "incomplete" => ~Pinned(v))
    BY <1>4, <2>1 DEF RemoverAt, AsSeen, SeenUnpinned
  <2>3. tree' = [tree EXCEPT ![v] = t]
    BY <1>10, <2>2 DEF PutBack
  <2>4. t \in TreeRecord /\ t.there /\ t.record = was /\ t.bundle = tree[v].bundle
    BY <1>4, <2>1, <2>2 DEF TreeRecord
  <2>5. remover' = [remover EXCEPT ![r] = [at |-> "refused", of |-> v, was |-> was]]
    BY <1>5, <2>1
  <2>6. Pinned(v) => tree[v].bundle = "whole"
    BY <1>4, <2>1
  <2> HIDE DEF t
  <2> QED BY <1>0, <2>2, <2>1, <2>3, <2>4, <2>5, <2>6, RemovalGoesOn
<1>11. CASE RemoveAll(r)
  <2>1. Removal(r) /\ remover[r].at = "removing"
    BY <1>11 DEF RemoveAll, Removal
  <2>2. ~Pinned(v) /\ tree[v].record # "complete" /\ tree[v].there
    BY <1>4, <2>1 DEF RemoverAt, AsSeen, SeenUnpinned
  <2>3. ASSUME NEW t \in TreeRecord, t.there, t.record # "complete", tree' = [tree EXCEPT ![v] = t],
               UNCHANGED remover
        PROVE  InstalledInv'
    <3>1. remover' = [remover EXCEPT ![r] = [at |-> "removing", of |-> v, was |-> was]]
      BY <1>2, <1>4, <2>1, <2>3 DEF InstalledTyped, RemoverRecord
    <3>2. RemoverAt([at |-> "removing", of |-> v, was |-> was], t, v)
      BY <2>2, <2>3 DEF RemoverAt, AsSeen
    <3> QED BY <1>0, <1>4, <2>1, <2>2, <2>3, <3>1, <3>2, RemovalGoesOn
  <2>4. ASSUME NEW b \in {"part", "none"}, tree' = [tree EXCEPT ![v].bundle = b], UNCHANGED remover
        PROVE  InstalledInv'
    <3> DEFINE t == [tree[v] EXCEPT !.bundle = b]
    <3>1. t \in TreeRecord /\ t.there /\ t.record # "complete" /\ tree' = [tree EXCEPT ![v] = t]
      BY <1>4, <2>1, <2>2, <2>4 DEF TreeRecord
    <3> HIDE DEF t
    <3> QED BY <2>3, <2>4, <3>1
  <2>5. ASSUME tree' = [tree EXCEPT ![v].record = "none"], UNCHANGED remover
        PROVE  InstalledInv'
    <3> DEFINE t == [tree[v] EXCEPT !.record = "none"]
    <3>1. t \in TreeRecord /\ t.there /\ t.record # "complete" /\ tree' = [tree EXCEPT ![v] = t]
      BY <1>4, <2>1, <2>2, <2>5 DEF TreeRecord
    <3> HIDE DEF t
    <3> QED BY <2>3, <2>5, <3>1
  <2>6. ASSUME tree' = [tree EXCEPT ![v] = Absent], RemoverGoes(r, "done")
        PROVE  InstalledInv'
    <3>1. Absent \in TreeRecord /\ Absent.record # "complete"
      BY DEF Absent, TreeRecord
    <3>2. remover' = [remover EXCEPT ![r] = [at |-> "done", of |-> v, was |-> was]]
      BY <1>5, <2>1, <2>6
    <3> QED BY <1>0, <1>4, <2>1, <2>2, <2>6, <3>1, <3>2, RemovalGoesOn
  <2> QED BY <1>11, <2>4, <2>5, <2>6 DEF RemoveAll
<1>12. CASE RemoverDies(r)
  <2>1. Removal(r) /\ UNCHANGED tree /\ RemoverGoes(r, "dead")
    BY <1>12 DEF RemoverDies, Removal
  <2> QED BY <1>6, <2>1
<1> QED BY <1>7, <1>9, <1>8, <1>10, <1>11, <1>12 DEF Proceeds

(* What is listed is shared from then on, where somebody is at it.         *)
LEMMA RemoveStep ==
    ASSUME InstalledInv, NEW r \in Removers, Remove(r), ReclaimAssumption
    PROVE  InstalledInv'
<1>1. InstalledTyped
  BY DEF InstalledInv
<1>2. ASSUME NEW v \in Versions, Lists(r, v)
      PROVE  InstalledInv'
  <2>1. /\ tree[v].there /\ tree' = tree /\ Shares(v) /\ remover[r].at = "out"
        /\ UNCHANGED <<pins, pinner, installer, late>>
    BY <1>2 DEF Lists, ByRemover
  <2>2. PICK at \in {"named", "listed"} :
            /\ remover' = [remover EXCEPT ![r] = [at |-> at, of |-> v, was |-> tree[v].record]]
            /\ at = "listed" => tree[v].record # "withdrawn"
    BY <1>2 DEF Lists, Incomplete, Superseded
  <2> DEFINE to == [at |-> at, of |-> v, was |-> tree[v].record]
             t == tree[v]
  <2>3. t \in TreeRecord /\ to \in RemoverRecord /\ to.of = v
    BY <1>1, ReclaimAssumption DEF InstalledTyped, TreeRecord, RemoverRecord, Versions
  <2>4. tree' = [tree EXCEPT ![v] = t] /\ remover' = [remover EXCEPT ![r] = to]
    BY <1>1, <2>1, <2>2 DEF InstalledTyped
  <2>5. CASE shared' = shared \cup {v}
    <3>1. InstalledTyped'
      BY <1>1, <2>1, <2>3, <2>4, <2>5 DEF InstalledTyped
    <3>2. /\ \A w \in Versions \ {v} : tree'[w] = tree[w]
          /\ \A i \in Installers : installer'[i] = installer[i] \/ installer'[i].of = v
          /\ \A q \in Removers : remover'[q] = remover[q] \/ remover'[q].of = v
      BY <1>1, <2>1, <2>3, <2>4 DEF InstalledTyped
    <3> QED BY <2>1, <2>5, <3>1, <3>2, SharedStep
  <2>6. CASE shared' = shared /\ ~Installing(v) /\ ~Removing(v)
    <3>1. /\ \A i \in Installers : Installs(i) => installer[i].of # v
          /\ \A q \in Removers : Removal(q) => remover[q].of # v
      BY <2>6 DEF Installing, Removing, Installs, Removal
    <3>2. v \in Apart => /\ t.record = "complete" => t.bundle = "whole"
                         /\ Pinned(v) => t.bundle = "whole" /\ t.record \in {"complete", "withdrawn"}
      BY DEF InstalledInv, CompleteIsWhole, PinnedStays, Apart
    <3>3. RemoverAt(to, t, v) /\ t.there
      BY <2>1, <2>2 DEF RemoverAt, AsSeen, SeenUnpinned
    <3> HIDE DEF to, t
    <3>4. UNCHANGED <<pins, pinner, installer, late, shared>>
      BY <2>1, <2>6
    <3> QED BY ONLY InstalledInv, <2>3, <2>4, <3>4, <3>1, <3>2, <3>3, RemovalActs,
                    r \in Removers, v \in Versions
  <2> QED BY <2>1, <2>5, <2>6 DEF Shares
<1>3. CASE Proceeds(r)
  <2>1. remover[r].of \in Versions
    BY <1>3 DEF Proceeds, FirstLook, Withdraw, SecondLook, PutBack, RemoveAll, RemoverDies,
                InstalledInv, RemoversAt, Removal
  <2> QED BY <1>3, <2>1, RemovalApart, RemovalShared DEF Apart
<1> QED BY <1>2, <1>3 DEF Remove, Proceeds

(* What may be pinned is whole, and what is pinned stays, whatever dies    *)
(* and at whatever step: for every version that an installation and a      *)
(* removal, or two removals, were never at at once, and every pin that was *)
(* written before the last look of whoever was removing what it names      *)
(* (Install in install.go, withdraw in reclaim.go).                        *)
THEOREM InstalledStaysWhole == ReclaimSpec => []InstalledIsWhole
<1> USE ReclaimAssumption
<1>1. ReclaimInit => InstalledInv
  <2> SUFFICES ASSUME ReclaimInit
               PROVE  InstalledInv
    OBVIOUS
  <2>1. InstalledTyped
    BY DEF ReclaimInit, ReclaimAssumption, InstalledTyped, Absent, TreeRecord, InstallerRecord,
           PinnerRecord, RemoverRecord
  <2>2. \A v \in Versions : ~Pinned(v)
    <3>1. \A v \in Versions : v # 0
      BY DEF Versions
    <3> QED BY <3>1 DEF ReclaimInit, Pinned
  <2>3. PinnedStays
    BY <2>2 DEF PinnedStays, Apart
  <2>4. NothingThere /\ CompleteIsWhole
    BY DEF ReclaimInit, Absent, NothingThere, CompleteIsWhole, Apart
  <2>5. /\ \A i \in Installers : ~Installs(i)
        /\ \A r \in Removers : ~Removal(r)
    BY DEF ReclaimInit, Installs, Removal
  <2>6. InstallersAt /\ RemoversAt /\ OneAtAVersion
    BY <2>5 DEF InstallersAt, RemoversAt, OneAtAVersion
  <2> QED BY <2>1, <2>3, <2>4, <2>6 DEF InstalledInv
<1>2. InstalledInv /\ [ReclaimNext]_reclaimVars => InstalledInv'
  <2> SUFFICES ASSUME InstalledInv, [ReclaimNext]_reclaimVars
               PROVE  InstalledInv'
    OBVIOUS
  <2>1. CASE UNCHANGED treeVars
    <3>1. UNCHANGED <<tree, pins, installer, pinner, remover, late, shared>>
      BY <2>1 DEF treeVars
    <3>2. InstalledTyped' /\ NothingThere' /\ CompleteIsWhole' /\ PinnedStays'
      BY <3>1, PinsKept DEF InstalledInv, InstalledTyped, NothingThere, CompleteIsWhole, PinnedStays, Apart
    <3>3. InstallersAt' /\ OneAtAVersion'
      BY <3>1 DEF InstalledInv, InstallersAt, OneAtAVersion, Installs, Removal, Apart
    <3>4. RemoversAt'
      BY <3>1, PinsKept DEF InstalledInv, RemoversAt, RemoverAt, Removal, Apart
    <3> QED BY <3>2, <3>3, <3>4 DEF InstalledInv
  <2>2. CASE InstalledNext
    BY <2>2, InstallStep, PinStep, RemoveStep DEF InstalledNext
  <2>3. CASE \E p \in Claimants : Claims(p)
    BY <2>1, <2>3, ClaimsKeepTree
  <2> QED BY <2>1, <2>3, <2>2 DEF ReclaimNext, reclaimVars, treeVars
<1>3. InstalledInv => InstalledIsWhole
  <2> SUFFICES ASSUME InstalledInv
               PROVE  PinnedIsWhole
    BY DEF InstalledInv, InstalledIsWhole
  <2>1. ASSUME NEW n \in Instances \ late, pins[n] \notin {0} \cup shared
        PROVE  pins[n] \in Apart /\ Pinned(pins[n])
    BY <2>1, ReclaimAssumption DEF InstalledInv, InstalledTyped, Versions, Pinned, Apart
  <2> QED BY <2>1 DEF InstalledInv, PinnedStays, PinnedIsWhole
<1> QED BY <1>1, <1>3, <1>2, PTL DEF ReclaimSpec
--------------------------------------------------------------------------------
(* The guardian.                                                           *)

RecordSet == [there : BOOLEAN, desired : {"running", "stopped"}, failed : BOOLEAN,
              ephemeral : BOOLEAN, autostart : BOOLEAN]
WatchSet == [state : Active \cup {"none", "running", "refused"}, run : Nat,
             core : Nat, live : BOOLEAN, silent : BOOLEAN, ephemeral : BOOLEAN]
CoreSet == [at : {"executed", "claimed", "ended"}, slice : BOOLEAN, asked : BOOLEAN, by : Nat]
Going == {"starting", "observable", "stopping"}

(* A Core that is in the instance's slice, and not ended.                  *)
InSlice(c) == c.slice /\ c.at # "ended"

(* What is true of a watch, the Cores and their units, the timers and the  *)
(* executions at any moment, and between the steps of a handler.           *)
CoresMarked(cs) == cs \in Seq(CoreSet) /\ \A p \in DOMAIN cs : cs[p].by \in {0, p}

UnitsOfOne(cs, us) ==
    /\ \A p, q \in us : p = q
    /\ \A p \in DOMAIN cs : InSlice(cs[p]) =>
         us \subseteq {p} /\ \A q \in DOMAIN cs : InSlice(cs[q]) => p = q

WatchHas(w, cs, us) ==
    /\ w \in WatchSet
    /\ w.live <=> w.state \in Going
    /\ w.live => us \subseteq {w.core} /\ \A p \in DOMAIN cs : InSlice(cs[p]) => p = w.core
    /\ w.state = "waiting" => us = {} /\ \A p \in DOMAIN cs : ~InSlice(cs[p])

TimersOf(w, ts, n) ==
    /\ n \in Nat /\ w.run <= n
    /\ \A t \in ts : /\ t.run \in Nat /\ t.run <= n
                     /\ w.live /\ t.run = w.run => t.of = w.core

Carries(w, cs, us, ts, n) ==
    CoresMarked(cs) /\ UnitsOfOne(cs, us) /\ WatchHas(w, cs, us) /\ TimersOf(w, ts, n)

(* What the record declares is acted on.                                   *)
ActedOn(rec, w) ==
    IF Want(rec, FALSE)
    THEN w.state \in Active \cup {"refused", "running"}
    ELSE w.live => w.state = "stopping"

GuardianInv ==
    /\ record \in RecordSet
    /\ Carries(watch, cores, units, timers, runs)
    /\ loop \notin {"waiting", "leaving"} => owed
    /\ loop \in {"waiting", "leaving"} /\ ~owed => ActedOn(record, watch)

(* The slice is emptied: no Core in it is left.                            *)
LEMMA EmptiedCores ==
    ASSUME NEW cs, CoresMarked(cs)
    PROVE  /\ CoresMarked(Emptied(cs)) /\ DOMAIN Emptied(cs) = DOMAIN cs
           /\ Len(Emptied(cs)) = Len(cs)
           /\ \A p \in DOMAIN cs : ~InSlice(Emptied(cs)[p])
<1>1. cs \in Seq(CoreSet) /\ DOMAIN cs = 1..Len(cs) /\ Len(cs) \in Nat
      /\ \A p \in DOMAIN cs : cs[p] \in CoreSet /\ cs[p].by \in {0, p}
  BY DEF CoresMarked
<1>2. \A p \in DOMAIN cs : /\ Emptied(cs)[p] \in CoreSet /\ Emptied(cs)[p].by = cs[p].by
                           /\ ~InSlice(Emptied(cs)[p])
  BY <1>1 DEF Emptied, CoreSet, InSlice
<1>3. Emptied(cs) = [p \in 1..Len(cs) |-> Emptied(cs)[p]]
  BY <1>1 DEF Emptied
<1>4. Emptied(cs) \in [1..Len(cs) -> CoreSet]
  BY <1>1, <1>2, <1>3
<1>5. Emptied(cs) \in Seq(CoreSet) /\ Len(Emptied(cs)) = Len(cs) /\ DOMAIN Emptied(cs) = DOMAIN cs
  BY <1>1, <1>4
<1> QED BY <1>1, <1>2, <1>5 DEF CoresMarked

(* One more is executed.                                                   *)
LEMMA ExecutedCores ==
    ASSUME NEW cs, CoresMarked(cs), NEW slice \in BOOLEAN
    PROVE  /\ CoresMarked(Executed(cs, slice))
           /\ DOMAIN Executed(cs, slice) = DOMAIN cs \cup {Len(cs) + 1}
           /\ Len(cs) + 1 \notin DOMAIN cs
           /\ \A p \in DOMAIN cs : Executed(cs, slice)[p] = cs[p]
           /\ InSlice(Executed(cs, slice)[Len(cs) + 1]) <=> slice
<1> DEFINE c == [at |-> "executed", slice |-> slice, asked |-> FALSE, by |-> 0]
           new == Append(cs, c)
<1>1. cs \in Seq(CoreSet) /\ DOMAIN cs = 1..Len(cs) /\ Len(cs) \in Nat
  BY DEF CoresMarked
<1>2. c \in CoreSet /\ c.by = 0 /\ (InSlice(c) <=> slice)
  BY DEF CoreSet, InSlice
<1> HIDE DEF c
<1>3. /\ new \in Seq(CoreSet) /\ Len(new) = Len(cs) + 1 /\ DOMAIN new = 1..(Len(cs) + 1)
      /\ \A p \in 1..Len(cs) : new[p] = cs[p]
      /\ new[Len(cs) + 1] = c
  BY <1>1, <1>2, AppendProperties
<1>4. Executed(cs, slice) = new
  BY DEF Executed, c
<1> HIDE DEF new
<1>5. \A p \in DOMAIN new : new[p].by \in {0, p}
  BY <1>1, <1>2, <1>3 DEF CoresMarked
<1>6. DOMAIN new = DOMAIN cs \cup {Len(cs) + 1} /\ Len(cs) + 1 \notin DOMAIN cs
  BY <1>1, <1>3
<1> QED BY <1>2, <1>1, <1>3, <1>4, <1>5, <1>6 DEF CoresMarked

(* One is changed: asked, killed in its window, ended or claimed.          *)
LEMMA ChangedCores ==
    ASSUME NEW cs, CoresMarked(cs), NEW p, NEW c \in CoreSet,
           c.by \in {0, p}
    PROVE  LET new == [cs EXCEPT ![p] = c] IN
           /\ CoresMarked(new) /\ DOMAIN new = DOMAIN cs
           /\ \A q \in DOMAIN cs : new[q] = IF q = p THEN c ELSE cs[q]
<1> DEFINE new == [cs EXCEPT ![p] = c]
<1>1. cs \in Seq(CoreSet) /\ DOMAIN cs = 1..Len(cs) /\ Len(cs) \in Nat
      /\ \A q \in DOMAIN cs : cs[q] \in CoreSet
  BY DEF CoresMarked
<1>2. DOMAIN new = DOMAIN cs /\ \A q \in DOMAIN cs : new[q] = IF q = p THEN c ELSE cs[q]
  OBVIOUS
<1>3. new = [q \in 1..Len(cs) |-> IF q = p THEN c ELSE cs[q]]
  BY <1>1
<1>4. new \in [1..Len(cs) -> CoreSet]
  BY <1>1, <1>3
<1>5. new \in Seq(CoreSet)
  BY <1>1, <1>4
<1>6. \A q \in DOMAIN new : new[q].by \in {0, q}
  BY <1>2 DEF CoresMarked
<1> QED BY <1>2, <1>5, <1>6 DEF CoresMarked

(* A Core asked to stop is in the slice as before.                         *)
LEMMA AskedCores ==
    ASSUME NEW cs, CoresMarked(cs), NEW p, NEW a \in BOOLEAN
    PROVE  LET new == [cs EXCEPT ![p].asked = a] IN
           /\ CoresMarked(new) /\ DOMAIN new = DOMAIN cs
           /\ \A q \in DOMAIN cs : InSlice(new[q]) <=> InSlice(cs[q])
<1> DEFINE c == [cs[p] EXCEPT !.asked = a]
           new == [cs EXCEPT ![p].asked = a]
<1>1. CASE p \in DOMAIN cs
  <2>1. cs[p] \in CoreSet /\ cs[p].by \in {0, p}
    BY <1>1 DEF CoresMarked
  <2>2. c \in CoreSet /\ c.by \in {0, p} /\ c.slice = cs[p].slice /\ c.at = cs[p].at
    BY <2>1 DEF CoreSet
  <2>3. new = [cs EXCEPT ![p] = c]
    OBVIOUS
  <2> HIDE DEF c
  <2>4. /\ CoresMarked(new) /\ DOMAIN new = DOMAIN cs
        /\ \A q \in DOMAIN cs : new[q] = IF q = p THEN c ELSE cs[q]
    BY <2>2, <2>3, ChangedCores
  <2> HIDE DEF new
  <2> QED BY <2>2, <2>4 DEF InSlice, new
<1>2. CASE p \notin DOMAIN cs
  <2>1. new = cs
    BY <1>2 DEF CoresMarked
  <2> QED BY <2>1
<1> QED BY <1>1, <1>2

(* What is carried is carried to the same Cores, whatever they were asked. *)
LEMMA SameCores ==
    ASSUME NEW w, NEW cs, NEW us, NEW ts, NEW n, Carries(w, cs, us, ts, n),
           NEW new, CoresMarked(new), DOMAIN new = DOMAIN cs,
           \A q \in DOMAIN cs : InSlice(new[q]) => InSlice(cs[q])
    PROVE  Carries(w, new, us, ts, n)
BY DEF Carries, UnitsOfOne, WatchHas

(* A run that failed waits, or is marked.                                  *)
LEMMA FailedKeeps ==
    ASSUME NEW rec \in RecordSet, NEW w \in WatchSet, NEW cs, NEW us, NEW n,
           Failed(rec, w), ~w.live, CoresMarked(cs), us = {},
           \A p \in DOMAIN cs : ~InSlice(cs[p]),
           n \in Nat, w.run <= n, \A t \in timers : t.run \in Nat /\ t.run <= n
    PROVE  /\ record' \in RecordSet
           /\ Carries(watch', cs, us, timers', n)
           /\ ActedOn(record', watch')
<1>1. UnitsOfOne(cs, us)
  BY DEF UnitsOfOne
<1>2. CASE w.ephemeral
  <2>1. watch' = Unwatched /\ timers' = timers /\ record' = [rec EXCEPT !.failed = rec.there]
    BY <1>2 DEF Failed
  <2>2. record' \in RecordSet /\ ~Want(record', FALSE)
    BY <2>1 DEF RecordSet, Want
  <2>3. watch' \in WatchSet /\ ~watch'.live /\ watch'.state = "none" /\ watch'.run = 0
    BY <2>1 DEF Unwatched, WatchSet, Active
  <2>4. WatchHas(watch', cs, us) /\ TimersOf(watch', timers', n)
    BY <2>1, <2>3 DEF WatchHas, TimersOf, Going
  <2> QED BY <1>1, <2>2, <2>3, <2>4 DEF Carries, ActedOn
<1>3. CASE ~w.ephemeral
  <2> DEFINE to == [w EXCEPT !.state = "waiting"]
  <2>1. watch' = to /\ timers' = timers \cup {Timer("retry", w)} /\ record' = rec
    BY <1>3 DEF Failed
  <2>2. to \in WatchSet /\ ~to.live /\ to.state = "waiting" /\ to.run = w.run /\ w.run \in Nat
    BY DEF WatchSet, Active
  <2> HIDE DEF to
  <2>3. WatchHas(watch', cs, us)
    BY <2>1, <2>2 DEF WatchHas, Going
  <2>4. TimersOf(watch', timers', n)
    BY <2>1, <2>2 DEF TimersOf, Timer
  <2>5. ActedOn(record', watch')
    BY <2>1, <2>2 DEF ActedOn, Active
  <2> QED BY <1>1, <2>1, <2>3, <2>4, <2>5 DEF Carries
<1> QED BY <1>2, <1>3

(* Whatever was there goes first, and the Core has its own number.         *)
LEMMA StartKeeps ==
    ASSUME NEW rec \in RecordSet, NEW w, NEW cs, NEW us,
           Carries(w, cs, us, timers, runs), ~w.live, Want(rec, FALSE),
           Start(rec, w, cs, us)
    PROVE  /\ record' \in RecordSet
           /\ Carries(watch', cores', units', timers', runs')
           /\ ActedOn(record', watch')
<1> DEFINE left == Emptied(cs)
           n == runs + 1
           next == [w EXCEPT !.run = n, !.ephemeral = rec.ephemeral]
<1>1. w \in WatchSet /\ runs \in Nat /\ w.run <= runs /\ (\A t \in timers : t.run \in Nat /\ t.run <= runs)
      /\ CoresMarked(cs)
  BY DEF Carries, WatchHas, TimersOf
<1>2. /\ CoresMarked(left) /\ DOMAIN left = DOMAIN cs /\ Len(left) = Len(cs)
      /\ \A p \in DOMAIN left : ~InSlice(left[p])
  BY <1>1, EmptiedCores
<1>3. next \in WatchSet /\ ~next.live /\ next.run = n /\ n \in Nat
  <2>1. n \in Nat /\ rec.ephemeral \in BOOLEAN
    BY <1>1 DEF RecordSet
  <2>2. ASSUME NEW m \in Nat, NEW e \in BOOLEAN
        PROVE  LET one == [w EXCEPT !.run = m, !.ephemeral = e] IN
               one \in WatchSet /\ one.live = w.live /\ one.run = m
    BY <1>1 DEF WatchSet
  <2> QED BY <2>1, <2>2
<1>4. runs' = n /\ units' = {}
  BY DEF Start, NewRun, Cleared
<1>5. CASE cores' = left /\ Failed(rec, next)
  <2> HIDE DEF next, left, n
  <2>1. \A t \in timers : t.run \in Nat /\ t.run <= n
    BY <1>1 DEF n
  <2>2. next.run <= n
    BY <1>3
  <2> QED BY <1>2, <1>4, <1>3, <1>5, <2>1, <2>2, FailedKeeps
<1>6. CASE LET up == [next EXCEPT !.state = "starting", !.core = Len(left) + 1, !.live = TRUE] IN
           /\ cores' = Executed(left, TRUE)
           /\ watch' = up
           /\ timers' = timers \cup {Timer("noBeat", up)}
           /\ record' = rec
  <2> DEFINE p == Len(left) + 1
             up == [next EXCEPT !.state = "starting", !.core = p, !.live = TRUE]
  <2>1. /\ cores' = Executed(left, TRUE) /\ watch' = up /\ record' = rec
        /\ timers' = timers \cup {Timer("noBeat", up)}
    BY <1>6
  <2>2. Len(left) \in Nat
    BY <1>2 DEF CoresMarked
  <2>3. up \in WatchSet /\ up.live /\ up.state = "starting" /\ up.core = p /\ up.run = n
    <3>1. p \in Nat
      BY <2>2
    <3>2. ASSUME NEW m \in WatchSet, NEW k \in Nat
          PROVE  LET one == [m EXCEPT !.state = "starting", !.core = k, !.live = TRUE] IN
                 one \in WatchSet /\ one.live /\ one.state = "starting" /\ one.core = k /\ one.run = m.run
      BY DEF WatchSet, Active
    <3> HIDE DEF next, p
    <3> QED BY <1>3, <3>1, <3>2
  <2>4. /\ CoresMarked(cores') /\ DOMAIN cores' = DOMAIN left \cup {p} /\ p \notin DOMAIN left
        /\ \A q \in DOMAIN left : cores'[q] = left[q]
    BY <1>2, <2>1, ExecutedCores
  <2>5. \A q \in DOMAIN cores' : InSlice(cores'[q]) => q = p
    BY <1>2, <2>4
  <2> HIDE DEF left, p, up, next
  <2>6. UnitsOfOne(cores', units')
    BY <1>4, <2>5 DEF UnitsOfOne
  <2>7. WatchHas(watch', cores', units')
    BY <1>4, <2>1, <2>3, <2>5 DEF WatchHas, Going
  <2>8. TimersOf(watch', timers', runs')
    <3>1. Timer("noBeat", up).run = n /\ Timer("noBeat", up).of = p
      BY <2>3 DEF Timer
    <3>2. \A t \in timers : t.run \in Nat /\ t.run < n
      BY <1>1
    <3>3. n \in Nat /\ n <= n
      BY <1>3
    <3> HIDE DEF n
    <3> QED BY <1>4, <2>1, <2>3, <3>1, <3>2, <3>3 DEF TimersOf
  <2>9. ActedOn(record', watch')
    BY <2>1, <2>3 DEF ActedOn, Active
  <2> QED BY <2>1, <2>4, <2>6, <2>7, <2>8, <2>9 DEF Carries
<1> QED BY <1>5, <1>6 DEF Start, NewRun

(* An event that compares the record acts on it, and carries nothing over. *)
LEMMA ReconcileKeeps ==
    ASSUME NEW rec \in RecordSet, NEW w, NEW cs, NEW us, NEW boot \in BOOLEAN,
           Carries(w, cs, us, timers, runs), Reconcile(rec, w, cs, us, boot)
    PROVE  /\ record' \in RecordSet
           /\ Carries(watch', cores', units', timers', runs')
           /\ ~boot => ActedOn(record', watch')
<1> DEFINE held == Holder(cs)
           want == Want(rec, boot)
<1>1. want => Want(rec, FALSE)
  BY DEF Want
<1>2. ~boot => (want <=> Want(rec, FALSE))
  BY DEF Want
<1>3. w \in WatchSet /\ (w.live <=> w.state \in Going) /\ CoresMarked(cs)
  BY DEF Carries, WatchHas
<1>4. CASE /\ w.live /\ (want \/ w.state = "stopping")
           /\ Keep(rec, w, cs, us)
  <2>1. record' = rec /\ watch' = w /\ cores' = cs /\ units' = us /\ timers' = timers /\ runs' = runs
    BY <1>4 DEF Keep
  <2>2. w.state \in Active /\ (~boot => Want(rec, FALSE) \/ w.state = "stopping")
    <3>1. w.state \in Active
      BY <1>3, <1>4 DEF Going, Active
    <3> HIDE DEF want
    <3> QED BY <1>2, <1>4, <3>1
  <2> QED BY <2>1, <2>2 DEF ActedOn
<1>5. CASE /\ w.live /\ ~want /\ w.state # "stopping"
           /\ Stop(w, cs) /\ record' = rec /\ units' = us /\ UNCHANGED runs
  <2> DEFINE to == [w EXCEPT !.state = "stopping"]
  <2>1. /\ watch' = to /\ cores' = [cs EXCEPT ![w.core].asked = TRUE]
        /\ timers' = timers \cup {Timer("kill", w)} /\ record' = rec /\ units' = us /\ runs' = runs
    BY <1>5 DEF Stop
  <2>2. to \in WatchSet /\ to.live /\ to.state = "stopping" /\ to.core = w.core /\ to.run = w.run
        /\ w.run \in Nat
    BY <1>3, <1>5 DEF WatchSet, Active
  <2>3. Carries(w, cores', us, timers, runs)
    <3>1. /\ CoresMarked(cores') /\ DOMAIN cores' = DOMAIN cs
          /\ \A q \in DOMAIN cs : InSlice(cores'[q]) <=> InSlice(cs[q])
      BY <1>3, <2>1, AskedCores
    <3> QED BY <3>1, SameCores
  <2> HIDE DEF to
  <2>4. WatchHas(to, cores', us)
    BY <1>5, <2>2, <2>3 DEF Carries, WatchHas, Going
  <2>5. TimersOf(to, timers', runs)
    BY <1>5, <2>1, <2>2, <2>3 DEF Carries, TimersOf, Timer
  <2>6. Carries(watch', cores', units', timers', runs')
    BY <2>1, <2>3, <2>4, <2>5 DEF Carries
  <2>7. ActedOn(record', watch')
    BY <2>1, <2>2 DEF ActedOn, Active
  <2> QED BY <2>1, <2>6, <2>7
<1>6. CASE /\ ~w.live /\ rec.there /\ held # 0
           /\ Keep(rec, [w EXCEPT !.state = "running", !.core = held],
                   [cs EXCEPT ![held].asked = @ \/ ~want], us)
  <2> DEFINE to == [w EXCEPT !.state = "running", !.core = held]
             new == [cs EXCEPT ![held].asked = @ \/ ~want]
  <2>1. record' = rec /\ watch' = to /\ cores' = new /\ units' = us /\ timers' = timers /\ runs' = runs
    BY <1>6 DEF Keep
  <2>2. held \in DOMAIN cs
    BY <1>6 DEF Holder, Holders
  <2>3. to \in WatchSet /\ ~to.live /\ to.state = "running" /\ to.run = w.run
    <3>1. held \in Nat
      BY <1>3, <2>2 DEF CoresMarked
    <3>2. ASSUME NEW m \in Nat
          PROVE  LET one == [w EXCEPT !.state = "running", !.core = m] IN
                 one \in WatchSet /\ one.live = w.live /\ one.state = "running" /\ one.run = w.run
      BY <1>3 DEF WatchSet
    <3> HIDE DEF held
    <3> QED BY <1>6, <3>1, <3>2
  <2>4. Carries(w, cores', us, timers, runs)
    <3> DEFINE a == cs[held].asked \/ ~want
    <3>1. new = [cs EXCEPT ![held].asked = a] /\ a \in BOOLEAN
      BY <1>3, <2>2 DEF CoresMarked, CoreSet, Want, RecordSet
    <3> HIDE DEF a, held
    <3>2. /\ CoresMarked(new) /\ DOMAIN new = DOMAIN cs
          /\ \A q \in DOMAIN cs : InSlice(new[q]) <=> InSlice(cs[q])
      BY <1>3, <3>1, AskedCores
    <3> HIDE DEF new
    <3> QED BY <2>1, <3>2, SameCores
  <2> HIDE DEF to, new
  <2>5. WatchHas(to, cores', us)
    BY <2>3 DEF WatchHas, Going
  <2>6. TimersOf(to, timers, runs)
    BY <2>3, <2>4 DEF Carries, TimersOf
  <2>7. Carries(watch', cores', units', timers', runs')
    BY <2>1, <2>4, <2>5, <2>6 DEF Carries
  <2>8. ActedOn(record', watch')
    BY <2>1, <2>3 DEF ActedOn
  <2> QED BY <2>1, <2>7, <2>8
<1>7. CASE /\ ~w.live /\ held = 0 /\ want /\ w.state = "waiting"
           /\ Keep(rec, w, cs, us)
  <2>1. record' = rec /\ watch' = w /\ cores' = cs /\ units' = us /\ timers' = timers /\ runs' = runs
    BY <1>7 DEF Keep
  <2>2. ActedOn(rec, w)
    BY <1>7 DEF ActedOn, Active
  <2> QED BY <2>1, <2>2
<1>8. CASE ~w.live /\ want /\ Refuse(rec, w, cs, us)
  <2> DEFINE to == [w EXCEPT !.state = "refused", !.core = 0, !.ephemeral = rec.ephemeral]
  <2>1. record' = rec /\ watch' = to /\ cores' = cs /\ units' = us /\ timers' = timers /\ runs' = runs
    BY <1>8 DEF Refuse, Keep
  <2>2. to \in WatchSet /\ ~to.live /\ to.state = "refused" /\ to.run = w.run
    <3>1. ASSUME NEW e \in BOOLEAN
          PROVE  LET one == [w EXCEPT !.state = "refused", !.core = 0, !.ephemeral = e] IN
                 one \in WatchSet /\ one.live = w.live /\ one.state = "refused" /\ one.run = w.run
      BY <1>3 DEF WatchSet
    <3>2. rec.ephemeral \in BOOLEAN
      BY DEF RecordSet
    <3> QED BY <1>8, <3>1, <3>2
  <2> HIDE DEF to
  <2>3. WatchHas(to, cs, us)
    BY <2>2 DEF WatchHas, Going
  <2>4. TimersOf(to, timers, runs)
    BY <2>2 DEF Carries, TimersOf
  <2>5. Carries(watch', cores', units', timers', runs')
    BY <2>1, <2>3, <2>4 DEF Carries
  <2>6. ActedOn(record', watch')
    BY <2>1, <2>2 DEF ActedOn
  <2> QED BY <2>1, <2>5, <2>6
<1>9. CASE ~w.live /\ want /\ Start(rec, w, cs, us)
  BY <1>1, <1>9, StartKeeps
<1>10. CASE /\ ~w.live /\ (~rec.there \/ (held = 0 /\ ~want))
            /\ Keep(rec, Unwatched, cs, us)
  <2>1. /\ record' = rec /\ watch' = Unwatched /\ cores' = cs /\ units' = us /\ timers' = timers
        /\ runs' = runs
    BY <1>10 DEF Keep
  <2>2. Unwatched \in WatchSet /\ ~Unwatched.live /\ Unwatched.state = "none" /\ Unwatched.run = 0
    BY DEF Unwatched, WatchSet, Active
  <2>3. WatchHas(Unwatched, cs, us)
    BY <2>2 DEF WatchHas, Going
  <2>4. TimersOf(Unwatched, timers, runs)
    BY <2>2 DEF Carries, TimersOf
  <2>5. Carries(watch', cores', units', timers', runs')
    BY <2>1, <2>3, <2>4 DEF Carries
  <2>6. ~boot => ~Want(rec, FALSE)
    BY <1>2, <1>10 DEF Want
  <2>7. ~boot => ActedOn(record', watch')
    BY <2>1, <2>2, <2>6 DEF ActedOn
  <2> QED BY <2>1, <2>5, <2>7
<1> QED BY <1>4, <1>6, <1>5, <1>7, <1>8, <1>9, <1>10 DEF Reconcile

(* A guardian that watches no Core holds nothing of one: no run, no        *)
(* announcement, no window, whatever the Cores and the units are.          *)
LEMMA UnwatchedHas ==
    /\ Unwatched \in WatchSet /\ ~Unwatched.live /\ Unwatched.state = "none" /\ Unwatched.run = 0
    /\ \A cs, us : WatchHas(Unwatched, cs, us)
<1>1. Unwatched \in WatchSet /\ ~Unwatched.live /\ Unwatched.state = "none" /\ Unwatched.run = 0
  BY DEF Unwatched, WatchSet, Active
<1> QED BY <1>1 DEF WatchHas, Going

(* A guardian that is gone carries nothing.                                *)
LEMMA GoneKeeps ==
    ASSUME GuardianInv, Gone, CoresMarked(cores'), DOMAIN cores' = DOMAIN cores,
           \A q \in DOMAIN cores : InSlice(cores'[q]) => InSlice(cores[q]),
           units' \subseteq units, UNCHANGED record
    PROVE  GuardianInv'
<1>1. watch' = Unwatched /\ timers' = {} /\ runs' = 0 /\ owed' /\ loop' = "none"
  BY DEF Gone
<1>2. UnitsOfOne(cores', units')
  BY DEF GuardianInv, Carries, UnitsOfOne
<1>3. WatchHas(watch', cores', units') /\ TimersOf(watch', timers', runs')
  BY <1>1, UnwatchedHas DEF TimersOf
<1> QED BY <1>1, <1>3, <1>2 DEF GuardianInv, Carries

(* The Cores come, claim and end as they will.                             *)
LEMMA CoresStep ==
    ASSUME GuardianInv,
           ByHand \/ \E p \in DOMAIN cores : Claim(p) \/ CoreEnds(p)
    PROVE  GuardianInv'
<1>0. UNCHANGED <<loop, watch, runs, timers, record, owed>>
  BY DEF ByHand, Claim, CoreEnds, daemonVars, intentVars
<1>1. CoresMarked(cores) /\ UnitsOfOne(cores, units) /\ WatchHas(watch, cores, units)
      /\ TimersOf(watch, timers, runs)
  BY DEF GuardianInv, Carries
<1>2. SUFFICES CoresMarked(cores') /\ UnitsOfOne(cores', units') /\ WatchHas(watch, cores', units')
  BY <1>0, <1>1 DEF GuardianInv, Carries
<1>3. CASE ByHand
  <2>1. /\ CoresMarked(cores') /\ units' = units
        /\ DOMAIN cores' = DOMAIN cores \cup {Len(cores) + 1}
        /\ \A p \in DOMAIN cores : cores'[p] = cores[p]
        /\ ~InSlice(cores'[Len(cores) + 1])
    BY <1>1, <1>3, ExecutedCores DEF ByHand
  <2>2. \A q \in DOMAIN cores' : InSlice(cores'[q]) => q \in DOMAIN cores /\ InSlice(cores[q])
    BY <2>1
  <2> QED BY <1>1, <2>1, <2>2 DEF UnitsOfOne, WatchHas
<1>4. ASSUME NEW p \in DOMAIN cores, Claim(p)
      PROVE  CoresMarked(cores') /\ UnitsOfOne(cores', units') /\ WatchHas(watch, cores', units')
  <2> DEFINE c == [cores[p] EXCEPT !.at = "claimed"]
  <2>1. cores[p] \in CoreSet /\ cores[p].by \in {0, p} /\ cores[p].at = "executed"
    BY <1>1, <1>4 DEF CoresMarked, Claim
  <2>2. c \in CoreSet /\ c.by \in {0, p} /\ (InSlice(c) <=> InSlice(cores[p])) /\ (InSlice(c) <=> cores[p].slice)
    BY <2>1 DEF CoreSet, InSlice
  <2>3. cores' = [cores EXCEPT ![p] = c]
    BY <1>4 DEF Claim
  <2> HIDE DEF c
  <2>4. /\ CoresMarked(cores') /\ DOMAIN cores' = DOMAIN cores
        /\ \A q \in DOMAIN cores : cores'[q] = IF q = p THEN c ELSE cores[q]
    BY <1>1, <2>2, <2>3, ChangedCores
  <2>5. \A q \in DOMAIN cores : InSlice(cores'[q]) <=> InSlice(cores[q])
    BY <2>2, <2>4
  <2>6. CASE cores[p].slice
    <3>1. units' = units \cup {p} /\ InSlice(cores[p])
      BY <1>4, <2>2, <2>6 DEF Claim
    <3>2. units' = {p} /\ \A q \in DOMAIN cores : InSlice(cores[q]) => q = p
      BY <1>1, <3>1 DEF UnitsOfOne
    <3> QED BY <1>1, <2>4, <2>5, <3>1, <3>2 DEF UnitsOfOne, WatchHas
  <2>7. CASE ~cores[p].slice
    <3>1. units' = units
      BY <1>4, <2>7 DEF Claim
    <3> QED BY <1>1, <2>4, <2>5, <3>1 DEF UnitsOfOne, WatchHas
  <2> QED BY <2>6, <2>7
<1>5. ASSUME NEW p \in DOMAIN cores, CoreEnds(p)
      PROVE  CoresMarked(cores') /\ UnitsOfOne(cores', units') /\ WatchHas(watch, cores', units')
  <2> DEFINE c == [cores[p] EXCEPT !.at = "ended"]
  <2>1. cores[p] \in CoreSet /\ cores[p].by \in {0, p}
    BY <1>1 DEF CoresMarked
  <2>2. c \in CoreSet /\ c.by \in {0, p} /\ ~InSlice(c)
    BY <2>1 DEF CoreSet, InSlice
  <2>3. cores' = [cores EXCEPT ![p] = c] /\ units' \subseteq units
    BY <1>5 DEF CoreEnds
  <2> HIDE DEF c
  <2>4. /\ CoresMarked(cores') /\ DOMAIN cores' = DOMAIN cores
        /\ \A q \in DOMAIN cores : cores'[q] = IF q = p THEN c ELSE cores[q]
    BY <1>1, <2>2, <2>3, ChangedCores
  <2>5. \A q \in DOMAIN cores : InSlice(cores'[q]) => InSlice(cores[q])
    BY <2>2, <2>4
  <2>6. UnitsOfOne(cores', units')
    BY <1>1, <2>3, <2>4, <2>5 DEF UnitsOfOne
  <2>7. WatchHas(watch, cores', units')
    BY <1>1, <2>3, <2>4, <2>5 DEF WatchHas
  <2> QED BY <2>4, <2>6, <2>7
<1> QED BY <1>3, <1>4, <1>5

(* A Core is killed by a timer of its own run alone.                       *)
LEMMA KilledCores ==
    ASSUME CoresMarked(cores), NEW p,
           cores' = IF Live(cores, p) THEN Killed(cores, p, p) ELSE cores
    PROVE  /\ CoresMarked(cores') /\ DOMAIN cores' = DOMAIN cores
           /\ \A q \in DOMAIN cores : InSlice(cores'[q]) => InSlice(cores[q])
<1>1. CASE Live(cores, p)
  <2> DEFINE c == [cores[p] EXCEPT !.at = "ended", !.by = p]
  <2>1. p \in DOMAIN cores /\ p \in Nat /\ cores[p] \in CoreSet
    BY <1>1 DEF Live, CoresMarked
  <2>2. c \in CoreSet /\ c.by \in {0, p} /\ ~InSlice(c)
    BY <2>1 DEF CoreSet, InSlice
  <2>3. cores' = [cores EXCEPT ![p] = c]
    BY <1>1 DEF Killed
  <2> HIDE DEF c
  <2>4. /\ CoresMarked(cores') /\ DOMAIN cores' = DOMAIN cores
        /\ \A q \in DOMAIN cores : cores'[q] = IF q = p THEN c ELSE cores[q]
    BY <2>2, <2>3, ChangedCores
  <2> QED BY <2>2, <2>4
<1>2. CASE ~Live(cores, p)
  BY <1>2
<1> QED BY <1>1, <1>2

(* What the loop does about the instance.                                  *)
LEMMA HandlesStep ==
    ASSUME GuardianInv, First \/ Wake \/ Ended
    PROVE  GuardianInv'
<1>0. loop' \in {"waiting", "leaving"}
  BY DEF First, Wake, Ended, GoesOn
<1>1. record \in RecordSet /\ Carries(watch, cores, units, timers, runs)
  BY DEF GuardianInv
<1>2. CASE First
  <2> DEFINE boot == loop = "boot"
  <2>1. Reconcile(record, watch, cores, units, boot) /\ boot \in BOOLEAN /\ owed
    BY <1>2 DEF First, GuardianInv
  <2>2. /\ record' \in RecordSet /\ Carries(watch', cores', units', timers', runs')
        /\ ~boot => ActedOn(record', watch')
    <3> HIDE DEF boot
    <3> QED BY <1>1, <2>1, ReconcileKeeps
  <2>3. owed' <=> boot
    BY <2>1 DEF Reconcile
  <2> QED BY <1>0, <2>2, <2>3 DEF GuardianInv
<1>3. CASE Wake
  <2>1. Reconcile(record, watch, cores, units, FALSE)
    BY <1>3 DEF Wake
  <2> QED BY <1>0, <1>1, <2>1, ReconcileKeeps DEF GuardianInv
<1>4. CASE Ended
  <2> DEFINE cs == Emptied(cores)
             w == [watch EXCEPT !.core = 0, !.live = FALSE]
             rec == IF watch.ephemeral THEN Undeclared ELSE record
  <2>1. CoresMarked(cs) /\ DOMAIN cs = DOMAIN cores /\ \A p \in DOMAIN cs : ~InSlice(cs[p])
    BY <1>1, EmptiedCores DEF Carries
  <2>2. watch \in WatchSet /\ TimersOf(watch, timers, runs)
    BY <1>1 DEF Carries, WatchHas
  <2>3. CASE Stopped(rec, cs)
    <3>1. rec \in RecordSet
      BY <1>1 DEF Undeclared, RecordSet
    <3> HIDE DEF cs, rec
    <3>2. UnitsOfOne(cs, {})
      BY <2>1 DEF UnitsOfOne
    <3>3. TimersOf(Unwatched, timers, runs)
      BY <2>2, UnwatchedHas DEF TimersOf
    <3>4. Carries(Unwatched, cs, {}, timers, runs)
      BY <2>1, <3>2, <3>3, UnwatchedHas DEF Carries
    <3>5. Reconcile(rec, Unwatched, cs, {}, FALSE)
      BY <2>3 DEF Stopped
    <3> QED BY <1>0, <3>1, <3>4, <3>5, ReconcileKeeps DEF GuardianInv
  <2>4. CASE Failed(record, w) /\ units' = {} /\ cores' = cs /\ runs' = runs
    <3>1. w \in WatchSet /\ ~w.live /\ w.run = watch.run
      BY <2>2 DEF WatchSet
    <3>2. /\ runs \in Nat /\ watch.run <= runs
          /\ \A t \in timers : t.run \in Nat /\ t.run <= runs
      BY <2>2 DEF TimersOf
    <3> HIDE DEF w, cs
    <3>3. record' \in RecordSet /\ Carries(watch', cs, {}, timers', runs) /\ ActedOn(record', watch')
      BY <1>1, <2>1, <2>4, <3>1, <3>2, FailedKeeps
    <3> QED BY <1>0, <2>4, <3>3 DEF GuardianInv
  <2> QED BY <1>4, <2>3, <2>4 DEF Ended
<1> QED BY <1>2, <1>3, <1>4

(* A beat is of the Core that is watched, or is refused.                   *)
LEMMA BeatStep ==
    ASSUME GuardianInv, NEW p \in DOMAIN cores, Beat(p)
    PROVE  GuardianInv'
<1>1. /\ UNCHANGED <<loop, runs, cores, units, record, owed>>
      /\ loop = "waiting"
  BY DEF Beat, worldVars, intentVars
<1>2. CoresMarked(cores) /\ UnitsOfOne(cores, units) /\ WatchHas(watch, cores, units)
      /\ TimersOf(watch, timers, runs)
  BY DEF GuardianInv, Carries
<1>3. watch \in WatchSet /\ watch.state \in {"starting", "observable"} /\ watch.live
  BY <1>2 DEF Beat, WatchHas, Going
<1>4. PICK to \in {"stopping", "observable"} :
          /\ watch' = [watch EXCEPT !.state = to, !.silent = FALSE]
          /\ to = "observable" => watch.state = "starting"
          /\ timers' \in {timers, timers \cup {Timer("silence", watch)}}
  BY DEF Beat
<1>5. watch' \in WatchSet /\ watch'.live /\ watch'.state = to /\ watch'.core = watch.core
      /\ watch'.run = watch.run
  BY <1>3, <1>4 DEF WatchSet, Active
<1>6. WatchHas(watch', cores, units)
  BY <1>2, <1>3, <1>5 DEF WatchHas, Going
<1>7. TimersOf(watch', timers', runs)
  <2>1. watch.run \in Nat
    BY <1>3 DEF WatchSet
  <2>2. Timer("silence", watch).run = watch.run /\ Timer("silence", watch).of = watch.core
    BY DEF Timer
  <2> QED BY <1>2, <1>4, <1>3, <1>5, <2>1, <2>2 DEF TimersOf
<1>8. Carries(watch', cores', units', timers', runs')
  BY <1>1, <1>2, <1>6, <1>7 DEF Carries
<1>9. ~owed => ActedOn(record, watch')
  <2>1. ~owed => Want(record, FALSE)
    BY <1>1, <1>3 DEF GuardianInv, ActedOn
  <2> QED BY <1>5, <2>1 DEF ActedOn, Active
<1> QED BY <1>1, <1>8, <1>9 DEF GuardianInv

(* A timer acts in its own run.                                            *)
LEMMA ElapsesStep ==
    ASSUME GuardianInv, NEW t \in timers, Elapses(t)
    PROVE  GuardianInv'
<1>0. loop = "waiting" /\ loop' \in {"waiting", "leaving"} /\ Acts(t)
  BY DEF Elapses, GoesOn
<1>1. record \in RecordSet /\ Carries(watch, cores, units, timers, runs)
      /\ (~owed => ActedOn(record, watch))
  BY <1>0 DEF GuardianInv
<1>2. CoresMarked(cores) /\ UnitsOfOne(cores, units) /\ WatchHas(watch, cores, units)
      /\ TimersOf(watch, timers, runs) /\ watch \in WatchSet
  BY <1>1 DEF Carries, WatchHas
<1>3. CASE Kills(t)
  <2>1. watch.live /\ t.of = watch.core
    BY <1>0, <1>2, <1>3 DEF Kills, Acts, Current, WatchHas, Going, TimersOf
  <2>2. /\ CoresMarked(cores') /\ DOMAIN cores' = DOMAIN cores
        /\ \A q \in DOMAIN cores : InSlice(cores'[q]) => InSlice(cores[q])
    BY <1>2, <1>3, <2>1, KilledCores DEF Kills
  <2>3. Carries(watch, cores', units, timers, runs)
    BY <1>1, <2>2, SameCores
  <2>4. TimersOf(watch, timers', runs)
    BY <1>2, <1>3 DEF Kills, TimersOf
  <2>5. Carries(watch', cores', units', timers', runs')
    BY <1>3, <2>3, <2>4 DEF Kills, Carries
  <2> QED BY <1>0, <1>1, <1>3, <2>5 DEF Kills, GuardianInv
<1>4. CASE GrowsSilent(t)
  <2> DEFINE w == [watch EXCEPT !.silent = TRUE]
             to == [w EXCEPT !.state = "stopping"]
  <2>1. watch.state = "observable" /\ watch.live
    BY <1>0, <1>2, <1>4 DEF GrowsSilent, Acts, WatchHas, Going
  <2>2. w \in WatchSet /\ w.run = watch.run /\ w.core = watch.core /\ w.run \in Nat
    BY <1>2 DEF WatchSet
  <2>3. to \in WatchSet /\ to.live /\ to.state = "stopping" /\ to.run = watch.run /\ to.core = watch.core
    BY <1>2, <2>1 DEF WatchSet, Active
  <2>4. /\ watch' = to /\ timers' = timers \cup {Timer("kill", w)}
        /\ cores' = [cores EXCEPT ![watch.core].asked = TRUE]
        /\ UNCHANGED <<runs, units, record, owed>>
    BY <1>4, <2>2 DEF GrowsSilent, Stop
  <2> HIDE DEF to, w
  <2>5. /\ CoresMarked(cores') /\ DOMAIN cores' = DOMAIN cores
        /\ \A q \in DOMAIN cores : InSlice(cores'[q]) <=> InSlice(cores[q])
    BY <1>2, <2>4, AskedCores
  <2>6. Carries(watch, cores', units, timers, runs)
    BY <1>1, <2>5, SameCores
  <2>7. WatchHas(to, cores', units)
    BY <2>1, <2>3, <2>6 DEF Carries, WatchHas, Going
  <2>8. TimersOf(to, timers', runs)
    BY <1>2, <2>2, <2>1, <2>3, <2>4 DEF TimersOf, Timer
  <2>9. Carries(watch', cores', units', timers', runs')
    BY <2>4, <2>6, <2>7, <2>8 DEF Carries
  <2>10. ActedOn(record', watch')
    BY <2>3, <2>4 DEF ActedOn, Active
  <2> QED BY <1>0, <1>1, <2>4, <2>9, <2>10 DEF GuardianInv
<1>5. CASE TriesAgain(t)
  <2> DEFINE w == [watch EXCEPT !.state = "none"]
  <2>1. watch.state = "waiting" /\ ~watch.live
    BY <1>0, <1>2, <1>5 DEF TriesAgain, Acts, WatchHas, Going
  <2>2. w \in WatchSet /\ ~w.live /\ w.state = "none" /\ w.run = watch.run
    BY <1>2, <2>1 DEF WatchSet, Active
  <2>3. Reconcile(record, w, cores, units, FALSE)
    BY <1>5 DEF TriesAgain
  <2> HIDE DEF w
  <2>4. WatchHas(w, cores, units) /\ TimersOf(w, timers, runs)
    BY <1>2, <2>2 DEF WatchHas, Going, TimersOf
  <2>5. Carries(w, cores, units, timers, runs)
    BY <1>2, <2>4 DEF Carries
  <2> QED BY <1>0, <1>1, <2>3, <2>5, ReconcileKeeps DEF GuardianInv
<1> QED BY <1>3, <1>4, <1>5 DEF Elapses

(* What a manager writes is owed.                                          *)
LEMMA ManagesStep ==
    ASSUME GuardianInv, NEW m \in Managers, Manages(m)
    PROVE  GuardianInv'
<1>1. UNCHANGED <<loop, watch, runs, timers, cores, units>>
  BY DEF Manages, daemonVars, worldVars
<1>2. record \in RecordSet
  BY DEF GuardianInv
<1>3. (record' \in RecordSet /\ owed') \/ UNCHANGED <<record, owed>>
  <2>1. CASE StartVerb(m) \/ StopVerb(m) \/ RestartVerb(m) \/ Waited(m)
    BY <1>2, <2>1 DEF StartVerb, StopVerb, RestartVerb, Waited, Writes, RecordSet
  <2>2. CASE Removes(m)
    BY <2>2 DEF Removes, Writes, Undeclared, RecordSet
  <2>3. CASE Creates(m)
    BY <2>3 DEF Creates, Writes, Creatable, Records, RecordSet
  <2>4. CASE RemoveVerb(m) \/ Looks(m) \/ Finds(m)
    BY <2>4 DEF RemoveVerb, Looks, Finds
  <2> QED BY <2>2, <2>1, <2>3, <2>4 DEF Manages
<1> QED BY <1>1, <1>3, <1>2 DEF GuardianInv

(* What is kept of the guardian is kept by every step.                     *)
LEMMA GuardianStep ==
    ASSUME GuardianInv, [GuardianNext]_guardianVars
    PROVE  GuardianInv'
<1>1. CASE UNCHANGED guardianVars
  BY <1>1 DEF guardianVars, daemonVars, worldVars, intentVars, GuardianInv
<1>2. ASSUME NEW boot \in BOOLEAN, Begins(boot)
      PROVE  GuardianInv'
  BY <1>2 DEF Begins, worldVars, intentVars, GuardianInv
<1>3. CASE Handles
  BY <1>3, HandlesStep DEF Handles
<1>4. CASE Exits \/ Crashes
  <2>1. Gone /\ UNCHANGED <<cores, units, record>> /\ CoresMarked(cores)
    BY <1>4 DEF Exits, Crashes, worldVars, GuardianInv, Carries
  <2> QED BY <2>1, GoneKeeps
<1>5. CASE Abandons
  <2>1. Gone /\ units' \subseteq units /\ UNCHANGED record /\ CoresMarked(cores)
    BY <1>5 DEF Abandons, GuardianInv, Carries
  <2>2. cores' = cores \/ cores' = IF Live(cores, watch.core) THEN Killed(cores, watch.core, watch.core) ELSE cores
    BY <1>5 DEF Abandons
  <2>3. /\ CoresMarked(cores') /\ DOMAIN cores' = DOMAIN cores
        /\ \A q \in DOMAIN cores : InSlice(cores'[q]) => InSlice(cores[q])
    BY <2>1, <2>2, KilledCores
  <2> QED BY <2>1, <2>3, GoneKeeps
<1>6. CASE \E t \in timers : Elapses(t)
  BY <1>6, ElapsesStep
<1>7. CASE ByHand \/ \E p \in DOMAIN cores : Claim(p) \/ CoreEnds(p)
  BY <1>7, CoresStep
<1>8. CASE \E p \in DOMAIN cores : Beat(p)
  BY <1>8, BeatStep
<1>9. CASE \E m \in Managers : Manages(m)
  BY <1>9, ManagesStep
<1>10. CASE \E m \in Managers : Asks(m)
  BY <1>10 DEF Asks, worldVars, GuardianInv
<1> QED BY <1>2, <1>1, <1>3, <1>4, <1>5, <1>7, <1>6, <1>8, <1>9, <1>10 DEF GuardianNext, Acting

(* At first no Core is watched, and what the record declares is owed.      *)
LEMMA GuardianBegins ==
    ASSUME GuardianInit
    PROVE  GuardianInv
<1>1. record \in RecordSet /\ owed /\ loop \notin {"waiting", "leaving"}
  BY DEF GuardianInit, Told, Records, RecordSet
<1>2. CoresMarked(cores) /\ UnitsOfOne(cores, units)
  BY DEF GuardianInit, CoresMarked, UnitsOfOne
<1>3. WatchHas(watch, cores, units) /\ TimersOf(watch, timers, runs)
  BY UnwatchedHas DEF GuardianInit, TimersOf
<1> QED BY <1>1, <1>3, <1>2 DEF GuardianInv, Carries

(* What the record declares is acted on whenever the guardian waits or     *)
(* leaves and compared it since it last changed, however many managers     *)
(* write it and whatever ends, beats or elapses (reconcile, ended, idle in *)
(* guardian.go).                                                           *)
THEOREM DeclaredIsActedOn == GuardianSpec => []RecordIsActedOn
<1>1. GuardianInv => RecordIsActedOn
  BY DEF GuardianInv, ActedOn, RecordIsActedOn
<1> QED BY <1>1, GuardianBegins, GuardianStep, PTL DEF GuardianSpec

(* Nothing of an earlier incarnation is carried into the next: the units   *)
(* alive are one Core's, the watched one's where one is watched, none      *)
(* where it is to be started again; and a timer ends the Core it was set   *)
(* for (empty, guardian.runs and current in guardian.go).                  *)
THEOREM NothingIsCarriedOver == GuardianSpec => []NothingCarriedOver
<1>1. GuardianInv => NothingCarriedOver
  BY DEF GuardianInv, Carries, CoresMarked, UnitsOfOne, WatchHas, NothingCarriedOver,
         UnitsEndWithTheirCore, KilledInItsOwnWindow
<1> QED BY <1>1, GuardianBegins, GuardianStep, PTL DEF GuardianSpec
--------------------------------------------------------------------------------
(* The lives of an instance's Core.                                        *)

(* Restore's directories: a verb that is at neither step keeps them so.    *)
StateSound ==
    /\ verb.at # "clearing" => state.whole
    /\ copied.whole
    /\ verb.at \in {"staged", "aside"} => staged.whole
    /\ verb.at = "aside" => former.whole
    /\ verb.at \notin {"aside", "restored"} => ~(former.there /\ former.whole)

(* The claim: whoever has it is alone past it, and a start is alone before *)
(* it.                                                                     *)
Holding == {"claim", "debris", "stores", "inherited", "declarations", "channels", "ready", "units",
            "stopped", "closed"}
Starting == {"gated", "logging", "claim", "debris", "stores", "inherited", "declarations",
             "channels", "ready"}

ClaimHeld == \A r \in Runs :
    /\ core[r].at \in Holding => holder = r
    /\ core[r].at = "removed" => holder = 0

OneStarts == \A q, r \in Runs :
    core[q].at \in Starting /\ core[r].at \in Starting => q = r

SocketsOwn == \A r \in Runs :
    /\ core[r].at \in {"debris", "stores", "inherited", "declarations"} => sockets = {}
    /\ core[r].at \in {"channels", "ready", "units", "stopped"} => sockets = {r}

(* A container is of a Core that came to its units, and names an image;    *)
(* who has the state is in one that runs, or is at its units.              *)
Contained(c) == c \in {"starting", "running"}

Launched == \A r \in Runs :
    /\ container[r] # "none" => core[r].at \in {"units", "over"} \cup StopChain /\ core[r].of \in Naming
    /\ r \in state.users => container[r] = "running" \/ core[r].at = "units"

(* Past the removal of what an earlier life left, nothing else runs.       *)
AloneFrom == {"inherited", "declarations", "channels", "ready", "units", "stopped", "closed"}
RunsAlone == \A r \in Runs :
    core[r].at \in AloneFrom /\ core[r].deployed /\ core[r].of \in Naming
      => \A q \in Runs \ {r} : ~Contained(container[q])

(* A verb begins where no Core is, and nothing runs in the engine; a pin   *)
(* that is to be written names a version.                                  *)
VerbsAlone ==
    /\ verb.at = "pinning" => verb.of \in Releases
    /\ verb.at \notin {"none", "pinning"} => \A r \in Runs : ~Alive(r) /\ ~Contained(container[r])
    /\ staged.users = {} /\ copied.users = {}
    /\ verb.at = "aside" => former.users = {}

LivesInv ==
    /\ TrunkTypeOK
    /\ ClaimHeld /\ OneStarts /\ SocketsOwn /\ Launched /\ RunsAlone /\ VerbsAlone

(* In the application form a start past its gate reads what the stamp      *)
(* says, one that is ready has stamped, and so has whoever has the state.  *)
Weighed == {"gated", "logging", "claim", "debris", "stores", "inherited", "declarations", "channels"}

StampSound == \A r \in Runs :
    /\ core[r].at # "out" => core[r].of \in Releases
    /\ core[r].at \in Weighed => Readable(core[r].of, state.stamp)
    /\ core[r].at \in {"declarations", "channels"} => core[r].deployed
    /\ core[r].at \in Stamped => Readable(core[r].of, core[r].lastRan) /\ state.stamp = core[r].of
    /\ r \in state.users \/ Contained(container[r]) => state.stamp = core[r].of

CoreAts == {"out", "over"} \cup Chain \cup StopChain
ContainerSet == {"none", "asked", "created", "starting", "running"}

(* Where a Core is and how far its units got is written within its types.  *)
LEMMA CoreWritten ==
    ASSUME NEW c \in CoreState
    PROVE  /\ \A at \in CoreAts : [c EXCEPT !.at = at] \in CoreState
           /\ \A at \in CoreAts, unit \in UnitStates : [c EXCEPT !.at = at, !.unit = unit] \in CoreState
           /\ \A unit \in UnitStates : [c EXCEPT !.unit = unit] \in CoreState
BY DEF CoreState, CoreAts

(* A directory whose users change is otherwise the one it was.             *)
LEMMA DirectoryUsed ==
    ASSUME NEW d \in Directories, NEW us \in SUBSET Runs
    PROVE  /\ [d EXCEPT !.users = us] \in Directories
           /\ [d EXCEPT !.users = us].users = us
           /\ [d EXCEPT !.users = us].there = d.there
           /\ [d EXCEPT !.users = us].whole = d.whole
           /\ [d EXCEPT !.users = us].stamp = d.stamp
           /\ [d EXCEPT !.users = us].wrote = d.wrote
BY DEF Directories

(* A directory some have left is otherwise the one it was.                 *)
LEMMA UnusedDirectory ==
    ASSUME NEW d \in Directories, NEW gone
    PROVE  /\ Unused(d, gone) \in Directories
           /\ Unused(d, gone).users = d.users \ gone
           /\ Unused(d, gone).there = d.there
           /\ Unused(d, gone).whole = d.whole
           /\ Unused(d, gone).stamp = d.stamp
<1> DEFINE us == d.users \ gone
<1>1. us \in SUBSET Runs
  BY DEF Directories
<1>2. Unused(d, gone) = [d EXCEPT !.users = us]
  BY DEF Unused
<1> HIDE DEF us
<1> QED BY <1>1, <1>2, DirectoryUsed DEF us

(* A Core goes one step on, or ends: what everybody else's Cores, the      *)
(* containers and the users keep of what is known of them.                 *)
LEMMA Moves ==
    ASSUME TrunkTypeOK, Launched, RunsAlone, VerbsAlone,
           NEW r \in Runs, NEW c \in CoreState,
           core' = [core EXCEPT ![r] = c], UNCHANGED <<pinned, form, staged, copied, verb>>,
           state' \in Directories, former' \in Directories,
           container' \in [Runs -> ContainerSet],
           verb.at \in {"none", "pinning"},
           state'.users \subseteq state.users,
           \A q \in Runs : container'[q] \in {container[q], "none"},
           \A q \in Runs : q \in state'.users => container'[q] = container[q],
           container'[r] # "none" =>
               c.at \in {"units", "over"} \cup StopChain /\ c.of = core[r].of,
           r \in state'.users => container'[r] = "running" \/ c.at = "units",
           c.at \in AloneFrom /\ c.deployed /\ c.of \in Naming =>
               \/ \A q \in Runs \ {r} : ~Contained(container'[q])
               \/ core[r].at \in AloneFrom /\ c.deployed = core[r].deployed /\ c.of = core[r].of,
           holder' \in 0..MaxRuns, sockets' \subseteq Runs
    PROVE  /\ TrunkTypeOK' /\ Launched' /\ RunsAlone' /\ VerbsAlone'
           /\ core'[r] = c /\ \A q \in Runs \ {r} : core'[q] = core[q]
<1>1. core'[r] = c /\ \A q \in Runs \ {r} : core'[q] = core[q]
  BY DEF TrunkTypeOK
<1>2. TrunkTypeOK'
  BY DEF TrunkTypeOK, ContainerSet
<1>3. Launched'
  BY <1>1 DEF Launched
<1>4. RunsAlone'
  BY <1>1 DEF RunsAlone, Contained
<1>5. VerbsAlone'
  BY DEF VerbsAlone
<1> QED BY <1>2, <1>1, <1>3, <1>4, <1>5

(* A step of a Core's start or of its stop, or its death, keeps the claim  *)
(* and the sockets its own, and starts nothing beside it.                  *)
LEMMA LifeStep ==
    ASSUME LivesInv, NEW r \in Runs, Starts(r) \/ Stops(r), Overlaps = FALSE
    PROVE  LivesInv'
<1>1. TrunkTypeOK /\ ClaimHeld /\ OneStarts /\ SocketsOwn /\ Launched /\ RunsAlone /\ VerbsAlone
  BY DEF LivesInv
<1>2. verb.at \in {"none", "pinning"}
  <2>1. CASE Gated(r)
    BY <2>1 DEF Gated
  <2>2. CASE Alive(r)
    BY <1>1, <2>2 DEF VerbsAlone
  <2>3. core[r].at \in Chain \cup StopChain => Alive(r)
    BY DEF Alive, Chain, StopChain
  <2> QED BY <2>1, <2>3, <2>2 DEF Starts, Stops, Logging, ClaimsRoot, ClearDebris, Stores, Inherited,
             Declarations, BindsChannels, Stamps, StartsUnits, Dies, StopsUnits, Closes, RemovesRoot,
             Step, Chain, StopChain
<1>3. /\ core[r] \in CoreState /\ state \in Directories /\ former \in Directories
      /\ container \in [Runs -> ContainerSet] /\ holder \in 0..MaxRuns /\ sockets \subseteq Runs
  BY <1>1 DEF TrunkTypeOK, ContainerSet
<1>4. r \in 0..MaxRuns /\ 0 \in 0..MaxRuns /\ 0 \notin Runs
  BY TrunkAssumption DEF Runs
<1>5. ASSUME TrunkTypeOK', Launched', RunsAlone', VerbsAlone',
             \A q \in Runs \ {r} : core'[q] = core[q], core'[r].at \in {core[r].at, "over"},
             \/ core'[r].at = core[r].at /\ holder' = holder
             \/ core'[r].at = "over" /\ holder' = IF holder = r THEN 0 ELSE holder,
             sockets' = sockets
      PROVE  LivesInv'
  <2>1. ClaimHeld'
    BY <1>1, <1>5 DEF ClaimHeld, Holding
  <2>2. OneStarts'
    BY <1>1, <1>5 DEF OneStarts, Starting
  <2>3. SocketsOwn'
    BY <1>1, <1>5 DEF SocketsOwn
  <2> QED BY <1>5, <2>1, <2>2, <2>3 DEF LivesInv
(* A step that changes no container.                                       *)
<1>6. ASSUME NEW c \in CoreState, core' = [core EXCEPT ![r] = c],
             UNCHANGED <<form, pinned, staged, copied, verb, container, former>>,
             state' \in Directories, state'.users = state.users, holder' \in 0..MaxRuns,
             sockets' \subseteq Runs,
             core[r].at = "out" \/ (c.of = core[r].of /\ c.deployed = core[r].deployed),
             c.at \in AloneFrom => core[r].at \in AloneFrom,
             core[r].at \in {"units", "over"} \cup StopChain => c.at \in StopChain,
             core[r].at = "units" => r \notin state.users \/ container[r] = "running"
      PROVE  /\ TrunkTypeOK' /\ Launched' /\ RunsAlone' /\ VerbsAlone'
             /\ core'[r] = c /\ \A q \in Runs \ {r} : core'[q] = core[q]
  <2>1. container[r] # "none" => core[r].at \in {"units", "over"} \cup StopChain
    BY <1>1 DEF Launched
  <2>2. container[r] # "none" => c.at \in {"units", "over"} \cup StopChain /\ c.of = core[r].of
    BY <1>6, <2>1 DEF StopChain
  <2>3. r \in state'.users => container[r] = "running"
    BY <1>1, <1>6 DEF Launched
  <2>4. c.at \in AloneFrom =>
          core[r].at \in AloneFrom /\ c.deployed = core[r].deployed /\ c.of = core[r].of
    BY <1>6 DEF AloneFrom
  <2> QED BY <1>1, <1>3, <1>2, <1>6, <2>2, <2>3, <2>4, Moves
<1>7. CASE Gated(r)
  <2> DEFINE c == [NoCore EXCEPT !.at = "gated", !.of = pinned]
  <2>1. /\ core' = [core EXCEPT ![r] = c] /\ core[r].at = "out"
        /\ UNCHANGED <<form, pinned, staged, copied, verb, container, state, former, holder, sockets>>
        /\ \A q \in Runs : core[q].at \in {"out", "over", "units", "stopped", "closed"}
    BY <1>7 DEF Gated, dirVars
  <2>2. c \in CoreState /\ c.at = "gated"
    <3>1. pinned \in ReleaseOrNone /\ 0 \in ReleaseOrNone
      BY <1>1, TrunkAssumption DEF TrunkTypeOK, Releases, ReleaseOrNone
    <3> QED BY <3>1 DEF NoCore, CoreState, Chain, UnitStates
  <2> HIDE DEF c
  <2>3. /\ TrunkTypeOK' /\ Launched' /\ RunsAlone' /\ VerbsAlone'
        /\ core'[r] = c /\ \A q \in Runs \ {r} : core'[q] = core[q]
    <3>1. /\ state' \in Directories /\ state'.users = state.users
          /\ holder' \in 0..MaxRuns /\ sockets' \subseteq Runs
      BY <1>3, <2>1
    <3>2. c.at \notin AloneFrom /\ core[r].at \notin {"units", "over"} \cup StopChain
      BY <2>1, <2>2 DEF AloneFrom, StopChain
    <3>3. UNCHANGED <<form, pinned, staged, copied, verb, container, former>>
      BY <2>1
    <3>4. /\ core[r].at = "out" \/ (c.of = core[r].of /\ c.deployed = core[r].deployed)
          /\ c.at \in AloneFrom => core[r].at \in AloneFrom
          /\ core[r].at \in {"units", "over"} \cup StopChain => c.at \in StopChain
          /\ core[r].at = "units" => r \notin state.users \/ container[r] = "running"
      BY <2>1, <3>2
    <3>5. core' = [core EXCEPT ![r] = c] /\ c \in CoreState
      BY <2>1, <2>2
    <3> QED BY <1>6, <3>1, <3>3, <3>4, <3>5
  <2> QED BY <1>1, <2>1, <2>2, <2>3 DEF LivesInv, ClaimHeld, Holding, OneStarts, Starting, SocketsOwn
<1>8. ASSUME NEW from, NEW to \in {"logging", "claim", "debris", "declarations", "channels", "closed", "removed"},
             Step(r, from, to),
             UNCHANGED <<form, pinned, staged, copied, verb, container, state, former>>,
             holder' \in 0..MaxRuns, sockets' \subseteq Runs,
             from \in {"gated", "logging", "claim", "inherited", "declarations", "stopped", "closed"},
             to \in AloneFrom => from \in AloneFrom, from \in StopChain => to \in StopChain
      PROVE  /\ TrunkTypeOK' /\ Launched' /\ RunsAlone' /\ VerbsAlone'
             /\ core'[r].at = to /\ core[r].at = from
             /\ \A q \in Runs \ {r} : core'[q] = core[q]
  <2> DEFINE c == [core[r] EXCEPT !.at = to]
  <2>1. core' = [core EXCEPT ![r] = c] /\ core[r].at = from
    BY <1>8 DEF Step
  <2>2. c \in CoreState
    BY <1>3, <1>8, CoreWritten DEF CoreAts, Chain, StopChain
  <2>3. c.at = to /\ c.of = core[r].of /\ c.deployed = core[r].deployed
    BY <1>3 DEF CoreState
  <2> HIDE DEF c
  <2> QED BY <1>3, <1>6, <1>8, <2>1, <2>2, <2>3
<1>9. CASE Logging(r)
  <2>1. /\ Step(r, "gated", "logging") /\ holder' = holder /\ sockets' = sockets
        /\ UNCHANGED <<form, pinned, staged, copied, verb, container, state, former>>
    BY <1>9 DEF Logging, dirVars
  <2>2. /\ TrunkTypeOK' /\ Launched' /\ RunsAlone' /\ VerbsAlone'
        /\ core'[r].at = "logging" /\ core[r].at = "gated" /\ \A q \in Runs \ {r} : core'[q] = core[q]
    BY <1>3, <1>8, <2>1 DEF AloneFrom, StopChain
  <2> QED BY <1>1, <2>1, <2>2 DEF LivesInv, ClaimHeld, Holding, OneStarts, Starting, SocketsOwn
<1>10. CASE ClaimsRoot(r)
  <2>1. /\ Step(r, "logging", "claim") /\ holder = 0 /\ holder' = r /\ sockets' = sockets
        /\ UNCHANGED <<form, pinned, staged, copied, verb, container, state, former>>
        /\ \A q \in Runs : core[q].at # "removed"
    BY <1>10 DEF ClaimsRoot, dirVars
  <2>2. /\ TrunkTypeOK' /\ Launched' /\ RunsAlone' /\ VerbsAlone'
        /\ core'[r].at = "claim" /\ core[r].at = "logging" /\ \A q \in Runs \ {r} : core'[q] = core[q]
    BY <1>3, <1>4, <1>8, <2>1 DEF AloneFrom, StopChain
  <2> QED BY <1>1, <1>4, <2>1, <2>2 DEF LivesInv, ClaimHeld, Holding, OneStarts, Starting, SocketsOwn
<1>11. CASE ClearDebris(r)
  <2>1. /\ Step(r, "claim", "debris") /\ holder' = holder /\ sockets' = {}
        /\ UNCHANGED <<form, pinned, staged, copied, verb, container, state, former>>
    BY <1>11 DEF ClearDebris, dirVars
  <2>2. /\ TrunkTypeOK' /\ Launched' /\ RunsAlone' /\ VerbsAlone'
        /\ core'[r].at = "debris" /\ core[r].at = "claim" /\ \A q \in Runs \ {r} : core'[q] = core[q]
    BY <1>3, <1>8, <2>1 DEF AloneFrom, StopChain
  <2> QED BY <1>1, <2>1, <2>2 DEF LivesInv, ClaimHeld, Holding, OneStarts, Starting, SocketsOwn
<1>12. CASE Declarations(r)
  <2>1. /\ Step(r, "inherited", "declarations") /\ holder' = holder /\ sockets' = sockets
        /\ UNCHANGED <<form, pinned, staged, copied, verb, container, state, former>>
    BY <1>12 DEF Declarations, dirVars
  <2>2. /\ TrunkTypeOK' /\ Launched' /\ RunsAlone' /\ VerbsAlone'
        /\ core'[r].at = "declarations" /\ core[r].at = "inherited"
        /\ \A q \in Runs \ {r} : core'[q] = core[q]
    BY <1>3, <1>8, <2>1 DEF AloneFrom, StopChain
  <2> QED BY <1>1, <2>1, <2>2 DEF LivesInv, ClaimHeld, Holding, OneStarts, Starting, SocketsOwn
<1>13. CASE BindsChannels(r)
  <2>1. /\ Step(r, "declarations", "channels") /\ holder' = holder /\ sockets' = sockets \cup {r}
        /\ UNCHANGED <<form, pinned, staged, copied, verb, container, state, former>>
    BY <1>13 DEF BindsChannels, dirVars
  <2>2. /\ TrunkTypeOK' /\ Launched' /\ RunsAlone' /\ VerbsAlone'
        /\ core'[r].at = "channels" /\ core[r].at = "declarations"
        /\ \A q \in Runs \ {r} : core'[q] = core[q]
    BY <1>3, <1>8, <2>1 DEF AloneFrom, StopChain
  <2> QED BY <1>1, <2>1, <2>2 DEF LivesInv, ClaimHeld, Holding, OneStarts, Starting, SocketsOwn
<1>14. CASE Closes(r)
  <2>1. /\ Step(r, "stopped", "closed") /\ holder' = holder /\ sockets' = sockets \ {r}
        /\ UNCHANGED <<form, pinned, staged, copied, verb, container, state, former>>
    BY <1>14 DEF Closes, dirVars
  <2>2. /\ TrunkTypeOK' /\ Launched' /\ RunsAlone' /\ VerbsAlone'
        /\ core'[r].at = "closed" /\ core[r].at = "stopped" /\ \A q \in Runs \ {r} : core'[q] = core[q]
    BY <1>3, <1>8, <2>1 DEF AloneFrom, StopChain
  <2> QED BY <1>1, <2>1, <2>2 DEF LivesInv, ClaimHeld, Holding, OneStarts, Starting, SocketsOwn
<1>15. CASE RemovesRoot(r)
  <2>1. /\ Step(r, "closed", "removed") /\ holder' = 0 /\ sockets' = {}
        /\ UNCHANGED <<form, pinned, staged, copied, verb, container, state, former>>
    BY <1>15 DEF RemovesRoot, dirVars
  <2>2. /\ TrunkTypeOK' /\ Launched' /\ RunsAlone' /\ VerbsAlone'
        /\ core'[r].at = "removed" /\ core[r].at = "closed" /\ \A q \in Runs \ {r} : core'[q] = core[q]
    BY <1>3, <1>4, <1>8, <2>1 DEF AloneFrom, StopChain
  <2> QED BY <1>1, <1>4, <2>1, <2>2 DEF LivesInv, ClaimHeld, Holding, OneStarts, Starting, SocketsOwn
<1>16. CASE Stores(r)
  <2> DEFINE s == [state EXCEPT !.there = TRUE]
  <2>1. /\ Step(r, "debris", "stores") /\ holder' = holder /\ sockets' = sockets
        /\ UNCHANGED <<form, pinned, staged, copied, verb, container, former>> /\ state' = s
    BY <1>16 DEF Stores
  <2>2. s \in Directories /\ s.users = state.users
    BY <1>3 DEF Directories
  <2> HIDE DEF s
  <2> DEFINE c == [core[r] EXCEPT !.at = "stores"]
  <2>3. core' = [core EXCEPT ![r] = c] /\ core[r].at = "debris"
    BY <2>1 DEF Step
  <2>4. c \in CoreState /\ c.at = "stores" /\ c.of = core[r].of /\ c.deployed = core[r].deployed
    BY <1>3 DEF CoreState, Chain
  <2> HIDE DEF c
  <2>5. /\ c.at \notin AloneFrom /\ core[r].at \notin {"units", "over"} \cup StopChain
        /\ state' \in Directories /\ state'.users = state.users
        /\ holder' \in 0..MaxRuns /\ sockets' \subseteq Runs
    BY <1>3, <2>2, <2>1, <2>3, <2>4 DEF AloneFrom, StopChain
  <2>6. /\ TrunkTypeOK' /\ Launched' /\ RunsAlone' /\ VerbsAlone'
        /\ core'[r] = c /\ \A q \in Runs \ {r} : core'[q] = core[q]
    BY <1>6, <2>1, <2>3, <2>4, <2>5
  <2> QED BY <1>1, <2>1, <2>3, <2>4, <2>6 DEF LivesInv, ClaimHeld, Holding, OneStarts, Starting, SocketsOwn
<1>17. CASE Stamps(r)
  <2>1. PICK c \in CoreState :
          /\ core' = [core EXCEPT ![r] = c]
          /\ c.at = "ready" /\ c.of = core[r].of /\ c.deployed = core[r].deployed
    <3>1. CASE form = "application" /\ core[r].deployed
      <4> DEFINE d == [core[r] EXCEPT !.at = "ready", !.lastRan = state.stamp]
      <4>1. d \in CoreState /\ d.at = "ready" /\ d.of = core[r].of /\ d.deployed = core[r].deployed
        BY <1>3 DEF CoreState, Chain, Directories
      <4>2. core' = [core EXCEPT ![r] = d]
        BY <1>17, <3>1 DEF Stamps
      <4> QED BY <4>1, <4>2
    <3>2. CASE ~(form = "application" /\ core[r].deployed)
      <4> DEFINE d == [core[r] EXCEPT !.at = "ready"]
      <4>1. d \in CoreState /\ d.at = "ready" /\ d.of = core[r].of /\ d.deployed = core[r].deployed
        BY <1>3 DEF CoreState, Chain
      <4>2. core' = [core EXCEPT ![r] = d]
        BY <1>17, <3>2 DEF Stamps
      <4> QED BY <4>1, <4>2
    <3> QED BY <3>1, <3>2
  <2>2. state' \in Directories /\ state'.users = state.users
    BY <1>3, <1>17 DEF Stamps, Directories, CoreState
  <2>3. /\ core[r].at = "channels" /\ holder' = holder /\ sockets' = sockets
        /\ UNCHANGED <<form, pinned, staged, copied, verb, container, former>>
    BY <1>17 DEF Stamps
  <2>4. /\ core[r].at \in AloneFrom /\ core[r].at \notin {"units", "over"} \cup StopChain
        /\ holder' \in 0..MaxRuns /\ sockets' \subseteq Runs
    BY <1>3, <2>3 DEF AloneFrom, StopChain
  <2>5. /\ TrunkTypeOK' /\ Launched' /\ RunsAlone' /\ VerbsAlone'
        /\ core'[r] = c /\ \A q \in Runs \ {r} : core'[q] = core[q]
    BY <1>6, <2>2, <2>1, <2>3, <2>4
  <2> QED BY <1>1, <2>1, <2>3, <2>5 DEF LivesInv, ClaimHeld, Holding, OneStarts, Starting, SocketsOwn
<1>18. CASE StartsUnits(r)
  <2> DEFINE unit == CASE ~core[r].deployed -> "none"
                       [] core[r].lastRan \in MigratesFrom[core[r].of] -> "migrating"
                       [] OTHER -> "launching"
  <2>1. core' = [core EXCEPT ![r] = [core[r] EXCEPT !.at = "units", !.unit = unit]]
    BY <1>18 DEF StartsUnits
  <2>0. unit \in UnitStates
    <3>1. core[r].deployed \in BOOLEAN
      BY <1>3 DEF CoreState
    <3> QED BY <3>1 DEF UnitStates
  <2> HIDE DEF unit
  <2> DEFINE c == [core[r] EXCEPT !.at = "units", !.unit = unit]
  <2>2. c \in CoreState /\ c.at = "units" /\ c.of = core[r].of /\ c.deployed = core[r].deployed
    BY <1>3, <2>0 DEF CoreState, Chain
  <2>3. /\ core[r].at = "ready" /\ holder' = holder /\ sockets' = sockets
        /\ UNCHANGED <<form, pinned, staged, copied, verb, container, former, state>>
    BY <1>18 DEF StartsUnits, dirVars
  <2>4. core' = [core EXCEPT ![r] = c]
    BY <2>1
  <2> HIDE DEF c
  <2>5. /\ core[r].at \in AloneFrom /\ core[r].at \notin {"units", "over"} \cup StopChain
        /\ holder' \in 0..MaxRuns /\ sockets' \subseteq Runs
        /\ state' \in Directories /\ state'.users = state.users
    BY <1>3, <2>3 DEF AloneFrom, StopChain
  <2>6. /\ TrunkTypeOK' /\ Launched' /\ RunsAlone' /\ VerbsAlone'
        /\ core'[r] = c /\ \A q \in Runs \ {r} : core'[q] = core[q]
    BY <1>6, <2>2, <2>4, <2>3, <2>5
  <2> QED BY <1>1, <2>2, <2>3, <2>6 DEF LivesInv, ClaimHeld, Holding, OneStarts, Starting, SocketsOwn
<1>19. CASE Dies(r)
  <2> DEFINE c == [core[r] EXCEPT !.at = "over", !.unit = "none"]
             h == IF holder = r THEN 0 ELSE holder
             s == IF container[r] = "running" THEN state ELSE Unused(state, {r})
  <2>1. /\ core' = [core EXCEPT ![r] = c] /\ holder' = h /\ state' = s
        /\ UNCHANGED <<form, sockets, container, pinned, former, staged, copied, verb>>
    BY <1>19 DEF Dies
  <2>2. c \in CoreState /\ c.at = "over" /\ c.of = core[r].of
    BY <1>3 DEF CoreState, UnitStates
  <2>3. h \in 0..MaxRuns
    BY <1>3, <1>4
  <2>4. s \in Directories /\ s.users \subseteq state.users /\ (container[r] = "running" \/ r \notin s.users)
    BY <1>3, UnusedDirectory
  <2> HIDE DEF c, s
  <2>5. c.at \notin AloneFrom
    BY <2>2 DEF AloneFrom
  <2>6. /\ state' \in Directories /\ state'.users \subseteq state.users
        /\ former' \in Directories /\ container' \in [Runs -> ContainerSet]
        /\ r \in state'.users => container'[r] = "running" \/ c.at = "units"
        /\ container'[r] # "none" => c.at \in {"units", "over"} \cup StopChain /\ c.of = core[r].of
        /\ \A q \in Runs : container'[q] \in {container[q], "none"}
        /\ \A q \in Runs : q \in state'.users => container'[q] = container[q]
        /\ holder' \in 0..MaxRuns /\ sockets' \subseteq Runs
    BY <1>3, <2>2, <2>1, <2>3, <2>4
  <2>7. UNCHANGED <<pinned, form, staged, copied, verb>>
    BY <2>1
  <2>8. /\ TrunkTypeOK' /\ Launched' /\ RunsAlone' /\ VerbsAlone'
        /\ core'[r] = c /\ \A q \in Runs \ {r} : core'[q] = core[q]
    BY <1>1, <1>2, <2>1, <2>2, <2>5, <2>6, <2>7, Moves
  <2> QED BY <1>5, <2>1, <2>2, <2>8
<1>20. CASE StopsUnits(r)
  <2> DEFINE c == [core[r] EXCEPT !.at = "stopped", !.unit = "none"]
             cs == IF core[r].unit = "up" THEN [container EXCEPT ![r] = "none"] ELSE container
             s == IF cs[r] = "running" THEN state ELSE Unused(state, {r})
  <2>1. /\ core' = [core EXCEPT ![r] = c] /\ container' = cs /\ state' = s /\ core[r].at = "units"
        /\ UNCHANGED <<form, holder, sockets, pinned, former, staged, copied, verb>>
    BY <1>20 DEF StopsUnits
  <2>2. c \in CoreState /\ c.at = "stopped" /\ c.of = core[r].of /\ c.deployed = core[r].deployed
    BY <1>3 DEF CoreState, UnitStates, StopChain
  <2>3. /\ cs \in [Runs -> ContainerSet]
        /\ \A q \in Runs : cs[q] \in {container[q], "none"} /\ (q # r => cs[q] = container[q])
        /\ cs[r] = container[r] \/ cs[r] = "none"
    BY <1>3 DEF ContainerSet
  <2>4. s \in Directories /\ s.users \subseteq state.users /\ (cs[r] = "running" \/ r \notin s.users)
    BY <1>3, UnusedDirectory
  <2> HIDE DEF c, s, cs
  <2>5. core[r].at \in AloneFrom /\ c.at \in StopChain
    BY <2>1, <2>2 DEF AloneFrom, StopChain
  <2>6. /\ state' \in Directories /\ state'.users \subseteq state.users
        /\ former' \in Directories /\ container' \in [Runs -> ContainerSet]
        /\ r \in state'.users => container'[r] = "running" \/ c.at = "units"
        /\ container'[r] # "none" => c.at \in {"units", "over"} \cup StopChain /\ c.of = core[r].of
        /\ \A q \in Runs : container'[q] \in {container[q], "none"}
        /\ \A q \in Runs : q \in state'.users => container'[q] = container[q]
        /\ holder' \in 0..MaxRuns /\ sockets' \subseteq Runs
    BY <1>3, <2>2, <2>1, <2>3, <2>4, <2>5
  <2>7. UNCHANGED <<pinned, form, staged, copied, verb>>
    BY <2>1
  <2>8. /\ TrunkTypeOK' /\ Launched' /\ RunsAlone' /\ VerbsAlone'
        /\ core'[r] = c /\ \A q \in Runs \ {r} : core'[q] = core[q]
    BY <1>1, <1>2, <2>1, <2>2, <2>5, <2>6, <2>7, Moves
  <2> QED BY <1>1, <2>1, <2>2, <2>8 DEF LivesInv, ClaimHeld, Holding, OneStarts, Starting, SocketsOwn
<1>21. CASE Inherited(r)
  <2>1. PICK deployed \in BOOLEAN, gone \in SUBSET Listed(r) :
          /\ (~deployed \/ core[r].of \notin Naming) => gone = {}
          /\ core' = [core EXCEPT ![r] =
                        IF deployed /\ core[r].of \in Naming /\ gone # Listed(r)
                        THEN [core[r] EXCEPT !.at = "over"]
                        ELSE [core[r] EXCEPT !.at = "inherited", !.deployed = deployed]]
          /\ holder' = IF core'[r].at = "over" THEN 0 ELSE holder
          /\ container' = Without(gone)
          /\ state' = Unused(state, gone) /\ former' = Unused(former, gone)
    BY <1>21 DEF Inherited
  <2> DEFINE stays == deployed /\ core[r].of \in Naming /\ gone # Listed(r)
             c == IF stays THEN [core[r] EXCEPT !.at = "over"]
                  ELSE [core[r] EXCEPT !.at = "inherited", !.deployed = deployed]
  <2>2. /\ core' = [core EXCEPT ![r] = c] /\ core[r].at = "stores"
        /\ UNCHANGED <<form, sockets, pinned, staged, copied, verb>>
    BY <1>21, <2>1 DEF Inherited
  <2>3. /\ c \in CoreState /\ c.of = core[r].of
        /\ stays => c.at = "over"
        /\ ~stays => c.at = "inherited" /\ c.deployed = deployed
    BY <1>3 DEF CoreState, Chain
  <2> HIDE DEF c
  <2>4. core'[r] = c
    BY <1>1, <2>2 DEF TrunkTypeOK
  <2>5. holder' = IF c.at = "over" THEN 0 ELSE holder
    BY <2>1, <2>4
  <2>6. /\ container' = [q \in Runs |-> IF q \in gone THEN "none" ELSE container[q]]
        /\ gone \subseteq Listed(r)
    BY <2>1 DEF Without
  <2>7. /\ state' \in Directories /\ state'.users = state.users \ gone /\ former' \in Directories
    BY <1>3, <2>1, UnusedDirectory
  <2>8. container[r] = "none" /\ r \notin gone /\ r \notin state.users
    BY <1>1, <2>2, <2>6 DEF Launched, StopChain, Listed
  <2>9. container' \in [Runs -> ContainerSet] /\ \A q \in Runs : container'[q] \in {container[q], "none"}
    BY <1>3, <2>6 DEF ContainerSet
  <2>10. /\ container'[r] = "none" /\ r \notin state'.users /\ state'.users \subseteq state.users
         /\ \A q \in Runs : q \in state'.users => container'[q] = container[q]
    BY <1>3, <2>6, <2>7, <2>8
  <2>11. c.at \in AloneFrom /\ c.deployed /\ c.of \in Naming
           => \A q \in Runs \ {r} : ~Contained(container'[q])
    <3> SUFFICES ASSUME c.at \in AloneFrom, c.deployed, c.of \in Naming, NEW q \in Runs \ {r}
                 PROVE  ~Contained(container'[q])
      OBVIOUS
    <3>1. ~stays /\ deployed
      BY <2>3 DEF AloneFrom
    <3>2. gone = Listed(r)
      BY <2>3, <3>1
    <3> QED BY <2>6, <3>2 DEF Listed, Contained
  <2>12. holder' \in 0..MaxRuns /\ sockets' \subseteq Runs
    BY <1>3, <1>4, <2>2, <2>5
  <2>13. /\ container'[r] # "none" => c.at \in {"units", "over"} \cup StopChain /\ c.of = core[r].of
         /\ r \in state'.users => container'[r] = "running" \/ c.at = "units"
         /\ UNCHANGED <<pinned, form, staged, copied, verb>>
    BY <2>2, <2>10
  <2>14. /\ TrunkTypeOK' /\ Launched' /\ RunsAlone' /\ VerbsAlone'
         /\ core'[r] = c /\ \A q \in Runs \ {r} : core'[q] = core[q]
    BY <1>1, <1>2, <2>2, <2>3, <2>7, <2>9, <2>10, <2>12, <2>11, <2>13, Moves
  <2>15. holder = r /\ sockets' = sockets
    BY <1>1, <2>2 DEF ClaimHeld, Holding
  <2>16. c.at \in {"over", "inherited"}
    BY <2>3
  <2> QED BY <1>1, <2>2, <2>5, <2>14, <2>15, <2>16 DEF LivesInv, ClaimHeld, Holding, OneStarts, Starting, SocketsOwn
<1> QED BY <1>7, <1>9, <1>10, <1>11, <1>12, <1>14, <1>13, <1>15, <1>16, <1>18, <1>17, <1>19, <1>20, <1>21
        DEF Starts, Stops

(* What a unit or the engine does moves no Core along: a container that    *)
(* comes to run is of the one Core at its units, or past them.             *)
LEMMA WorksStep ==
    ASSUME LivesInv, NEW r \in Runs, Works(r)
    PROVE  LivesInv'
<1>1. TrunkTypeOK /\ ClaimHeld /\ OneStarts /\ SocketsOwn /\ Launched /\ RunsAlone /\ VerbsAlone
  BY DEF LivesInv
<1>2. /\ core[r] \in CoreState /\ state \in Directories /\ container \in [Runs -> ContainerSet]
  BY <1>1 DEF TrunkTypeOK, ContainerSet
<1>3. UNCHANGED <<form, holder, sockets, pinned, former, staged, copied, verb>>
  BY DEF Works, Migrates, Launches, EngineActs, Follows, Faults, WritesData, lifeVars
<1>4. ASSUME NEW to \in UnitStates, core' = [core EXCEPT ![r].unit = to]
      PROVE  /\ core' \in [Runs -> CoreState]
             /\ \A q \in Runs : /\ core'[q].at = core[q].at /\ core'[q].of = core[q].of
                               /\ core'[q].deployed = core[q].deployed
  BY <1>1, <1>4 DEF TrunkTypeOK, CoreState
<1>5. /\ core' \in [Runs -> CoreState]
      /\ \A q \in Runs : /\ core'[q].at = core[q].at /\ core'[q].of = core[q].of
                        /\ core'[q].deployed = core[q].deployed
  <2>1. core' = core \/ \E to \in UnitStates : core' = [core EXCEPT ![r].unit = to]
    BY DEF Works, Migrates, Launches, EngineActs, Follows, Faults, WritesData, UnitIs, lifeVars, UnitStates
  <2> QED BY <1>1, <1>4, <2>1 DEF TrunkTypeOK
<1>6. ASSUME state' \in Directories, container' \in [Runs -> ContainerSet],
             \A q \in Runs \ {r} : container'[q] = container[q] /\ (q \in state'.users => q \in state.users),
             container'[r] # "none" =>
               core[r].at \in {"units", "over"} \cup StopChain /\ core[r].of \in Naming,
             r \in state'.users => container'[r] = "running" \/ core[r].at = "units",
             Contained(container'[r]) => Contained(container[r]) \/ core[r].at \in {"units"} \cup StopChain
      PROVE  LivesInv'
  <2>1. TrunkTypeOK'
    BY <1>1, <1>3, <1>5, <1>6 DEF TrunkTypeOK, ContainerSet
  <2>2. ClaimHeld' /\ OneStarts' /\ SocketsOwn'
    BY <1>1, <1>3, <1>5 DEF ClaimHeld, OneStarts, SocketsOwn
  <2>3. Launched'
    BY <1>1, <1>5, <1>6 DEF Launched
  <2>4. RunsAlone'
    <3> SUFFICES ASSUME NEW p \in Runs, core[p].at \in AloneFrom, core[p].deployed, core[p].of \in Naming,
                        NEW q \in Runs \ {p}, Contained(container'[q])
                 PROVE  FALSE
      BY <1>5 DEF RunsAlone
    <3>1. ~Contained(container[q])
      BY <1>1 DEF RunsAlone
    <3>2. q = r /\ core[r].at \in {"units"} \cup StopChain
      BY <1>6, <3>1
    <3>3. holder = p /\ p # 0
      BY <1>1 DEF ClaimHeld, Holding, AloneFrom, Runs
    <3> QED BY <1>1, <3>2, <3>3 DEF ClaimHeld, Holding, StopChain
  <2>5. VerbsAlone'
    <3> SUFFICES ASSUME verb.at \notin {"none", "pinning"}, NEW q \in Runs
                 PROVE  ~Alive(q)' /\ ~Contained(container'[q])
      BY <1>1, <1>3 DEF VerbsAlone
    <3>1. ~Alive(q) /\ ~Contained(container[q])
      BY <1>1 DEF VerbsAlone
    <3> QED BY <1>5, <1>6, <3>1 DEF Alive, StopChain
  <2> QED BY <2>2, <2>1, <2>3, <2>4, <2>5 DEF LivesInv
<1>7. ASSUME UNCHANGED container, state' \in Directories, state'.users = state.users
      PROVE  LivesInv'
  BY <1>1, <1>2, <1>6, <1>7 DEF Launched
<1>8. ASSUME NEW us \in SUBSET Runs, state' = [state EXCEPT !.users = us]
      PROVE  state' \in Directories /\ state'.users = us
  BY <1>2, <1>8, DirectoryUsed
<1>9. CASE Migrates(r)
  <2>1. state' = state \/ state' = [state EXCEPT !.wrote = core[r].of]
    BY <1>9 DEF Migrates
  <2> QED BY <1>2, <1>7, <1>9, <2>1 DEF Migrates, Directories, CoreState
<1>10. CASE Launches(r)
  <2>1. core[r].at = "units"
    BY <1>10 DEF Launches, UnitIs
  <2>2. CASE core[r].of \notin Naming
    <3>1. UNCHANGED container /\ state' = [state EXCEPT !.users = @ \cup {r}]
      BY <1>10, <2>2 DEF Launches
    <3>2. state.users \cup {r} \in SUBSET Runs
      BY <1>2 DEF Directories
    <3>3. state' \in Directories /\ state'.users = state.users \cup {r}
      BY <1>2, <3>1, <3>2 DEF Directories
    <3> QED BY <1>1, <1>2, <1>6, <2>1, <3>1, <3>3 DEF Launched
  <2>3. CASE core[r].of \in Naming
    <3>1. UNCHANGED state /\ container' = [container EXCEPT ![r] = "asked"]
      BY <1>10, <2>3 DEF Launches
    <3>2. /\ container' \in [Runs -> ContainerSet] /\ container'[r] = "asked"
          /\ \A q \in Runs \ {r} : container'[q] = container[q]
      BY <1>2, <3>1 DEF ContainerSet
    <3> QED BY <1>2, <1>6, <2>1, <2>3, <3>1, <3>2 DEF Contained
  <2> QED BY <2>2, <2>3
<1>11. CASE EngineActs(r)
  <2>1. CASE ContainerGoes(r, "asked", "created") /\ UNCHANGED state
    <3>1. /\ container' \in [Runs -> ContainerSet] /\ container'[r] = "created" /\ container[r] = "asked"
          /\ \A q \in Runs \ {r} : container'[q] = container[q]
      BY <1>2, <2>1 DEF ContainerSet, ContainerGoes
    <3> QED BY <1>1, <1>2, <1>6, <2>1, <3>1 DEF Contained, Launched
  <2>2. CASE ContainerGoes(r, "starting", "running") /\ state' = [state EXCEPT !.users = @ \cup {r}]
    <3>1. /\ container' \in [Runs -> ContainerSet] /\ container'[r] = "running" /\ container[r] = "starting"
          /\ \A q \in Runs \ {r} : container'[q] = container[q]
      BY <1>2, <2>2 DEF ContainerSet, ContainerGoes
    <3>2. state' \in Directories /\ state'.users = state.users \cup {r}
      BY <1>2, <2>2 DEF Directories
    <3> QED BY <1>1, <1>2, <1>6, <3>1, <3>2 DEF Contained, Launched
  <2> QED BY <1>11, <2>1, <2>2 DEF EngineActs
<1>12. CASE Follows(r)
  <2>1. CASE ContainerGoes(r, "created", "starting") /\ UNCHANGED state
    <3>1. /\ container' \in [Runs -> ContainerSet] /\ container'[r] = "starting" /\ container[r] = "created"
          /\ \A q \in Runs \ {r} : container'[q] = container[q]
      BY <1>2, <2>1 DEF ContainerSet, ContainerGoes
    <3>2. core[r].at \in {"units"} \cup StopChain /\ core[r].of \in Naming
      BY <1>1, <1>12, <3>1 DEF Launched, Follows, Alive
    <3> QED BY <1>1, <1>2, <1>6, <2>1, <3>1, <3>2 DEF Contained, Launched
  <2>2. CASE ContainerGoes(r, "running", "none") /\ state' = Unused(state, {r})
    <3>1. /\ container' \in [Runs -> ContainerSet] /\ container'[r] = "none"
          /\ \A q \in Runs \ {r} : container'[q] = container[q]
      BY <1>2, <2>2 DEF ContainerSet, ContainerGoes
    <3>2. state' \in Directories /\ state'.users = state.users \ {r}
      BY <1>2, <2>2, UnusedDirectory
    <3> QED BY <1>1, <1>2, <1>6, <3>1, <3>2 DEF Contained, Launched
  <2> QED BY <1>2, <1>7, <1>12, <2>1, <2>2 DEF Follows
<1>13. CASE Faults(r)
  <2>1. container' = [container EXCEPT ![r] = "none"] /\ state' = Unused(state, {r})
    BY <1>13 DEF Faults
  <2>2. /\ container' \in [Runs -> ContainerSet] /\ container'[r] = "none"
        /\ \A q \in Runs \ {r} : container'[q] = container[q]
    BY <1>2, <2>1 DEF ContainerSet
  <2>3. state' \in Directories /\ state'.users = state.users \ {r}
    BY <1>2, <2>1, UnusedDirectory
  <2> QED BY <1>1, <1>2, <1>6, <2>2, <2>3 DEF Contained, Launched
<1>14. CASE WritesData(r)
  <2>1. state' = [state EXCEPT !.wrote = core[r].of] /\ UNCHANGED container
    BY <1>14 DEF WritesData, lifeVars
  <2>2. state' \in Directories /\ state'.users = state.users
    BY <1>2, <2>1 DEF Directories, CoreState
  <2> QED BY <1>7, <2>1, <2>2
<1> QED BY <1>9, <1>11, <1>10, <1>12, <1>13, <1>14 DEF Works

(* A manager's verbs touch no Core; the directories it makes are in        *)
(* nobody's hands.                                                         *)
LEMMA VerbsStep ==
    ASSUME LivesInv, RunsVerbs, Overlaps = FALSE
    PROVE  LivesInv'
<1>1. TrunkTypeOK /\ ClaimHeld /\ OneStarts /\ SocketsOwn /\ Launched /\ RunsAlone /\ VerbsAlone
  BY DEF LivesInv
<1>2. /\ state \in Directories /\ former \in Directories /\ staged \in Directories /\ copied \in Directories
      /\ form \in Forms /\ pinned \in Releases /\ verb.of \in ReleaseOrNone
  BY <1>1 DEF TrunkTypeOK
<1>3. UNCHANGED <<form, core, holder, sockets, container>>
  BY DEF RunsVerbs, BeginsVerb, SetVersion, Copies, Clears, Stages, PutsAside, Swaps, Tidies, lifeVars
<1>4. NoDirectory \in Directories /\ NoDirectory.users = {}
  BY TrunkAssumption DEF NoDirectory, Directories, ReleaseOrNone
<1>5. 0 \in ReleaseOrNone /\ Releases \subseteq ReleaseOrNone
  BY TrunkAssumption DEF ReleaseOrNone, Releases
<1>6. verb.at \notin {"none", "pinning"} => state.users = {} /\ \A r \in Runs : ~Alive(r) /\ ~Contained(container[r])
  BY <1>1, <1>2 DEF VerbsAlone, Launched, Alive, Contained, Directories
<1>7. ASSUME {state', former', staged', copied'} \subseteq Directories, pinned' \in Releases,
             state'.users \in {state.users, {}}, staged'.users = {}, copied'.users = {},
             NEW at \in {"none", "pinning", "copying", "clearing", "restoring",
                         "staging", "staged", "aside", "restored"},
             NEW of \in ReleaseOrNone, verb' = [at |-> at, of |-> of],
             at \notin {"none", "pinning"} => \A r \in Runs : ~Alive(r) /\ ~Contained(container[r]),
             at = "aside" => former'.users = {}, at = "pinning" => of \in Releases
      PROVE  LivesInv'
  <2>1. verb'.at = at
    BY <1>7
  <2>2. TrunkTypeOK'
    BY <1>1, <1>3, <1>7 DEF TrunkTypeOK
  <2>3. ClaimHeld' /\ OneStarts' /\ SocketsOwn' /\ RunsAlone'
    BY <1>1, <1>3 DEF ClaimHeld, OneStarts, SocketsOwn, RunsAlone
  <2>4. Launched'
    BY <1>1, <1>3, <1>7 DEF Launched
  <2>5. VerbsAlone'
    BY <1>3, <1>7, <2>1 DEF VerbsAlone, Alive
  <2> QED BY <2>2, <2>4, <2>3, <2>5 DEF LivesInv
<1>8. ASSUME NEW at \in {"none", "copying", "clearing", "restoring", "staging", "staged", "aside", "restored"},
             VerbIs(at)
      PROVE  verb' = [at |-> at, of |-> verb.of]
  BY <1>1, <1>8 DEF VerbIs, TrunkTypeOK
<1>9. staged.users = {} /\ copied.users = {} /\ (verb.at = "aside" => former.users = {})
  BY <1>1 DEF VerbsAlone
<1>10. ASSUME NEW at \in {"copying", "clearing", "restoring"}, BeginsVerb(at)
       PROVE  LivesInv'
  <2>1. \A r \in Runs : ~Alive(r) /\ ~Contained(container[r])
    BY <1>10 DEF BeginsVerb, Contained
  <2>2. UNCHANGED <<pinned, state, former, staged, copied>> /\ verb' = [at |-> at, of |-> verb.of]
    BY <1>8, <1>10 DEF BeginsVerb, dirVars
  <2> QED BY <1>2, <1>7, <1>9, <2>1, <2>2
<1>11. CASE SetVersion
  <2>1. UNCHANGED <<state, former, staged, copied>>
    BY <1>11 DEF SetVersion, dirVars
  <2>2. CASE verb.at = "none" /\ UNCHANGED pinned /\ \E v \in Releases : verb' = [at |-> "pinning", of |-> v]
    BY <1>2, <1>5, <1>7, <1>9, <2>1, <2>2
  <2>3. CASE verb.at = "pinning" /\ pinned' = verb.of /\ VerbEnds
    <3>1. verb.of \in Releases
      BY <1>1, <2>3 DEF VerbsAlone
    <3> QED BY <1>2, <1>5, <1>7, <1>9, <2>1, <2>3, <3>1 DEF VerbEnds
  <2> QED BY <1>11, <2>2, <2>3 DEF SetVersion
<1>12. CASE Copies
  <2> DEFINE d == [state EXCEPT !.there = TRUE, !.users = {}]
  <2>1. d \in Directories /\ d.users = {}
    BY <1>2 DEF Directories
  <2>2. UNCHANGED <<pinned, state, former, staged>> /\ copied' = d /\ verb' = [at |-> "none", of |-> 0]
    BY <1>12 DEF Copies, VerbEnds
  <2> HIDE DEF d
  <2> QED BY <1>2, <1>5, <1>7, <1>9, <2>1, <2>2
<1>13. CASE Clears
  <2>1. UNCHANGED <<pinned, former, staged, copied>> /\ verb.at = "clearing"
    BY <1>13 DEF Clears
  <2>2. CASE /\ state' \in {[state EXCEPT !.stamp = 0, !.whole = FALSE],
                           [state EXCEPT !.wrote = 0, !.whole = FALSE]}
             /\ UNCHANGED verb
    <3>1. state' \in Directories /\ state'.users = state.users
      BY <1>2, <1>5, <2>2 DEF Directories
    <3>2. verb' = [at |-> "clearing", of |-> verb.of]
      BY <1>1, <2>1, <2>2 DEF TrunkTypeOK
    <3> QED BY <1>2, <1>6, <1>7, <1>9, <2>1, <3>1, <3>2
  <2>3. CASE state' = NoDirectory /\ VerbEnds
    BY <1>2, <1>4, <1>5, <1>7, <1>9, <2>1, <2>3 DEF VerbEnds
  <2> QED BY <1>13, <2>2, <2>3 DEF Clears
<1>14. CASE Stages
  <2>1. UNCHANGED <<pinned, state, former, copied>> /\ verb.at \in {"restoring", "staging"}
    BY <1>14 DEF Stages
  <2>2. CASE staged' = [copied EXCEPT !.whole = FALSE] /\ VerbIs("staging")
    <3>1. staged' \in Directories /\ staged'.users = {}
      BY <1>2, <1>9, <2>2 DEF Directories
    <3> QED BY <1>2, <1>6, <1>7, <1>8, <1>9, <2>1, <2>2, <3>1
  <2>3. CASE staged' = copied /\ VerbIs("staged")
    BY <1>2, <1>6, <1>7, <1>8, <1>9, <2>1, <2>3
  <2>4. CASE staged' = NoDirectory /\ VerbEnds
    BY <1>2, <1>4, <1>5, <1>7, <1>9, <2>1, <2>4 DEF VerbEnds
  <2> QED BY <1>14, <2>2, <2>3, <2>4 DEF Stages
<1>15. CASE PutsAside
  <2>1. UNCHANGED <<pinned, copied>> /\ verb.at = "staged"
    BY <1>15 DEF PutsAside
  <2>2. CASE former' = state /\ state' = NoDirectory /\ UNCHANGED staged /\ VerbIs("aside")
    BY <1>2, <1>4, <1>6, <1>7, <1>8, <1>9, <2>1, <2>2
  <2>3. CASE former' = NoDirectory /\ staged' = NoDirectory /\ UNCHANGED state /\ VerbEnds
    BY <1>2, <1>4, <1>5, <1>7, <1>9, <2>1, <2>3 DEF VerbEnds
  <2> QED BY <1>15, <2>2, <2>3 DEF PutsAside
<1>16. CASE Swaps
  <2>1. UNCHANGED <<pinned, copied>> /\ verb.at = "aside"
    BY <1>16 DEF Swaps
  <2>2. CASE state' = staged /\ staged' = NoDirectory /\ UNCHANGED former /\ VerbIs("restored")
    BY <1>2, <1>4, <1>6, <1>7, <1>8, <1>9, <2>1, <2>2
  <2>3. CASE state' = former /\ former' = NoDirectory /\ UNCHANGED staged /\ VerbEnds
    BY <1>2, <1>4, <1>5, <1>7, <1>9, <2>1, <2>3 DEF VerbEnds
  <2> QED BY <1>16, <2>2, <2>3 DEF Swaps
<1>17. CASE Tidies
  <2>1. UNCHANGED <<pinned, state, staged, copied>> /\ former' \in {NoDirectory, [former EXCEPT !.whole = FALSE]}
    BY <1>17 DEF Tidies
  <2>2. former' \in Directories
    BY <1>2, <1>4, <2>1 DEF Directories
  <2> QED BY <1>2, <1>5, <1>7, <1>9, <1>17, <2>1, <2>2 DEF Tidies, VerbEnds
<1> QED BY <1>10, <1>12, <1>11, <1>13, <1>14, <1>16, <1>15, <1>17 DEF RunsVerbs

(* An instance begins with no Core, no container and no verb.              *)
LEMMA LivesBegin ==
    ASSUME TrunkInit
    PROVE  LivesInv
<1>1. TrunkTypeOK
  <2>1. NoCore \in CoreState
    BY TrunkAssumption DEF NoCore, CoreState, ReleaseOrNone, UnitStates
  <2>2. NoDirectory \in Directories
    BY TrunkAssumption DEF NoDirectory, Directories, ReleaseOrNone
  <2>3. /\ core \in [Runs -> CoreState] /\ container \in [Runs -> ContainerSet]
        /\ {state, former, staged, copied} \subseteq Directories
    BY <2>1, <2>2 DEF TrunkInit, ContainerSet
  <2> QED BY <2>3, TrunkAssumption DEF TrunkInit, TrunkTypeOK, Releases, ReleaseOrNone, ContainerSet
<1>2. \A r \in Runs : core[r].at = "out" /\ container[r] = "none"
  BY DEF TrunkInit, NoCore
<1>3. ClaimHeld /\ OneStarts /\ SocketsOwn
  BY <1>2 DEF ClaimHeld, OneStarts, SocketsOwn, Holding, Starting
<1>4. Launched /\ RunsAlone
  BY <1>2 DEF TrunkInit, NoDirectory, Launched, RunsAlone, AloneFrom
<1>5. VerbsAlone
  BY DEF TrunkInit, NoDirectory, VerbsAlone
<1> QED BY <1>1, <1>3, <1>4, <1>5 DEF LivesInv

(* Every step of a Core, of the engine and of a verb keeps the invariant.  *)
LEMMA LivesStep ==
    ASSUME LivesInv, [TrunkNext]_trunkVars, Overlaps = FALSE
    PROVE  LivesInv'
<1>1. CASE UNCHANGED trunkVars
  BY <1>1 DEF trunkVars, lifeVars, dirVars, LivesInv, TrunkTypeOK, ClaimHeld, OneStarts, SocketsOwn,
              Launched, RunsAlone, VerbsAlone, Alive
<1>2. CASE TrunkNext
  BY <1>2, LifeStep, WorksStep, VerbsStep DEF TrunkNext
<1> QED BY <1>1, <1>2

(* Where nothing overtakes a start, what an earlier life left is gone      *)
(* before the units of the next are launched, whatever request of a dead   *)
(* Core the engine comes to late and whatever a manager does meanwhile     *)
(* (inherited, ClearDebris and Claim in internal/core/trunk).              *)
THEOREM NothingIsInherited ==
    ASSUME Overlaps = FALSE
    PROVE  TrunkSpec => []NothingInherited
<1>1. LivesInv => NothingInherited
  BY DEF LivesInv, NothingInherited, SocketsOwn, RunsAlone, AloneFrom, Contained
<1>2. TrunkInit => LivesInv
  BY LivesBegin
<1>3. LivesInv /\ [TrunkNext]_trunkVars => LivesInv'
  BY LivesStep
<1> QED BY <1>1, <1>3, <1>2, PTL DEF TrunkSpec

(* Restore is weighed whatever overtakes what: the types, a pin that names *)
(* a version, and the directories of a verb under way.                     *)
KeptInv ==
    /\ TrunkTypeOK /\ StateSound
    /\ verb.at = "pinning" => verb.of \in Releases

(* Nothing a Core, a unit or the engine does makes a directory whole, or   *)
(* less than whole.                                                        *)
LEMMA KeptByLives ==
    ASSUME KeptInv, NEW r \in Runs, Starts(r) \/ Works(r) \/ Stops(r)
    PROVE  KeptInv'
<1>1. /\ core[r] \in CoreState /\ state \in Directories /\ former \in Directories
      /\ core \in [Runs -> CoreState] /\ container \in [Runs -> ContainerSet]
      /\ holder \in 0..MaxRuns /\ sockets \subseteq Runs /\ pinned \in Releases
  BY DEF KeptInv, TrunkTypeOK, ContainerSet
<1>2. r \in 0..MaxRuns /\ 0 \in 0..MaxRuns /\ pinned \in ReleaseOrNone /\ 0 \in ReleaseOrNone
  BY <1>1, TrunkAssumption DEF Runs, Releases, ReleaseOrNone
<1>3. UNCHANGED <<form, pinned, staged, copied, verb>>
  BY DEF Starts, Works, Stops, Gated, Logging, ClaimsRoot, ClearDebris, Stores, Inherited, Declarations,
         BindsChannels, Stamps, StartsUnits, Dies, StopsUnits, Closes, RemovesRoot, Migrates, Launches,
         EngineActs, Follows, Faults, WritesData, lifeVars, dirVars
<1>4. core' \in [Runs -> CoreState]
  <2>1. ASSUME NEW c \in CoreState, core' = [core EXCEPT ![r] = c]
        PROVE  core' \in [Runs -> CoreState]
    BY <1>1, <2>1
  <2>2. ASSUME NEW from, NEW to \in CoreAts, Step(r, from, to)
        PROVE  core' \in [Runs -> CoreState]
    BY <1>1, <2>2 DEF Step, CoreState, CoreAts
  <2>4. CASE Gated(r)
    <3> DEFINE c == [NoCore EXCEPT !.at = "gated", !.of = pinned]
    <3>1. core' = [core EXCEPT ![r] = c]
      BY <2>4 DEF Gated
    <3>2. c \in CoreState
      BY <1>2 DEF NoCore, CoreState, Chain, UnitStates
    <3> HIDE DEF c
    <3> QED BY <2>1, <3>1, <3>2
  <2>5. CASE Logging(r) \/ ClaimsRoot(r) \/ ClearDebris(r) \/ Stores(r) \/ Declarations(r) \/ BindsChannels(r)
             \/ Closes(r) \/ RemovesRoot(r)
    BY <2>2, <2>5 DEF Logging, ClaimsRoot, ClearDebris, Stores, Declarations, BindsChannels, Closes,
                      RemovesRoot, CoreAts, Chain, StopChain
  <2>6. CASE Inherited(r)
    <3>1. PICK deployed \in BOOLEAN :
            \/ core' = [core EXCEPT ![r] = [core[r] EXCEPT !.at = "over"]]
            \/ core' = [core EXCEPT ![r] = [core[r] EXCEPT !.at = "inherited", !.deployed = deployed]]
      BY <2>6 DEF Inherited
    <3>2. /\ [core[r] EXCEPT !.at = "over"] \in CoreState
          /\ [core[r] EXCEPT !.at = "inherited", !.deployed = deployed] \in CoreState
      BY <1>1 DEF CoreState, Chain
    <3> QED BY <2>1, <3>1, <3>2
  <2>7. CASE Stamps(r)
    <3>1. \/ core' = [core EXCEPT ![r] = [core[r] EXCEPT !.at = "ready", !.lastRan = state.stamp]]
          \/ core' = [core EXCEPT ![r] = [core[r] EXCEPT !.at = "ready"]]
      BY <2>7 DEF Stamps
    <3>2. /\ [core[r] EXCEPT !.at = "ready", !.lastRan = state.stamp] \in CoreState
          /\ [core[r] EXCEPT !.at = "ready"] \in CoreState
      BY <1>1 DEF CoreState, Chain, Directories
    <3> QED BY <2>1, <3>1, <3>2
  <2>8. CASE StartsUnits(r)
    <3> DEFINE unit == CASE ~core[r].deployed -> "none"
                         [] core[r].lastRan \in MigratesFrom[core[r].of] -> "migrating"
                         [] OTHER -> "launching"
    <3>1. core' = [core EXCEPT ![r] = [core[r] EXCEPT !.at = "units", !.unit = unit]]
      BY <2>8 DEF StartsUnits
    <3>2. unit \in UnitStates
      <4>1. core[r].deployed \in BOOLEAN
        BY <1>1 DEF CoreState
      <4> QED BY <4>1 DEF UnitStates
    <3> HIDE DEF unit
    <3>3. [core[r] EXCEPT !.at = "units", !.unit = unit] \in CoreState
      BY <1>1, <3>2 DEF CoreState, Chain
    <3> QED BY <2>1, <3>1, <3>3
  <2>9. CASE Dies(r) \/ StopsUnits(r)
    <3>1. PICK at \in {"over", "stopped"} : core' = [core EXCEPT ![r] = [core[r] EXCEPT !.at = at, !.unit = "none"]]
      BY <2>9 DEF Dies, StopsUnits
    <3>2. [core[r] EXCEPT !.at = at, !.unit = "none"] \in CoreState
      BY <1>1 DEF CoreState, StopChain, UnitStates
    <3> QED BY <2>1, <3>1, <3>2
  <2>10. CASE Works(r)
    <3>1. core' = core \/ \E to \in UnitStates : core' = [core EXCEPT ![r].unit = to]
      BY <2>10 DEF Works, Migrates, Launches, EngineActs, Follows, Faults, WritesData, UnitIs, lifeVars, UnitStates
    <3>2. ASSUME NEW to \in UnitStates, core' = [core EXCEPT ![r].unit = to]
          PROVE  core' \in [Runs -> CoreState]
      BY <1>1, <3>2 DEF CoreState
    <3> QED BY <1>1, <3>1, <3>2
  <2> QED BY <2>4, <2>6, <2>5, <2>7, <2>8, <2>9, <2>10 DEF Starts, Stops
<1>5. container' \in [Runs -> ContainerSet]
  <2>1. \/ container' = container
        \/ \E gone \in SUBSET Runs : container' = Without(gone)
        \/ \E to \in ContainerSet : container' = [container EXCEPT ![r] = to]
    BY DEF Starts, Works, Stops, Gated, Logging, ClaimsRoot, ClearDebris, Stores, Inherited, Declarations,
           BindsChannels, Stamps, StartsUnits, Dies, StopsUnits, Closes, RemovesRoot, Migrates, Launches,
           EngineActs, Follows, Faults, WritesData, lifeVars, ContainerGoes, ContainerSet, Listed
  <2>2. ASSUME NEW gone \in SUBSET Runs
        PROVE  Without(gone) \in [Runs -> ContainerSet]
    BY <1>1 DEF Without, ContainerSet
  <2> QED BY <1>1, <2>1, <2>2
<1>6. holder' \in 0..MaxRuns /\ sockets' \subseteq Runs
  BY <1>1, <1>2
     DEF Starts, Works, Stops, Gated, Logging, ClaimsRoot, ClearDebris, Stores, Inherited, Declarations,
         BindsChannels, Stamps, StartsUnits, Dies, StopsUnits, Closes, RemovesRoot, Migrates, Launches,
         EngineActs, Follows, Faults, WritesData, lifeVars
<1>7. state' \in Directories /\ state'.whole = state.whole
  <2>1. \/ state' = state
        \/ state' = [state EXCEPT !.there = TRUE]
        \/ state' = [state EXCEPT !.stamp = core[r].of]
        \/ state' = [state EXCEPT !.wrote = core[r].of]
        \/ state' = [state EXCEPT !.users = state.users \cup {r}]
        \/ \E gone : state' = Unused(state, gone)
    BY DEF Starts, Works, Stops, Gated, Logging, ClaimsRoot, ClearDebris, Stores, Inherited, Declarations,
           BindsChannels, Stamps, StartsUnits, Dies, StopsUnits, Closes, RemovesRoot, Migrates, Launches,
           EngineActs, Follows, Faults, WritesData, lifeVars, dirVars
  <2>2. /\ [state EXCEPT !.there = TRUE] \in Directories /\ [state EXCEPT !.there = TRUE].whole = state.whole
        /\ [state EXCEPT !.stamp = core[r].of] \in Directories
        /\ [state EXCEPT !.stamp = core[r].of].whole = state.whole
        /\ [state EXCEPT !.wrote = core[r].of] \in Directories
        /\ [state EXCEPT !.wrote = core[r].of].whole = state.whole
    BY <1>1 DEF Directories, CoreState
  <2>3. /\ [state EXCEPT !.users = state.users \cup {r}] \in Directories
        /\ [state EXCEPT !.users = state.users \cup {r}].whole = state.whole
    BY <1>1 DEF Directories
  <2>4. ASSUME NEW gone, state' = Unused(state, gone)
        PROVE  state' \in Directories /\ state'.whole = state.whole
    BY <1>1, <2>4, UnusedDirectory
  <2>5. CASE \E gone : state' = Unused(state, gone)
    BY <2>4, <2>5
  <2> QED BY <1>1, <2>1, <2>2, <2>3, <2>5
<1>8. former' \in Directories /\ former'.there = former.there /\ former'.whole = former.whole
  <2>1. former' = former \/ \E gone : former' = Unused(former, gone)
    BY DEF Starts, Works, Stops, Gated, Logging, ClaimsRoot, ClearDebris, Stores, Inherited, Declarations,
           BindsChannels, Stamps, StartsUnits, Dies, StopsUnits, Closes, RemovesRoot, Migrates, Launches,
           EngineActs, Follows, Faults, WritesData, lifeVars, dirVars
  <2> QED BY <1>1, <2>1, UnusedDirectory
<1>9. TrunkTypeOK'
  BY <1>3, <1>5, <1>4, <1>6, <1>7, <1>8 DEF KeptInv, TrunkTypeOK, ContainerSet
<1>10. StateSound'
  BY <1>3, <1>7, <1>8 DEF KeptInv, StateSound
<1> QED BY <1>3, <1>9, <1>10 DEF KeptInv

(* A restore replaces the state or leaves it, step by step; what it makes  *)
(* is whole before it takes the state's place.                             *)
LEMMA KeptByVerbs ==
    ASSUME KeptInv, RunsVerbs
    PROVE  KeptInv'
<1>1. /\ state \in Directories /\ former \in Directories /\ staged \in Directories /\ copied \in Directories
      /\ form \in Forms /\ pinned \in Releases /\ verb.of \in ReleaseOrNone
  BY DEF KeptInv, TrunkTypeOK
<1>2. UNCHANGED <<form, core, holder, sockets, container>>
  BY DEF RunsVerbs, BeginsVerb, SetVersion, Copies, Clears, Stages, PutsAside, Swaps, Tidies, lifeVars
<1>3. NoDirectory \in Directories /\ NoDirectory.whole /\ ~NoDirectory.there
  BY TrunkAssumption DEF NoDirectory, Directories, ReleaseOrNone
<1>4. 0 \in ReleaseOrNone /\ Releases \subseteq ReleaseOrNone
  BY TrunkAssumption DEF ReleaseOrNone, Releases
<1>5. ASSUME {state', former', staged', copied'} \subseteq Directories, pinned' \in Releases,
             NEW at \in {"none", "pinning", "copying", "clearing", "restoring",
                         "staging", "staged", "aside", "restored"},
             NEW of \in ReleaseOrNone, verb' = [at |-> at, of |-> of],
             at = "pinning" => of \in Releases,
             at # "clearing" => state'.whole, copied'.whole,
             at \in {"staged", "aside"} => staged'.whole,
             at = "aside" => former'.whole,
             at \notin {"aside", "restored"} => ~(former'.there /\ former'.whole)
      PROVE  KeptInv'
  <2>1. verb'.at = at /\ verb'.of = of
    BY <1>5
  <2>2. TrunkTypeOK'
    BY <1>2, <1>5 DEF KeptInv, TrunkTypeOK
  <2>3. StateSound'
    BY <1>5, <2>1 DEF StateSound
  <2> QED BY <1>5, <2>1, <2>2, <2>3 DEF KeptInv
<1>6. ASSUME NEW at \in {"none", "copying", "clearing", "restoring", "staging", "staged", "aside", "restored"},
             VerbIs(at)
      PROVE  verb' = [at |-> at, of |-> verb.of]
  BY <1>6 DEF VerbIs, KeptInv, TrunkTypeOK
<1>7. /\ verb.at # "clearing" => state.whole
      /\ copied.whole
      /\ verb.at \in {"staged", "aside"} => staged.whole
      /\ verb.at = "aside" => former.whole
      /\ verb.at \notin {"aside", "restored"} => ~(former.there /\ former.whole)
      /\ verb.at = "pinning" => verb.of \in Releases
  BY DEF KeptInv, StateSound
<1>8. ASSUME NEW at \in {"copying", "clearing", "restoring"}, BeginsVerb(at)
      PROVE  KeptInv'
  <2>1. /\ UNCHANGED <<pinned, state, former, staged, copied>> /\ verb' = [at |-> at, of |-> verb.of]
        /\ verb.at = "none"
    BY <1>6, <1>8 DEF BeginsVerb, dirVars
  <2> QED BY <1>1, <1>5, <1>7, <2>1
<1>9. CASE SetVersion
  <2>1. UNCHANGED <<state, former, staged, copied>>
    BY <1>9 DEF SetVersion, dirVars
  <2>2. CASE verb.at = "none" /\ UNCHANGED pinned /\ \E v \in Releases : verb' = [at |-> "pinning", of |-> v]
    BY <1>1, <1>4, <1>5, <1>7, <2>1, <2>2
  <2>3. CASE verb.at = "pinning" /\ pinned' = verb.of /\ VerbEnds
    BY <1>1, <1>4, <1>5, <1>7, <2>1, <2>3 DEF VerbEnds
  <2> QED BY <1>9, <2>2, <2>3 DEF SetVersion
<1>10. CASE Copies
  <2> DEFINE d == [state EXCEPT !.there = TRUE, !.users = {}]
  <2>1. d \in Directories /\ d.whole = state.whole
    BY <1>1 DEF Directories
  <2>2. UNCHANGED <<pinned, state, former, staged>> /\ copied' = d /\ verb' = [at |-> "none", of |-> 0]
        /\ verb.at = "copying"
    BY <1>10 DEF Copies, VerbEnds
  <2> HIDE DEF d
  <2> QED BY <1>1, <1>4, <1>5, <1>7, <2>1, <2>2
<1>11. CASE Clears
  <2>1. UNCHANGED <<pinned, former, staged, copied>> /\ verb.at = "clearing"
    BY <1>11 DEF Clears
  <2>2. CASE /\ state' \in {[state EXCEPT !.stamp = 0, !.whole = FALSE],
                           [state EXCEPT !.wrote = 0, !.whole = FALSE]}
             /\ UNCHANGED verb
    <3>1. state' \in Directories
      BY <1>1, <1>4, <2>2 DEF Directories
    <3>2. verb' = [at |-> "clearing", of |-> verb.of]
      BY <2>1, <2>2 DEF KeptInv, TrunkTypeOK
    <3> QED BY <1>1, <1>5, <1>7, <2>1, <3>1, <3>2
  <2>3. CASE state' = NoDirectory /\ VerbEnds
    BY <1>1, <1>3, <1>4, <1>5, <1>7, <2>1, <2>3 DEF VerbEnds
  <2> QED BY <1>11, <2>2, <2>3 DEF Clears
<1>12. CASE Stages
  <2>1. UNCHANGED <<pinned, state, former, copied>> /\ verb.at \in {"restoring", "staging"}
    BY <1>12 DEF Stages
  <2>2. CASE staged' = [copied EXCEPT !.whole = FALSE] /\ VerbIs("staging")
    <3>1. staged' \in Directories
      BY <1>1, <2>2 DEF Directories
    <3> QED BY <1>1, <1>5, <1>6, <1>7, <2>1, <2>2, <3>1
  <2>3. CASE staged' = copied /\ VerbIs("staged")
    BY <1>1, <1>5, <1>6, <1>7, <2>1, <2>3
  <2>4. CASE staged' = NoDirectory /\ VerbEnds
    BY <1>1, <1>3, <1>4, <1>5, <1>7, <2>1, <2>4 DEF VerbEnds
  <2> QED BY <1>12, <2>2, <2>3, <2>4 DEF Stages
<1>13. CASE PutsAside
  <2>1. UNCHANGED <<pinned, copied>> /\ verb.at = "staged"
    BY <1>13 DEF PutsAside
  <2>2. CASE former' = state /\ state' = NoDirectory /\ UNCHANGED staged /\ VerbIs("aside")
    BY <1>1, <1>3, <1>5, <1>6, <1>7, <2>1, <2>2
  <2>3. CASE former' = NoDirectory /\ staged' = NoDirectory /\ UNCHANGED state /\ VerbEnds
    BY <1>1, <1>3, <1>4, <1>5, <1>7, <2>1, <2>3 DEF VerbEnds
  <2> QED BY <1>13, <2>2, <2>3 DEF PutsAside
<1>14. CASE Swaps
  <2>1. UNCHANGED <<pinned, copied>> /\ verb.at = "aside"
    BY <1>14 DEF Swaps
  <2>2. CASE state' = staged /\ staged' = NoDirectory /\ UNCHANGED former /\ VerbIs("restored")
    BY <1>1, <1>3, <1>5, <1>6, <1>7, <2>1, <2>2
  <2>3. CASE state' = former /\ former' = NoDirectory /\ UNCHANGED staged /\ VerbEnds
    BY <1>1, <1>3, <1>4, <1>5, <1>7, <2>1, <2>3 DEF VerbEnds
  <2> QED BY <1>14, <2>2, <2>3 DEF Swaps
<1>15. CASE Tidies
  <2>1. /\ UNCHANGED <<pinned, state, staged, copied>> /\ verb.at = "restored"
        /\ former' \in {NoDirectory, [former EXCEPT !.whole = FALSE]}
    BY <1>15 DEF Tidies
  <2>2. former' \in Directories /\ ~(former'.there /\ former'.whole)
    BY <1>1, <1>3, <2>1 DEF Directories
  <2> QED BY <1>1, <1>4, <1>5, <1>7, <1>15, <2>1, <2>2 DEF Tidies, VerbEnds
<1> QED BY <1>8, <1>10, <1>9, <1>11, <1>12, <1>14, <1>13, <1>15 DEF RunsVerbs

(* What is kept of the state and its copies is kept by every step.         *)
LEMMA KeptAlways == TrunkSpec => []KeptInv
<1>1. TrunkInit => KeptInv
  BY LivesBegin DEF TrunkInit, LivesInv, KeptInv, StateSound, NoDirectory
<1>2. KeptInv /\ [TrunkNext]_trunkVars => KeptInv'
  <2>1. CASE UNCHANGED trunkVars
    BY <2>1 DEF trunkVars, lifeVars, dirVars, KeptInv, TrunkTypeOK, StateSound
  <2> QED BY <2>1, KeptByLives, KeptByVerbs DEF TrunkNext
<1> QED BY <1>1, <1>2, PTL DEF TrunkSpec

(* However one of its steps fails, and whatever starts, dies or writes     *)
(* meanwhile, what a restore leaves at the state's path is whole, and the  *)
(* state is never left only where it was put aside (Restore in             *)
(* internal/instances).                                                    *)
THEOREM RestoreKeepsState == TrunkSpec => []StateIsKept
<1>1. KeptInv => StateIsKept
  BY DEF KeptInv, StateSound, StateIsKept
<1> QED BY <1>1, KeptAlways, PTL

(* Every variable of the lives has its type, whatever overtakes what.      *)
THEOREM LivesAreTyped == TrunkSpec => []TrunkTypeOK
<1>1. KeptInv => TrunkTypeOK
  BY DEF KeptInv
<1> QED BY <1>1, KeptAlways, PTL

(* The stamp moves where the one Core past its claim stamps, and where a   *)
(* manager's verb writes the state, which nobody then has.                 *)
LEMMA StampByLives ==
    ASSUME LivesInv, StampSound, form = "application", NEW r \in Runs, Starts(r) \/ Works(r) \/ Stops(r),
           Overlaps = FALSE, Naming = {} \/ Naming = Releases
    PROVE  StampSound'
<1>1. TrunkTypeOK /\ ClaimHeld /\ OneStarts /\ SocketsOwn /\ Launched /\ RunsAlone /\ VerbsAlone
  BY DEF LivesInv
<1>2. /\ core[r] \in CoreState /\ state \in Directories /\ core \in [Runs -> CoreState]
      /\ container \in [Runs -> ContainerSet]
  BY <1>1 DEF TrunkTypeOK, ContainerSet
<1>3. \A q \in Runs : q \in state.users \/ Contained(container[q]) => state.stamp = core[q].of
  BY DEF StampSound
<1>4. container[r] # "none" \/ r \in state.users => core[r].at \in {"units", "over"} \cup StopChain
  BY <1>1 DEF Launched
(* A step that leaves the stamp, and what r's own record says after it.    *)
<1>5. ASSUME NEW c \in CoreState, core' = [core EXCEPT ![r] = c], state'.stamp = state.stamp,
             c.of \in Releases, c.at \in Weighed => Readable(c.of, state.stamp),
             c.at \in {"declarations", "channels"} => c.deployed,
             c.at \in Stamped => Readable(c.of, c.lastRan) /\ state.stamp = c.of,
             \A q \in Runs \ {r} : q \in state'.users \/ Contained(container'[q])
                                => q \in state.users \/ Contained(container[q]),
             r \in state'.users \/ Contained(container'[r]) => state.stamp = c.of
      PROVE  StampSound'
  <2>1. core'[r] = c /\ \A q \in Runs \ {r} : core'[q] = core[q]
    BY <1>2, <1>5
  <2> SUFFICES ASSUME NEW q \in Runs
               PROVE  /\ core'[q].at # "out" => core'[q].of \in Releases
                      /\ core'[q].at \in Weighed => Readable(core'[q].of, state'.stamp)
                      /\ core'[q].at \in {"declarations", "channels"} => core'[q].deployed
                      /\ core'[q].at \in Stamped => /\ Readable(core'[q].of, core'[q].lastRan)
                                                   /\ state'.stamp = core'[q].of
                      /\ q \in state'.users \/ Contained(container'[q]) => state'.stamp = core'[q].of
    BY DEF StampSound
  <2>2. CASE q = r
    BY <1>5, <2>1, <2>2
  <2>3. CASE q # r
    BY <1>3, <1>5, <2>1, <2>3 DEF StampSound
  <2> QED BY <2>2, <2>3
(* One that leaves the containers and the users too.                       *)
<1>6. ASSUME NEW c \in CoreState, core' = [core EXCEPT ![r] = c], c.of = core[r].of,
             core[r].at # "out", c.lastRan = core[r].lastRan,
             state'.stamp = state.stamp, state'.users \subseteq state.users,
             \A q \in Runs : Contained(container'[q]) => Contained(container[q]),
             c.at \in Weighed => core[r].at \in Weighed,
             c.at \in {"declarations", "channels"} => c.deployed,
             c.at \in Stamped => core[r].at \in Stamped
      PROVE  StampSound'
  <2>1. /\ c.of \in Releases
        /\ c.at \in Weighed => Readable(c.of, state.stamp)
        /\ c.at \in Stamped => Readable(c.of, c.lastRan) /\ state.stamp = c.of
    BY <1>6 DEF StampSound
  <2>2. r \in state'.users \/ Contained(container'[r]) => state.stamp = c.of
    BY <1>3, <1>6
  <2> QED BY <1>5, <1>6, <2>1, <2>2
<1>7. CASE Gated(r)
  <2> DEFINE c == [NoCore EXCEPT !.at = "gated", !.of = pinned]
  <2>1. /\ core' = [core EXCEPT ![r] = c] /\ core[r].at = "out" /\ UNCHANGED <<container, state>>
        /\ Readable(pinned, state.stamp)
    BY <1>7 DEF Gated, dirVars
  <2>2. c \in CoreState /\ c.at = "gated" /\ c.of = pinned
    <3>1. pinned \in ReleaseOrNone /\ 0 \in ReleaseOrNone
      BY <1>1, TrunkAssumption DEF TrunkTypeOK, Releases, ReleaseOrNone
    <3> QED BY <3>1 DEF NoCore, CoreState, Chain, UnitStates
  <2> HIDE DEF c
  <2>3. r \notin state.users /\ container[r] = "none" /\ ~Contained(container[r])
    BY <1>4, <2>1 DEF StopChain, Contained
  <2>4. c.at \notin Stamped /\ c.at \notin {"declarations", "channels"}
    BY <2>2 DEF Stamped, StopChain
  <2>5. Readable(c.of, state.stamp) /\ c.of \in Releases
    BY <1>1, <2>1, <2>2 DEF TrunkTypeOK
  <2> QED BY <1>5, <2>2, <2>1, <2>3, <2>4, <2>5
<1>8. ASSUME NEW from \in CoreAts, NEW to \in CoreAts, Step(r, from, to), UNCHANGED container,
             state'.stamp = state.stamp, state'.users = state.users,
             to \in Weighed => from \in Weighed, to \in Stamped => from \in Stamped,
             to \in {"declarations", "channels"} => core[r].deployed, from # "out"
      PROVE  StampSound'
  <2> DEFINE c == [core[r] EXCEPT !.at = to]
  <2>1. core' = [core EXCEPT ![r] = c] /\ core[r].at = from
    BY <1>8 DEF Step
  <2>2. /\ c \in CoreState /\ c.at = to /\ c.of = core[r].of /\ c.lastRan = core[r].lastRan
        /\ c.deployed = core[r].deployed
    BY <1>2, <1>8 DEF CoreState, CoreAts
  <2> HIDE DEF c
  <2> QED BY <1>6, <1>8, <2>1, <2>2
<1>9. CASE Logging(r)
  BY <1>8, <1>9 DEF Logging, dirVars, CoreAts, Chain, Weighed, Stamped, StopChain
<1>10. CASE ClaimsRoot(r)
  BY <1>8, <1>10 DEF ClaimsRoot, dirVars, CoreAts, Chain, Weighed, Stamped, StopChain
<1>11. CASE ClearDebris(r)
  BY <1>8, <1>11 DEF ClearDebris, dirVars, CoreAts, Chain, Weighed, Stamped, StopChain
<1>12. CASE Stores(r)
  <2>1. Step(r, "debris", "stores") /\ UNCHANGED container /\ state' = [state EXCEPT !.there = TRUE]
    BY <1>12 DEF Stores
  <2>2. state'.stamp = state.stamp /\ state'.users = state.users
    BY <1>2, <2>1 DEF Directories
  <2> QED BY <1>8, <2>1, <2>2 DEF CoreAts, Chain, Weighed, Stamped, StopChain
<1>13. CASE Declarations(r)
  BY <1>8, <1>13 DEF Declarations, dirVars, CoreAts, Chain, Weighed, Stamped, StopChain
<1>14. CASE BindsChannels(r)
  <2>1. Step(r, "declarations", "channels") /\ UNCHANGED <<container, state>> /\ core[r].deployed
    BY <1>14 DEF BindsChannels, dirVars, Step, StampSound
  <2> QED BY <1>8, <2>1 DEF CoreAts, Chain, Weighed, Stamped, StopChain
<1>15. CASE Closes(r)
  BY <1>8, <1>15 DEF Closes, dirVars, CoreAts, Chain, Weighed, Stamped, StopChain
<1>16. CASE RemovesRoot(r)
  BY <1>8, <1>16 DEF RemovesRoot, dirVars, CoreAts, Chain, Weighed, Stamped, StopChain
<1>17. CASE Inherited(r)
  <2>1. PICK deployed \in BOOLEAN, gone \in SUBSET Listed(r) :
          /\ \/ core' = [core EXCEPT ![r] = [core[r] EXCEPT !.at = "over"]]
             \/ core' = [core EXCEPT ![r] = [core[r] EXCEPT !.at = "inherited", !.deployed = deployed]]
          /\ container' = Without(gone) /\ state' = Unused(state, gone)
    BY <1>17 DEF Inherited
  <2>2. PICK c \in CoreState :
          /\ core' = [core EXCEPT ![r] = c] /\ c.at \in {"over", "inherited"}
          /\ c.of = core[r].of /\ c.lastRan = core[r].lastRan
    <3>1. LET over == [core[r] EXCEPT !.at = "over"]
          IN  /\ over \in CoreState /\ over.at = "over"
              /\ over.of = core[r].of /\ over.lastRan = core[r].lastRan
      BY <1>2 DEF CoreState
    <3>2. LET on == [core[r] EXCEPT !.at = "inherited", !.deployed = deployed]
          IN  /\ on \in CoreState /\ on.at = "inherited"
              /\ on.of = core[r].of /\ on.lastRan = core[r].lastRan
      BY <1>2 DEF CoreState, Chain
    <3> QED BY <2>1, <3>1, <3>2
  <2>3. core[r].at = "stores"
    BY <1>17 DEF Inherited
  <2>4. state'.stamp = state.stamp /\ state'.users \subseteq state.users
    BY <1>2, <2>1, UnusedDirectory
  <2>5. \A q \in Runs : Contained(container'[q]) => Contained(container[q])
    BY <2>1 DEF Without, Contained
  <2>6. /\ c.at \in Weighed => core[r].at \in Weighed /\ c.at \notin Stamped
        /\ c.at \notin Stamped /\ c.at \notin {"declarations", "channels"}
    BY <2>2, <2>3 DEF Weighed, Stamped, StopChain
  <2>7. core[r].at # "out"
    BY <2>3
  <2> QED BY <1>6, <2>2, <2>4, <2>5, <2>6, <2>7
<1>18. CASE Stamps(r)
  <2>1. core[r].at = "channels" /\ core[r].deployed /\ UNCHANGED container
    BY <1>18 DEF Stamps, StampSound
  <2> DEFINE c == [core[r] EXCEPT !.at = "ready", !.lastRan = state.stamp]
             s == [state EXCEPT !.stamp = core[r].of]
  <2>2. core' = [core EXCEPT ![r] = c] /\ state' = s
    BY <1>18, <2>1 DEF Stamps
  <2>3. c \in CoreState /\ c.at = "ready" /\ c.of = core[r].of /\ c.lastRan = state.stamp
    BY <1>2 DEF CoreState, Chain, Directories
  <2>4. s.stamp = core[r].of /\ s.users = state.users
    BY <1>2 DEF Directories, CoreState
  <2> HIDE DEF c, s
  <2>0. \A q \in Runs : core[q].at # "out" => core[q].of \in Releases
    BY DEF StampSound
  <2>5. core'[r] = c /\ \A q \in Runs \ {r} : core'[q] = core[q]
    BY <1>2, <2>2
  <2>6. Readable(core[r].of, state.stamp)
    BY <2>1 DEF StampSound, Weighed
  <2>7. holder = r /\ r # 0
    BY <1>1, <2>1 DEF ClaimHeld, Holding, Runs
  <2>8. \A q \in Runs \ {r} : core[q].at \notin Weighed \cup Stamped
    <3>1. \A q \in Runs \ {r} : core[q].at \notin Holding \cup {"removed"}
      BY <1>1, <2>7 DEF ClaimHeld
    <3>2. \A q \in Runs \ {r} : core[q].at \notin Starting
      BY <1>1, <2>1 DEF OneStarts, Starting
    <3> QED BY <3>1, <3>2 DEF Holding, Starting, Weighed, Stamped, StopChain
  <2>9. \A q \in Runs \ {r} : ~Contained(container[q])
    <3>1. CASE Naming = {}
      BY <1>1, <3>1 DEF Launched, Contained
    <3>2. CASE Naming = Releases
      <4>1. core[r].of \in Releases
        BY <2>1 DEF StampSound
      <4> QED BY <1>1, <2>1, <3>2, <4>1 DEF RunsAlone, AloneFrom
    <3> QED BY <3>1, <3>2
  <2>10. \A q \in Runs \ {r} : q \notin state.users
    BY <1>1, <2>8, <2>9 DEF Launched, Contained, Stamped
  <2> SUFFICES ASSUME NEW q \in Runs
               PROVE  /\ core'[q].at # "out" => core'[q].of \in Releases
                      /\ core'[q].at \in Weighed => Readable(core'[q].of, state'.stamp)
                      /\ core'[q].at \in {"declarations", "channels"} => core'[q].deployed
                      /\ core'[q].at \in Stamped => /\ Readable(core'[q].of, core'[q].lastRan)
                                                   /\ state'.stamp = core'[q].of
                      /\ q \in state'.users \/ Contained(container'[q]) => state'.stamp = core'[q].of
    BY DEF StampSound
  <2>11. CASE q = r
    BY <2>0, <2>2, <2>1, <2>3, <2>4, <2>5, <2>6, <2>11 DEF Weighed
  <2>12. CASE q # r
    BY <2>0, <2>1, <2>2, <2>4, <2>5, <2>8, <2>9, <2>10, <2>12 DEF Weighed
  <2> QED BY <2>11, <2>12
<1>19. CASE StartsUnits(r)
  <2> DEFINE unit == CASE ~core[r].deployed -> "none"
                       [] core[r].lastRan \in MigratesFrom[core[r].of] -> "migrating"
                       [] OTHER -> "launching"
             c == [core[r] EXCEPT !.at = "units", !.unit = unit]
  <2>1. core' = [core EXCEPT ![r] = c] /\ core[r].at = "ready" /\ UNCHANGED <<state, container>>
    BY <1>19 DEF StartsUnits, dirVars
  <2>2. unit \in UnitStates
    <3>1. core[r].deployed \in BOOLEAN
      BY <1>2 DEF CoreState
    <3> QED BY <3>1 DEF UnitStates
  <2> HIDE DEF unit
  <2>3. c \in CoreState /\ c.at = "units" /\ c.of = core[r].of /\ c.lastRan = core[r].lastRan
    BY <1>2, <2>2 DEF CoreState, Chain
  <2> HIDE DEF c
  <2>4. c.at \notin Weighed /\ c.at \notin {"declarations", "channels"} /\ core[r].at \in Stamped
    BY <2>1, <2>3 DEF Weighed, Stamped
  <2>5. /\ state'.stamp = state.stamp /\ state'.users \subseteq state.users
        /\ \A q \in Runs : Contained(container'[q]) => Contained(container[q])
        /\ core[r].at # "out"
    BY <2>1
  <2> QED BY <1>6, <2>1, <2>3, <2>4, <2>5
<1>20. CASE Dies(r) \/ StopsUnits(r)
  <2>1. PICK at \in {"over", "stopped"} :
          /\ core' = [core EXCEPT ![r] = [core[r] EXCEPT !.at = at, !.unit = "none"]]
          /\ at = "stopped" => core[r].at = "units"
    BY <1>20 DEF Dies, StopsUnits
  <2> DEFINE c == [core[r] EXCEPT !.at = at, !.unit = "none"]
  <2>2. c \in CoreState /\ c.at = at /\ c.of = core[r].of /\ c.lastRan = core[r].lastRan
    BY <1>2 DEF CoreState, StopChain, UnitStates
  <2>3. core' = [core EXCEPT ![r] = c]
    BY <2>1
  <2> HIDE DEF c
  <2>4. state' = state \/ state' = Unused(state, {r})
    BY <1>20 DEF Dies, StopsUnits
  <2>5. state'.stamp = state.stamp /\ state'.users \subseteq state.users
    BY <1>2, <2>4, UnusedDirectory
  <2>6. \A q \in Runs : Contained(container'[q]) => Contained(container[q])
    <3>1. container' = container \/ container' = [container EXCEPT ![r] = "none"]
      BY <1>20 DEF Dies, StopsUnits
    <3> QED BY <1>2, <3>1 DEF Contained
  <2>7. core[r].at # "out"
    BY <1>20 DEF Dies, StopsUnits, Alive
  <2>8. /\ c.at \notin Weighed /\ c.at \notin {"declarations", "channels"}
        /\ c.at \in Stamped => core[r].at \in Stamped
    BY <2>1, <2>2 DEF Weighed, Stamped, StopChain
  <2> QED BY <1>6, <2>2, <2>3, <2>5, <2>6, <2>7, <2>8
(* What the units do: only a Core past its stamp has its unit launched.    *)
<1>21. CASE Works(r)
  <2>1. \A q \in Runs : /\ core'[q].at = core[q].at /\ core'[q].of = core[q].of
                      /\ core'[q].deployed = core[q].deployed /\ core'[q].lastRan = core[q].lastRan
    <3>1. core' = core \/ \E to \in UnitStates : core' = [core EXCEPT ![r].unit = to]
      BY <1>21 DEF Works, Migrates, Launches, EngineActs, Follows, Faults, WritesData, UnitIs, lifeVars,
                   UnitStates
    <3>2. ASSUME NEW to \in UnitStates, core' = [core EXCEPT ![r].unit = to]
          PROVE  \A q \in Runs : /\ core'[q].at = core[q].at /\ core'[q].of = core[q].of
                               /\ core'[q].deployed = core[q].deployed
                               /\ core'[q].lastRan = core[q].lastRan
      BY <1>2, <3>2 DEF CoreState
    <3> QED BY <3>1, <3>2
  <2>2. state'.stamp = state.stamp /\ state'.users \subseteq state.users \cup {r}
    <3>1. \/ state' = state
          \/ state' = [state EXCEPT !.wrote = core[r].of]
          \/ state' = [state EXCEPT !.users = state.users \cup {r}]
          \/ state' = Unused(state, {r})
      BY <1>21 DEF Works, Migrates, Launches, EngineActs, Follows, Faults, WritesData
    <3>2. /\ [state EXCEPT !.wrote = core[r].of].stamp = state.stamp
          /\ [state EXCEPT !.wrote = core[r].of].users = state.users
          /\ [state EXCEPT !.users = state.users \cup {r}].stamp = state.stamp
          /\ [state EXCEPT !.users = state.users \cup {r}].users = state.users \cup {r}
      BY <1>2 DEF Directories
    <3>3. Unused(state, {r}).stamp = state.stamp /\ Unused(state, {r}).users \subseteq state.users
      BY <1>2, UnusedDirectory
    <3> QED BY <3>1, <3>3, <3>2
  <2>3. \A q \in Runs \ {r} : container'[q] = container[q]
    BY <1>2, <1>21 DEF Works, Migrates, Launches, EngineActs, Follows, Faults, WritesData, ContainerGoes,
                       lifeVars
  <2>4. r \in state'.users \/ Contained(container'[r])
          => core[r].at \in Stamped \/ r \in state.users \/ Contained(container[r])
    <3>1. CASE Migrates(r) \/ Launches(r) \/ Faults(r)
      BY <3>1 DEF Migrates, Launches, Faults, UnitIs, Stamped
    <3>2. CASE EngineActs(r)
      BY <1>2, <3>2 DEF EngineActs, ContainerGoes, Contained
    <3>3. CASE Follows(r)
      <4>1. container[r] # "none" => core[r].at \in Stamped
        BY <1>4, <3>3 DEF Follows, Alive, Stamped
      <4>2. CASE container[r] = "none"
        BY <3>3, <4>2 DEF Follows, ContainerGoes
      <4> QED BY <4>1, <4>2
    <3>4. CASE WritesData(r)
      BY <3>4 DEF WritesData
    <3> QED BY <1>21, <3>2, <3>1, <3>3, <3>4 DEF Works
  <2>5. r \in state'.users \/ Contained(container'[r]) => state'.stamp = core'[r].of
    BY <1>3, <2>1, <2>2, <2>4 DEF StampSound
  <2>6. \A q \in Runs \ {r} : q \in state'.users \/ Contained(container'[q]) => state'.stamp = core'[q].of
    BY <1>3, <2>1, <2>2, <2>3
  <2>7. \A q \in Runs : q \in state'.users \/ Contained(container'[q]) => state'.stamp = core'[q].of
    BY <2>5, <2>6
  <2> QED BY <2>1, <2>2, <2>7 DEF StampSound
<1> QED BY <1>7, <1>9, <1>10, <1>11, <1>12, <1>14, <1>13, <1>15, <1>16, <1>18, <1>17, <1>19, <1>20, <1>21
        DEF Starts, Stops

(* A verb that writes the state does so where nothing has it.              *)
LEMMA StampByVerbs ==
    ASSUME LivesInv, StampSound, RunsVerbs, Overlaps = FALSE
    PROVE  StampSound'
<1>1. UNCHANGED <<core, container>>
  BY DEF RunsVerbs, BeginsVerb, SetVersion, Copies, Clears, Stages, PutsAside, Swaps, Tidies, lifeVars
<1>2. CASE UNCHANGED state
  BY <1>1, <1>2 DEF StampSound
<1>3. CASE ~UNCHANGED state
  <2>1. verb.at \notin {"none", "pinning"}
    BY <1>3 DEF RunsVerbs, BeginsVerb, SetVersion, Copies, Clears, Stages, PutsAside, Swaps, Tidies, dirVars
  <2>2. \A r \in Runs : ~Alive(r) /\ ~Contained(container[r])
    BY <2>1 DEF LivesInv, VerbsAlone
  <2>3. Launched' /\ \A r \in Runs : ~Alive(r)' /\ ~Contained(container'[r])
    BY <1>1, <2>2, VerbsStep DEF LivesInv, Alive
  <2>4. \A r \in Runs : core'[r].at \in {"out", "over"} /\ r \notin state'.users
    BY <2>3 DEF Alive, Launched, Contained
  <2> QED BY <1>1, <2>3, <2>4 DEF StampSound, Weighed, Stamped, StopChain
<1> QED BY <1>2, <1>3

(* Where nothing overtakes a start, and every version names an image or    *)
(* none does, the version that last ran is one the next one reads, and     *)
(* whoever has the state wrote the stamp it is weighed by (stamp,          *)
(* GateStart and inherited in internal/core/trunk).                        *)
THEOREM StateStaysReadable ==
    ASSUME Overlaps = FALSE, Naming = {} \/ Naming = Releases
    PROVE  TrunkSpec => []StateIsReadable
<1> DEFINE IInv == LivesInv /\ (form = "application" => StampSound)
<1>1. IInv => StateIsReadable
  <2> SUFFICES ASSUME LivesInv, StampSound
               PROVE  StateIsReadable
    BY DEF StateIsReadable
  <2>1. state.users \subseteq Runs
    BY DEF LivesInv, TrunkTypeOK, Directories
  <2> QED BY <2>1 DEF StampSound, StateIsReadable
<1>2. TrunkInit => IInv
  <2> SUFFICES ASSUME TrunkInit PROVE IInv
    OBVIOUS
  <2>1. \A r \in Runs : core[r].at = "out" /\ container[r] = "none" /\ state.users = {}
    BY DEF TrunkInit, NoCore, NoDirectory
  <2>2. StampSound
    BY <2>1 DEF StampSound, Weighed, Stamped, StopChain, Contained
  <2> QED BY <2>2, LivesBegin
<1>3. IInv /\ [TrunkNext]_trunkVars => IInv'
  <2> SUFFICES ASSUME LivesInv, form = "application" => StampSound, [TrunkNext]_trunkVars
               PROVE  LivesInv' /\ (form' = "application" => StampSound')
    OBVIOUS
  <2>1. LivesInv'
    BY LivesStep
  <2>2. CASE UNCHANGED trunkVars
    BY <2>1, <2>2 DEF trunkVars, lifeVars, dirVars, StampSound
  <2>3. CASE TrunkNext
    <3>1. UNCHANGED form
      BY <2>3 DEF TrunkNext, Starts, Works, Stops, Gated, Logging, ClaimsRoot, ClearDebris, Stores, Inherited,
                  Declarations, BindsChannels, Stamps, StartsUnits, Dies, StopsUnits, Closes, RemovesRoot,
                  Migrates, Launches, EngineActs, Follows, Faults, WritesData, RunsVerbs, BeginsVerb,
                  SetVersion, Copies, Clears, Stages, PutsAside, Swaps, Tidies, lifeVars
    <3> QED BY <2>1, <2>3, <3>1, StampByLives, StampByVerbs DEF TrunkNext
  <2> QED BY <2>1, <2>3, <2>2
<1> HIDE DEF IInv
<1> QED BY <1>1, <1>3, <1>2, PTL DEF TrunkSpec
================================================================================
