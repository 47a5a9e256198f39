----------------------------- MODULE AuthorityProofs -----------------------------
(***************************************************************************)
(* Authority, for every number of operators, copies, decisions, lives and  *)
(* Manifests: its types, that every decision changed something and the     *)
(* policy and the grants are what they leave, that what a registration is  *)
(* weighed against is what was declared, and that a running copy's scope   *)
(* is accounted for.  And of Declarations, for every bundle, host, draft   *)
(* and value: that what one gate passed, the next refuses only for what it *)
(* alone asks, and that what a Core launches of a document that passed is  *)
(* whole.                                                                  *)
(***************************************************************************)
EXTENDS Authority, Declarations, FiniteSetTheorems, WellFoundedInduction, TLAPS

(* What passed its check joins; what was found is declared before it       *)
(* replaces what the last scan read.                                       *)
ScanInv ==
    /\ Joined(scan.found) /\ Joined(known)
    /\ scan.at = "read" /\ scan.found.there => declared = scan.found
    /\ KnownIsDeclared

(* A request is about what its step is of; one that is to write the policy *)
(* and was overtaken by no write still changes it.                         *)
RequestInv(o) ==
    LET r == decider[o] IN
    /\ r.at \in {"policy", "updating"} => r.subject = "policy"
    /\ r.at = "grant" => r.subject \in Capabilities
    /\ r.at = "updating" /\ r.fresh => (enabled <=> ~r.grant)
    /\ r.decision # 0 =>
         /\ r.at = "reaching" /\ r.decision <= Len(history)
         /\ history[r.decision].subject = r.subject

(* A copy that has read its grants has what stood when it did, and of what *)
(* was decided since it is told, before it is running too.                 *)
HasRead(u) == copy[u].at \in {"weighing", "admitting"} \/ copy[u].state = "running"
CopyInv(u) ==
    LET r == copy[u].read IN
    /\ Joined(r.of)
    /\ HasRead(u) =>
         /\ r.asOf <= Len(history)
         /\ r.grants = {c \in Capabilities : Stands(history, c, r.asOf)}
         /\ \A i \in (r.asOf + 1)..Len(history) :
              history[i].subject # "policy" => ToBeTold(u, i)

(* A life has a number, and only one that has not begun registers.         *)
LivesInv ==
    \A u \in Copies :
       /\ Living(u) => copy[u].life > 0
       /\ copy[u].at # "out" => copy[u].state = "starting"

RequestsInv == AuthorityTypeOK /\ LivesInv /\ \A o \in Deciders : RequestInv(o)
DecisionsInv == RequestsInv /\ DecisionsChange
CopiesInv == DecisionsInv /\ ScanInv /\ \A u \in Copies : CopyInv(u)

--------------------------------------------------------------------------------
(* The data.                                                               *)

LEMMA SurfaceTypes ==
    /\ NoManifest \in Manifests \cup {NoManifest}
    /\ Surface(NoManifest) \in {Surface(m) : m \in Manifests \cup {NoManifest}}
    /\ Joined(NoManifest)
    /\ \A m \in Manifests \cup {NoManifest} : Surface(m).names \subseteq Capabilities
  <1>1. \A m \in Manifests : Surface(m).names \subseteq Capabilities
    <2>1. SUFFICES ASSUME NEW d \in Documents,
                          NEW m, m = [lists |-> d.lists, governs |-> d.governs, there |-> TRUE]
                   PROVE  Surface(m).names \subseteq Capabilities
      BY DEF Manifests
    <2>2. Surface(m).names = {g[1] : g \in d.governs}
      BY <2>1 DEF Surface
    <2>. QED  BY <2>2, AuthorityAssumption
  <1>2. Surface(NoManifest).names = {}
    BY DEF Surface, NoManifest
  <1>3. Joined(NoManifest)
    BY DEF Joined, NoManifest
  <1>. QED  BY <1>1, <1>3, <1>2

LEMMA WroteTypes ==
    ASSUME decider \in [Deciders -> RequestStates]
    PROVE  /\ Wrote(decider) \in [Deciders -> RequestStates]
           /\ \A o \in Deciders :
                /\ Wrote(decider)[o] = [decider[o] EXCEPT !.fresh = FALSE]
                /\ Wrote(decider)[o].decision = decider[o].decision
                /\ Wrote(decider)[o].left = decider[o].left
  BY DEF Wrote, RequestStates

(* What n decisions left is not changed by a later one.                    *)
LEMMA StandsKept ==
    ASSUME NEW T, NEW h \in Seq(T), NEW e \in T, NEW s, NEW n \in Nat, n <= Len(h)
    PROVE  Stands(Append(h, e), s, n) <=> Stands(h, s, n)
  <1>1. \A i \in 1..n : Append(h, e)[i] = h[i]
    OBVIOUS
  <1>2. DecisionsOn(Append(h, e), s, n) = DecisionsOn(h, s, n)
    BY <1>1 DEF DecisionsOn
  <1>3. \A i \in DecisionsOn(h, s, n) : i \in 1..n
    BY DEF DecisionsOn
  <1>. QED  BY <1>1, <1>3, <1>2 DEF Stands

(* The last decision about a subject is what stands; it leaves the others. *)
LEMMA StandsLast ==
    ASSUME NEW T, NEW h \in Seq(T), NEW e \in T, NEW s
    PROVE  Stands(Append(h, e), s, Len(h) + 1) <=>
             IF e.subject = s THEN e.given ELSE Stands(h, s, Len(h))
  <1>. DEFINE g == Append(h, e)
              n == Len(h)
  <1>1. /\ n \in Nat
        /\ g[n + 1] = e
        /\ \A i \in 1..n : g[i] = h[i]
    OBVIOUS
  <1>2. CASE e.subject = s
    <2>1. n + 1 \in DecisionsOn(g, s, n + 1)
      BY <1>1, <1>2 DEF DecisionsOn
    <2>2. \A i \in DecisionsOn(g, s, n + 1) : i \in Nat /\ i <= n + 1
      BY <1>1 DEF DecisionsOn
    <2>3. Stands(g, s, n + 1) <=>
            \E i \in DecisionsOn(g, s, n + 1) :
               g[i].given /\ \A j \in DecisionsOn(g, s, n + 1) : j <= i
      BY <2>1 DEF Stands
    <2>4. ASSUME NEW i \in DecisionsOn(g, s, n + 1),
                 \A j \in DecisionsOn(g, s, n + 1) : j <= i
          PROVE  i = n + 1
      BY <2>1, <2>2, <2>4, <1>1
    <2>. QED  BY <1>1, <1>2, <2>2, <2>1, <2>3, <2>4
  <1>3. CASE e.subject # s
    <2>1. DecisionsOn(g, s, n + 1) = DecisionsOn(h, s, n)
      BY <1>1, <1>3 DEF DecisionsOn
    <2>2. \A i \in DecisionsOn(h, s, n) : i \in 1..n
      BY DEF DecisionsOn
    <2>. QED  BY <1>1, <1>3, <2>1, <2>2 DEF Stands
  <1>. QED  BY <1>2, <1>3

--------------------------------------------------------------------------------
(* Types, and what a request is about.                                     *)

ScopesRead == [grants : SUBSET Capabilities, of : Manifests \cup {NoManifest},
               asOf : 0..MaxDecisions]

LEMMA BlankTypes ==
    /\ NoRequest \in RequestStates
    /\ NoLife \in CopyStates
    /\ NoLife.state = "none" /\ NoLife.life = 0 /\ NoLife.at = "out"
    /\ NoLife.read.of = NoManifest
  <1>1. NoRequest \in RequestStates
    BY AuthorityAssumption DEF NoRequest, RequestStates, Subjects
  <1>2. NoScope \in [grants : SUBSET Capabilities, of : Manifests \cup {NoManifest},
                     asOf : 0..MaxDecisions]
    BY SurfaceTypes, AuthorityAssumption DEF NoScope
  <1>3. NoLife \in CopyStates
    BY <1>2, SurfaceTypes, AuthorityAssumption DEF NoLife, CopyStates
  <1>. QED  BY <1>1, <1>3 DEF NoLife, NoScope

(* A life that ended. *)
LEMMA OverTypes ==
    ASSUME copy \in [Copies -> CopyStates], NEW u \in Copies
    PROVE  /\ Over(u) \in [Copies -> CopyStates]
           /\ Over(u)[u].state = "over" /\ Over(u)[u].at = "out"
           /\ Over(u)[u].life = copy[u].life /\ Over(u)[u].read.of = NoManifest
           /\ \A v \in Copies \ {u} : Over(u)[v] = copy[v]
  <1>1. copy[u].life \in 0..MaxStarts
    BY DEF CopyStates
  <1>. DEFINE l == [NoLife EXCEPT !.state = "over", !.life = copy[u].life]
  <1>2. /\ l \in CopyStates
        /\ l.state = "over" /\ l.at = "out" /\ l.life = copy[u].life
        /\ l.read.of = NoManifest
    BY <1>1, BlankTypes DEF CopyStates
  <1>3. Over(u) = [copy EXCEPT ![u] = l]
    BY DEF Over
  <1>. HIDE DEF l
  <1>. QED  BY <1>2, <1>3

(* What a step leaves of a request that is not its own: at most, what it   *)
(* read is stale.                                                          *)
Keeps(o) ==
    /\ decider'[o].at = decider[o].at /\ decider'[o].subject = decider[o].subject
    /\ decider'[o].grant = decider[o].grant
    /\ decider'[o].decision = decider[o].decision
    /\ decider'[o].left = decider[o].left
    /\ decider'[o].fresh => decider[o].fresh

(* The step of a decision: one more of the history, its request on its way *)
(* to the copies, and what the other requests read stale.                  *)
LEMMA DecidedTypes ==
    ASSUME AuthorityTypeOK, NEW o \in Deciders, NEW left \in SUBSET Copies,
           Decided(o, left)
    PROVE  /\ history' \in Seq([subject : Subjects, given : BOOLEAN])
           /\ Len(history') = Len(history) + 1
           /\ Len(history') <= MaxDecisions
           /\ history' = Append(history, [subject |-> decider[o].subject,
                                          given |-> decider[o].grant])
           /\ [subject |-> decider[o].subject, given |-> decider[o].grant]
                 \in [subject : Subjects, given : BOOLEAN]
           /\ decider' \in [Deciders -> RequestStates]
           /\ decider'[o].at = "reaching" /\ decider'[o].subject = decider[o].subject
           /\ decider'[o].decision = Len(history) + 1 /\ decider'[o].left = left
           /\ \A p \in Deciders \ {o} : Keeps(p) /\ ~decider'[p].fresh
  <1>1. decider[o] \in RequestStates /\ decider \in [Deciders -> RequestStates]
    BY DEF AuthorityTypeOK
  <1>2. [subject |-> decider[o].subject, given |-> decider[o].grant]
            \in [subject : Subjects, given : BOOLEAN]
    BY <1>1 DEF RequestStates
  <1>3. history' = Append(history, [subject |-> decider[o].subject,
                                    given |-> decider[o].grant])
    BY DEF Decided
  <1>4. /\ history' \in Seq([subject : Subjects, given : BOOLEAN])
        /\ Len(history') = Len(history) + 1
        /\ Len(history') <= MaxDecisions
        /\ Len(history) + 1 \in 0..MaxDecisions
    BY <1>2, <1>3, AuthorityAssumption DEF AuthorityTypeOK, Decided
  <1>. DEFINE w == Wrote(decider)
  <1>5. /\ w \in [Deciders -> RequestStates]
        /\ \A p \in Deciders : w[p] = [decider[p] EXCEPT !.fresh = FALSE]
    BY <1>1, WroteTypes
  <1>6. \A p \in Deciders :
          /\ w[p].at = decider[p].at /\ w[p].subject = decider[p].subject
          /\ w[p].grant = decider[p].grant /\ w[p].decision = decider[p].decision
          /\ w[p].left = decider[p].left /\ ~w[p].fresh
    BY <1>1, <1>5 DEF RequestStates
  <1>. DEFINE r == [w[o] EXCEPT !.at = "reaching", !.decision = Len(history) + 1,
                                !.left = left]
  <1>7. decider' = [w EXCEPT ![o] = r]
    BY <1>5 DEF Decided
  <1>. HIDE DEF w
  <1>8. /\ r \in RequestStates
        /\ r.at = "reaching" /\ r.subject = w[o].subject
        /\ r.decision = Len(history) + 1 /\ r.left = left
    <2>1. w[o] \in RequestStates
      BY <1>5
    <2>. QED  BY <1>4, <2>1 DEF RequestStates
  <1>. HIDE DEF r
  <1>9. /\ decider' \in [Deciders -> RequestStates]
        /\ decider'[o] = r
        /\ \A p \in Deciders \ {o} : decider'[p] = w[p]
    BY <1>5, <1>7, <1>8
  <1>. QED  BY <1>2, <1>3, <1>4, <1>6, <1>8, <1>9 DEF Keeps

LEMMA TypesInit == AuthorityInit => AuthorityTypeOK /\ LivesInv
  <1>. SUFFICES ASSUME AuthorityInit PROVE AuthorityTypeOK /\ LivesInv
    OBVIOUS
  <1>1. /\ decider \in [Deciders -> RequestStates] /\ copy \in [Copies -> CopyStates]
        /\ \A u \in Copies : copy[u] = NoLife
    BY BlankTypes DEF AuthorityInit
  <1>2. history \in Seq([subject : Subjects, given : BOOLEAN]) /\ Len(history) = 0
    BY DEF AuthorityInit
  <1>3. scan \in [at : {"idle", "declaring", "read"}, found : Manifests \cup {NoManifest}]
    BY SurfaceTypes DEF AuthorityInit
  <1>4. told \in [1..MaxDecisions -> SUBSET (Copies \X (1..MaxStarts))]
    BY DEF AuthorityInit
  <1>5. /\ known \in Manifests \cup {NoManifest} /\ declared \in Manifests \cup {NoManifest}
        /\ serving \in BOOLEAN /\ enabled \in BOOLEAN /\ grants \subseteq Capabilities
    BY SurfaceTypes DEF AuthorityInit
  <1>6. LivesInv
    BY <1>1, BlankTypes DEF LivesInv, Living
  <1>. QED  BY <1>2, <1>1, <1>3, <1>4, <1>5, <1>6, AuthorityAssumption DEF AuthorityTypeOK

LEMMA RequestsInit == AuthorityInit => RequestsInv
  <1>. SUFFICES ASSUME AuthorityInit PROVE \A o \in Deciders : RequestInv(o)
    BY TypesInit DEF RequestsInv
  <1>. QED  BY DEF AuthorityInit, RequestInv, NoRequest

LEMMA RequestKept ==
    ASSUME RequestsInv, NEW o \in Deciders, Keeps(o),
           UNCHANGED enabled \/ ~decider'[o].fresh,
           \/ UNCHANGED history
           \/ \E e \in [subject : Subjects, given : BOOLEAN] : history' = Append(history, e)
    PROVE  RequestInv(o)'
  <1>1. /\ decider[o] \in RequestStates
        /\ history \in Seq([subject : Subjects, given : BOOLEAN])
        /\ RequestInv(o)
    BY DEF RequestsInv, AuthorityTypeOK
  <1>3. /\ Len(history) <= Len(history')
        /\ \A i \in 1..Len(history) : history'[i] = history[i]
    BY <1>1
  <1>4. decider[o].decision # 0 =>
          /\ decider[o].decision \in 1..Len(history)
          /\ Len(history) \in Nat /\ Len(history') \in Nat
    BY <1>1, AuthorityAssumption DEF RequestStates, RequestInv
  <1>5. decider[o].decision # 0 =>
          /\ decider[o].decision <= Len(history')
          /\ history'[decider[o].decision] = history[decider[o].decision]
    BY <1>3, <1>4
  <1>. QED  BY <1>1, <1>5 DEF RequestInv, Keeps

(* A step of requests that decides nothing, and one that decides.          *)
LEMMA RequestsGo ==
    ASSUME RequestsInv, UNCHANGED <<discoveryVars, registry, told, copy>>,
           NEW o \in Deciders, NEW r \in RequestStates, decider' = [decider EXCEPT ![o] = r],
           RequestInv(o)'
    PROVE  RequestsInv'
  <1>1. /\ decider' \in [Deciders -> RequestStates]
        /\ \A p \in Deciders \ {o} : decider'[p] = decider[p]
    BY DEF RequestsInv, AuthorityTypeOK
  <1>2. AuthorityTypeOK' /\ LivesInv'
    BY <1>1 DEF RequestsInv, AuthorityTypeOK, LivesInv, Living, discoveryVars, registry
  <1>3. \A p \in Deciders \ {o} : RequestInv(p)'
    BY <1>1, RequestKept DEF Keeps, registry
  <1>. QED  BY <1>2, <1>3 DEF RequestsInv

LEMMA RequestsDecide ==
    ASSUME RequestsInv, NEW o \in Deciders, NEW left \in SUBSET Copies, Decided(o, left),
           enabled' \in BOOLEAN, grants' \subseteq Capabilities,
           UNCHANGED <<discoveryVars, declared, told, copy>>
    PROVE  RequestsInv'
  <1>1. AuthorityTypeOK
    BY DEF RequestsInv
  <1>2. AuthorityTypeOK' /\ LivesInv'
    BY <1>1, DecidedTypes
    DEF RequestsInv, AuthorityTypeOK, LivesInv, Living, discoveryVars
  <1>3. RequestInv(o)'
    <2>1. /\ history \in Seq([subject : Subjects, given : BOOLEAN])
          /\ history' = Append(history, [subject |-> decider[o].subject,
                                         given |-> decider[o].grant])
          /\ Len(history') = Len(history) + 1
          /\ decider'[o].at = "reaching" /\ decider'[o].subject = decider[o].subject
          /\ decider'[o].decision = Len(history) + 1
      BY <1>1, DecidedTypes DEF AuthorityTypeOK
    <2>2. history'[Len(history) + 1].subject = decider[o].subject
      BY <2>1
    <2>. QED  BY <2>1, <2>2 DEF RequestInv
  <1>4. ASSUME NEW p \in Deciders \ {o} PROVE RequestInv(p)'
    <2>1. /\ Keeps(p) /\ ~decider'[p].fresh
          /\ \E e \in [subject : Subjects, given : BOOLEAN] : history' = Append(history, e)
      BY <1>1, DecidedTypes
    <2>. QED  BY <2>1, RequestKept
  <1>. QED  BY <1>2, <1>3, <1>4 DEF RequestsInv

(* A step of a scan or of a copy, which may write the Registry without     *)
(* deciding.                                                               *)
LEMMA RequestsBeside ==
    ASSUME RequestsInv, UNCHANGED <<enabled, grants, history, told>>,
           decider' = decider \/ decider' = Wrote(decider),
           scan' \in [at : {"idle", "declaring", "read"}, found : Manifests \cup {NoManifest}],
           known' \in Manifests \cup {NoManifest}, serving' \in BOOLEAN,
           declared' \in Manifests \cup {NoManifest},
           copy' \in [Copies -> CopyStates], LivesInv'
    PROVE  RequestsInv'
  <1>1. decider \in [Deciders -> RequestStates]
    BY DEF RequestsInv, AuthorityTypeOK
  <1>2. decider' \in [Deciders -> RequestStates] /\ \A o \in Deciders : Keeps(o)
    <2>1. CASE decider' = decider
      BY <1>1, <2>1 DEF Keeps
    <2>2. CASE decider' = Wrote(decider)
      <3>1. ASSUME NEW o \in Deciders PROVE Keeps(o)
        <4>1. decider'[o] = [decider[o] EXCEPT !.fresh = FALSE] /\ decider[o] \in RequestStates
          BY <1>1, <2>2, WroteTypes
        <4>. QED  BY <4>1 DEF Keeps, RequestStates
      <3>. QED  BY <1>1, <2>2, <3>1, WroteTypes
    <2>. QED  BY <2>1, <2>2
  <1>3. AuthorityTypeOK'
    BY <1>2 DEF RequestsInv, AuthorityTypeOK
  <1>4. \A o \in Deciders : RequestInv(o)'
    BY <1>2, RequestKept
  <1>. QED  BY <1>3, <1>4 DEF RequestsInv

LEMMA RequestsStep == RequestsInv /\ [AuthorityNext]_authorityVars => RequestsInv'
  <1>. SUFFICES ASSUME RequestsInv, [AuthorityNext]_authorityVars
                PROVE  RequestsInv'
    OBVIOUS
  <1>0. /\ AuthorityTypeOK /\ LivesInv /\ \A o \in Deciders : RequestInv(o)
        /\ decider \in [Deciders -> RequestStates] /\ copy \in [Copies -> CopyStates]
        /\ \A o \in Deciders : decider[o] \in RequestStates
        /\ \A u \in Copies : copy[u] \in CopyStates
    BY DEF RequestsInv, AuthorityTypeOK
  <1>1. CASE Scans
    <2>1. /\ UNCHANGED <<enabled, grants, history, told, copy>>
          /\ decider' = decider \/ decider' = Wrote(decider)
          /\ known' \in Manifests \cup {NoManifest} /\ serving' \in BOOLEAN
          /\ declared' \in Manifests \cup {NoManifest}
      BY <1>0, <1>1
      DEF Scans, ReadsFile, Declares, Replaces, AuthorityTypeOK, registry
    <2>2. scan' \in [at : {"idle", "declaring", "read"}, found : Manifests \cup {NoManifest}]
      BY <1>0, <1>1, SurfaceTypes
      DEF Scans, ReadsFile, Declares, Replaces, AuthorityTypeOK
    <2>3. copy' \in [Copies -> CopyStates] /\ LivesInv'
      BY <1>0, <2>1 DEF LivesInv, Living
    <2>. QED  BY <2>1, <2>3, <2>2, RequestsBeside
  <1>2. CASE CoreDies
    <2>1. decider' \in [Deciders -> RequestStates] /\ \A o \in Deciders : decider'[o] = NoRequest
      BY <1>2, BlankTypes DEF CoreDies
    <2>2. /\ copy' \in [Copies -> CopyStates]
          /\ \A u \in Copies : copy'[u].state = "none" /\ copy'[u].at = "out"
      <3>1. ASSUME NEW u \in Copies
            PROVE  /\ [NoLife EXCEPT !.life = copy[u].life] \in CopyStates
                   /\ [NoLife EXCEPT !.life = copy[u].life].state = "none"
                   /\ [NoLife EXCEPT !.life = copy[u].life].at = "out"
        BY <1>0, BlankTypes DEF CopyStates
      <3>. QED  BY <1>2, <3>1 DEF CoreDies
    <2>3. scan' \in [at : {"idle", "declaring", "read"}, found : Manifests \cup {NoManifest}]
      BY <1>2, SurfaceTypes DEF CoreDies
    <2>4. AuthorityTypeOK' /\ LivesInv'
      BY <1>0, <1>2, <2>1, <2>2, <2>3, SurfaceTypes
      DEF AuthorityTypeOK, CoreDies, registry, LivesInv, Living
    <2>. QED  BY <2>1, <2>4 DEF RequestsInv, RequestInv, NoRequest
  <1>3. ASSUME NEW o \in Deciders, Operates(o) PROVE RequestsInv'
    <2>1. ASSUME NEW s \in Subjects, NEW grant \in BOOLEAN, Asks(o, s, grant)
          PROVE  RequestsInv'
      <3>. DEFINE a == IF s = "policy" THEN "policy" ELSE "grant"
                  r == [NoRequest EXCEPT !.at = a, !.subject = s, !.grant = grant]
      <3>0. a \in {"policy", "grant"} /\ (a = "policy" <=> s = "policy")
        OBVIOUS
      <3>2. decider' = [decider EXCEPT ![o] = r] /\ UNCHANGED <<discoveryVars, registry, told, copy>>
        BY <2>1 DEF Asks
      <3>. HIDE DEF a
      <3>1. /\ r \in RequestStates /\ r.subject = s /\ r.decision = 0 /\ r.at = a
        BY <3>0, BlankTypes, AuthorityAssumption DEF RequestStates, NoRequest
      <3>. HIDE DEF r
      <3>3. RequestInv(o)'
        BY <1>0, <3>0, <3>1, <3>2 DEF RequestInv, Subjects
      <3>. QED  BY <3>1, <3>3, <3>2, RequestsGo
    <2>2. CASE decider' = [decider EXCEPT ![o] = NoRequest]
               /\ UNCHANGED <<discoveryVars, registry, told, copy>>
      <3>1. RequestInv(o)'
        BY <1>0, <2>2 DEF RequestInv, NoRequest
      <3>. QED  BY <2>2, <3>1, BlankTypes, RequestsGo
    <2>3. CASE Selects(o)
      <3>1. CASE enabled = decider[o].grant
        BY <2>2, <2>3, <3>1 DEF Selects
      <3>2. CASE enabled # decider[o].grant
        <4>. DEFINE r == [decider[o] EXCEPT !.at = "updating", !.fresh = TRUE]
        <4>1. decider' = [decider EXCEPT ![o] = r] /\ UNCHANGED <<discoveryVars, registry, told, copy>>
          BY <2>3, <3>2 DEF Selects
        <4>2. /\ r \in RequestStates /\ r.at = "updating" /\ r.subject = decider[o].subject
              /\ r.grant = decider[o].grant /\ r.decision = decider[o].decision
          BY <1>0 DEF RequestStates
        <4>. HIDE DEF r
        <4>3. RequestInv(o)'
          <5>1. decider'[o] = r /\ UNCHANGED enabled /\ decider[o].at = "policy"
            BY <1>0, <2>3, <4>1 DEF Selects, registry
          <5>2. enabled \in BOOLEAN /\ decider[o].grant \in BOOLEAN /\ RequestInv(o)
            BY <1>0 DEF AuthorityTypeOK, RequestStates
          <5>. QED  BY <3>2, <4>2, <5>1, <5>2 DEF RequestInv
        <4>. QED  BY <4>1, <4>3, <4>2, RequestsGo
      <3>. QED  BY <3>1, <3>2
    <2>4. CASE Updates(o)
      <3>1. CASE decider[o].fresh
        <4>1. /\ Decided(o, IF decider[o].grant THEN {} ELSE Copies)
              /\ enabled' \in BOOLEAN
              /\ grants' \subseteq Capabilities
              /\ UNCHANGED <<discoveryVars, declared, told, copy>>
          BY <1>0, <2>4, <3>1 DEF AuthorityTypeOK, RequestStates, Updates
        <4>. QED  BY <4>1, RequestsDecide
      <3>2. CASE ~decider[o].fresh
        BY <2>2, <2>4, <3>2 DEF Updates, registry
      <3>. QED  BY <3>1, <3>2
    <2>5. CASE Grants(o)
      <3>1. decider[o].subject \in Capabilities /\ decider[o].at = "grant"
        BY <1>0, <2>5 DEF Grants, RequestInv
      <3>2. CASE (decider[o].subject \in grants) = decider[o].grant
        <4>. DEFINE r == [decider[o] EXCEPT !.at = "reaching", !.left = Copies]
        <4>1. decider' = [decider EXCEPT ![o] = r] /\ UNCHANGED <<discoveryVars, registry, told, copy>>
          BY <1>0, <2>5, <3>2 DEF Grants, registry
        <4>2. /\ r \in RequestStates /\ r.at = "reaching" /\ r.subject = decider[o].subject
              /\ r.decision = decider[o].decision
          BY <1>0 DEF RequestStates
        <4>. HIDE DEF r
        <4>3. RequestInv(o)'
          BY <1>0, <4>1, <4>2 DEF RequestInv, registry
        <4>. QED  BY <4>1, <4>3, <4>2, RequestsGo
      <3>3. CASE (decider[o].subject \in grants) # decider[o].grant
        <4>1. /\ Decided(o, Copies) /\ UNCHANGED <<discoveryVars, declared, enabled, told, copy>>
              /\ grants' \subseteq Capabilities
          BY <1>0, <2>5, <3>1, <3>3 DEF AuthorityTypeOK, Grants
        <4>2. enabled' \in BOOLEAN
          BY <1>0, <4>1 DEF AuthorityTypeOK
        <4>. QED  BY <4>1, <4>2, RequestsDecide
      <3>. QED  BY <3>2, <3>3
    <2>6. CASE Answers(o)
      BY <2>2, <2>6 DEF Answers
    <2>7. ASSUME NEW u \in Copies, Looks(o, u) PROVE RequestsInv'
      <3>. DEFINE r == [decider[o] EXCEPT !.left = @ \ {u}]
      <3>1. decider' = [decider EXCEPT ![o] = r] /\ UNCHANGED <<discoveryVars, registry>>
        BY <1>0, <2>7 DEF Looks
      <3>2. /\ r \in RequestStates /\ r.at = decider[o].at /\ r.subject = decider[o].subject
            /\ r.grant = decider[o].grant /\ r.decision = decider[o].decision
            /\ r.fresh = decider[o].fresh
        BY <1>0 DEF RequestStates
      <3>. HIDE DEF r
      <3>3. copy' \in [Copies -> CopyStates] /\ LivesInv'
        BY <1>0, <2>7, OverTypes DEF Looks, LivesInv, Living
      <3>4. told' \in [1..MaxDecisions -> SUBSET (Copies \X (1..MaxStarts))]
        <4>1. CASE UNCHANGED told
          BY <1>0, <4>1 DEF AuthorityTypeOK
        <4>2. CASE TellsOf(o, u)
          <5>1. Living(u) => <<u, copy[u].life>> \in Copies \X (1..MaxStarts)
            BY <1>0, AuthorityAssumption DEF LivesInv, CopyStates
          <5>. QED  BY <1>0, <4>1, <4>2, <5>1 DEF AuthorityTypeOK, TellsOf
        <4>. QED  BY <2>7, <4>1, <4>2 DEF Looks
      <3>5. /\ decider' \in [Deciders -> RequestStates] /\ decider'[o] = r
            /\ \A p \in Deciders \ {o} : decider'[p] = decider[p]
        BY <1>0, <3>1, <3>2
      <3>6. AuthorityTypeOK'
        BY <1>0, <3>1, <3>3, <3>4, <3>5 DEF AuthorityTypeOK, discoveryVars, registry
      <3>7. RequestInv(o)'
        BY <1>0, <3>1, <3>2, <3>5 DEF RequestInv, registry
      <3>8. \A p \in Deciders \ {o} : RequestInv(p)'
        BY <3>1, <3>5, RequestKept DEF Keeps, registry
      <3>. QED  BY <3>3, <3>6, <3>7, <3>8 DEF RequestsInv
    <2>. QED  BY <1>3, <2>1, <2>3, <2>4, <2>5, <2>6, <2>7 DEF Operates
  <1>4. ASSUME NEW u \in Copies, Registers(u) PROVE RequestsInv'
    <2>1. /\ UNCHANGED <<discoveryVars, declared, enabled, grants, history, told>>
          /\ decider' = decider \/ decider' = Wrote(decider)
      BY <1>4
      DEF Registers, Launches, LifeEnds, ReadsPolicy, ReadsGrants, Weighs, Admits, ByCopy
    <2>2. copy' \in [Copies -> CopyStates] /\ LivesInv'
      <3>1. CASE copy' = Over(u)
        BY <1>0, <3>1, OverTypes DEF LivesInv, Living
      <3>2. ASSUME NEW l \in CopyStates, copy' = [copy EXCEPT ![u] = l],
                   l.state \in {"starting", "running"} => l.life > 0,
                   l.at # "out" => l.state = "starting"
            PROVE  copy' \in [Copies -> CopyStates] /\ LivesInv'
        BY <1>0, <3>2 DEF LivesInv, Living
      <3>3. ASSUME NEW m \in Manifests, copy[u].life < MaxStarts,
                   copy' = [copy EXCEPT ![u] = [NoLife EXCEPT !.state = "starting",
                              !.built = Surface(m), !.life = copy[u].life + 1]]
            PROVE  copy' \in [Copies -> CopyStates] /\ LivesInv'
        <4>. DEFINE l == [NoLife EXCEPT !.state = "starting", !.built = Surface(m),
                                        !.life = copy[u].life + 1]
        <4>1. copy[u].life + 1 \in 0..MaxStarts /\ copy[u].life + 1 > 0
          BY <1>0, <3>3, AuthorityAssumption DEF CopyStates
        <4>2. l \in CopyStates /\ l.life = copy[u].life + 1 /\ l.state = "starting"
          BY <4>1, BlankTypes DEF CopyStates
        <4>. HIDE DEF l
        <4>. QED  BY <3>2, <3>3, <4>1, <4>2 DEF l
      <3>4. CASE ReadsPolicy(u)
        BY <1>0, <3>4 DEF ReadsPolicy, CopyGoes, CopyStates, LivesInv, Living
      <3>5. CASE ReadsGrants(u)
        <4>. DEFINE q == [copy[u].read EXCEPT !.grants = grants, !.asOf = Len(history)]
                    l == [copy[u] EXCEPT !.at = "weighing", !.read = q]
        <4>1. grants \in SUBSET Capabilities /\ Len(history) \in 0..MaxDecisions
          BY <1>0, AuthorityAssumption DEF AuthorityTypeOK
        <4>3. copy' = [copy EXCEPT ![u] = l]
          BY <1>0, <3>5 DEF ReadsGrants
        <4>5. q \in ScopesRead
          <5>1. copy[u].read \in ScopesRead
            BY <1>0 DEF CopyStates, ScopesRead
          <5>. QED  BY <4>1, <5>1 DEF ScopesRead
        <4>. HIDE DEF q
        <4>2. l \in CopyStates /\ l.state = copy[u].state /\ l.life = copy[u].life
          BY <1>0, <4>5 DEF CopyStates, ScopesRead
        <4>4. l.state = "starting" /\ l.life > 0
          BY <1>0, <3>5, <4>2 DEF LivesInv, Living, ReadsGrants
        <4>. HIDE DEF l
        <4>. QED  BY <3>2, <4>2, <4>3, <4>4
      <3>6. CASE Weighs(u)
        <4>1. CASE copy' = Over(u)
          BY <3>1, <4>1
        <4>2. CASE copy' = [copy EXCEPT ![u] = [@ EXCEPT !.at = "admitting", !.read.of = known]]
          <5>. DEFINE q == [copy[u].read EXCEPT !.of = known]
                      l == [copy[u] EXCEPT !.at = "admitting", !.read = q]
          <5>1. known \in Manifests \cup {NoManifest}
            BY <1>0 DEF AuthorityTypeOK
          <5>3. copy' = [copy EXCEPT ![u] = l]
            BY <1>0, <4>2
          <5>5. q \in ScopesRead
            <6>1. copy[u].read \in ScopesRead
              BY <1>0 DEF CopyStates, ScopesRead
            <6>. QED  BY <5>1, <6>1 DEF ScopesRead
          <5>. HIDE DEF q
          <5>2. l \in CopyStates /\ l.state = copy[u].state /\ l.life = copy[u].life
            BY <1>0, <5>5 DEF CopyStates, ScopesRead
          <5>4. l.state = "starting" /\ l.life > 0
            BY <1>0, <3>6, <5>2 DEF LivesInv, Living, Weighs
          <5>. HIDE DEF l
          <5>. QED  BY <3>2, <5>2, <5>3, <5>4
        <4>. QED  BY <3>6, <4>1, <4>2 DEF Weighs
      <3>7. CASE Admits(u)
        <4>1. CASE copy' = Over(u)
          BY <3>1, <4>1
        <4>2. CASE copy' = [copy EXCEPT ![u] = [@ EXCEPT !.at = "out", !.state = "running",
                                                         !.built = Surface(NoManifest)]]
          <5>. DEFINE l == [copy[u] EXCEPT !.at = "out", !.state = "running",
                                           !.built = Surface(NoManifest)]
          <5>1. l \in CopyStates /\ l.life = copy[u].life /\ l.at = "out"
            BY <1>0, SurfaceTypes DEF CopyStates
          <5>2. copy' = [copy EXCEPT ![u] = l]
            BY <1>0, <4>2
          <5>3. copy[u].state = "starting"
            BY <1>0, <3>7 DEF Admits, LivesInv
          <5>4. l.life > 0
            BY <1>0, <5>1, <5>3 DEF LivesInv, Living
          <5>. HIDE DEF l
          <5>. QED  BY <3>2, <5>1, <5>2, <5>4
        <4>. QED  BY <3>7, <4>1, <4>2 DEF Admits
      <3>. QED  BY <1>4, <3>1, <3>3, <3>4, <3>5, <3>6, <3>7
                DEF Registers, Launches, LifeEnds
    <2>. QED  BY <1>0, <2>1, <2>2, RequestsBeside DEF discoveryVars, AuthorityTypeOK
  <1>5. CASE UNCHANGED authorityVars
    <2>1. copy' \in [Copies -> CopyStates] /\ LivesInv'
      BY <1>0, <1>5 DEF authorityVars, LivesInv, Living
    <2>. QED  BY <1>0, <1>5, <2>1, RequestsBeside
              DEF authorityVars, AuthorityTypeOK, discoveryVars, registry
  <1>. QED  BY <1>2, <1>1, <1>3, <1>4, <1>5 DEF AuthorityNext

(* What every step but a decision leaves.                                  *)
LEMMA StepLeaves ==
    ASSUME RequestsInv, [AuthorityNext]_authorityVars
    PROVE  \/ UNCHANGED <<enabled, grants, history>>
           \/ \E o \in Deciders : Updates(o) /\ decider[o].fresh
           \/ \E o \in Deciders : Grants(o) /\ (decider[o].subject \in grants) # decider[o].grant
  BY DEF AuthorityNext, authorityVars, Scans, ReadsFile, Declares, Replaces, CoreDies,
     Operates, Asks, Selects, Updates, Grants, Answers, Looks, Registers, Launches,
     LifeEnds, ReadsPolicy, ReadsGrants, Weighs, Admits, ByCopy, registry

--------------------------------------------------------------------------------
(* The history.                                                            *)

LEMMA DecisionAppended ==
    ASSUME RequestsInv, DecisionsChange,
           NEW e \in [subject : Subjects, given : BOOLEAN], history' = Append(history, e),
           e.given <=> ~Stands(history, e.subject, Len(history)),
           enabled' <=> IF e.subject = "policy" THEN e.given ELSE enabled,
           grants' = {c \in Capabilities : IF e.subject = c THEN e.given ELSE c \in grants}
    PROVE  DecisionsChange'
  <1>1. /\ history \in Seq([subject : Subjects, given : BOOLEAN])
        /\ Len(history) \in Nat /\ Len(history') = Len(history) + 1
        /\ DOMAIN history' = 1..(Len(history) + 1)
        /\ \A i \in 1..Len(history) : history'[i] = history[i]
        /\ history'[Len(history) + 1] = e
    BY DEF RequestsInv, AuthorityTypeOK
  <1>2. ASSUME NEW s, NEW n \in 0..Len(history)
        PROVE  Stands(history', s, n) <=> Stands(history, s, n)
    <2>1. n \in Nat /\ n <= Len(history)
      BY <1>1, <1>2
    <2>2. Stands(Append(history, e), s, n) <=> Stands(history, s, n)
      BY <1>1, <2>1, StandsKept, Zenon
    <2>. QED  BY <2>2
  <1>3. ASSUME NEW s
        PROVE  Stands(history', s, Len(history')) <=>
                 IF e.subject = s THEN e.given ELSE Stands(history, s, Len(history))
    <2>1. Stands(Append(history, e), s, Len(history) + 1) <=>
            IF e.subject = s THEN e.given ELSE Stands(history, s, Len(history))
      BY <1>1, StandsLast, Zenon
    <2>. QED  BY <1>1, <2>1, Zenon
  <1>4. ASSUME NEW i \in DOMAIN history'
        PROVE  history'[i].given <=> ~Stands(history', history'[i].subject, i - 1)
    <2>1. CASE i \in 1..Len(history)
      <3>1. history[i].given <=> ~Stands(history, history[i].subject, i - 1)
        BY <1>1, <2>1 DEF DecisionsChange
      <3>2. i - 1 \in 0..Len(history)
        BY <1>1, <2>1
      <3>. QED  BY <1>1, <1>2, <2>1, <3>1, <3>2
    <2>2. CASE i = Len(history) + 1
      <3>1. i - 1 = Len(history) /\ Len(history) \in 0..Len(history)
        BY <1>1, <2>2
      <3>. QED  BY <1>1, <1>2, <2>2, <3>1
    <2>. QED  BY <1>1, <1>4, <2>1, <2>2
  <1>5. enabled' <=> Stands(history', "policy", Len(history'))
    BY <1>3 DEF DecisionsChange
  <1>6. grants' = {c \in Capabilities : Stands(history', c, Len(history'))}
    BY <1>3 DEF DecisionsChange
  <1>. QED  BY <1>4, <1>5, <1>6 DEF DecisionsChange

LEMMA DecisionsInit == AuthorityInit => DecisionsChange
  <1>. SUFFICES ASSUME AuthorityInit PROVE DecisionsChange
    OBVIOUS
  <1>1. history = << >> /\ Len(history) = 0 /\ enabled /\ grants = {}
    BY DEF AuthorityInit
  <1>2. \A s : Stands(history, s, 0) <=> s = "policy"
    BY DEF Stands, DecisionsOn
  <1>. QED  BY <1>1, <1>2, AuthorityAssumption DEF DecisionsChange

LEMMA DecisionsStep ==
    RequestsInv /\ DecisionsChange /\ [AuthorityNext]_authorityVars => DecisionsChange'
  <1>. SUFFICES ASSUME RequestsInv, DecisionsChange, [AuthorityNext]_authorityVars
                PROVE  DecisionsChange'
    OBVIOUS
  <1>0. AuthorityTypeOK /\ \A o \in Deciders : RequestInv(o) /\ decider[o] \in RequestStates
    BY DEF RequestsInv, AuthorityTypeOK
  <1>1. CASE UNCHANGED <<enabled, grants, history>>
    BY <1>1 DEF DecisionsChange
  <1>2. ASSUME NEW o \in Deciders, Updates(o), decider[o].fresh PROVE DecisionsChange'
    <2>. DEFINE e == [subject |-> decider[o].subject, given |-> decider[o].grant]
    <2>1. /\ Decided(o, IF decider[o].grant THEN {} ELSE Copies)
          /\ enabled' = decider[o].grant /\ grants' = grants
      BY <1>2 DEF Updates
    <2>2. e \in [subject : Subjects, given : BOOLEAN] /\ history' = Append(history, e)
      BY <1>0, <2>1, DecidedTypes
    <2>3. e.subject = "policy" /\ (enabled <=> ~e.given)
      BY <1>0, <1>2 DEF RequestInv, Updates
    <2>4. enabled' <=> e.given
      BY <2>1
    <2>. HIDE DEF e
    <2>5. e.given <=> ~Stands(history, e.subject, Len(history))
      BY <2>2, <2>3 DEF DecisionsChange
    <2>6. grants' = {c \in Capabilities : IF e.subject = c THEN e.given ELSE c \in grants}
      BY <1>0, <2>1, <2>3, AuthorityAssumption DEF AuthorityTypeOK
    <2>. QED  BY <2>2, <2>4, <2>3, <2>5, <2>6, DecisionAppended
  <1>3. ASSUME NEW o \in Deciders, Grants(o),
               (decider[o].subject \in grants) # decider[o].grant
        PROVE  DecisionsChange'
    <2>. DEFINE e == [subject |-> decider[o].subject, given |-> decider[o].grant]
    <2>1. /\ Decided(o, Copies) /\ enabled' = enabled
          /\ grants' = IF e.given THEN grants \cup {e.subject} ELSE grants \ {e.subject}
      BY <1>3 DEF Grants
    <2>2. e \in [subject : Subjects, given : BOOLEAN] /\ history' = Append(history, e)
      BY <1>0, <2>1, DecidedTypes
    <2>3. e.subject \in Capabilities /\ e.subject # "policy" /\ (e.subject \in grants <=> ~e.given)
      BY <1>0, <1>3, AuthorityAssumption DEF RequestInv, Grants, RequestStates
    <2>. HIDE DEF e
    <2>5. e.given <=> ~Stands(history, e.subject, Len(history))
      BY <2>2, <2>3 DEF DecisionsChange
    <2>6. grants' = {c \in Capabilities : IF e.subject = c THEN e.given ELSE c \in grants}
      BY <1>0, <2>1, <2>3 DEF AuthorityTypeOK
    <2>. QED  BY <2>1, <2>3, <2>2, <2>5, <2>6, DecisionAppended
  <1>. QED  BY <1>1, <1>3, <1>2, StepLeaves

--------------------------------------------------------------------------------
(* The scans.                                                              *)

LEMMA ScansStep ==
    AuthorityTypeOK /\ ScanInv /\ [AuthorityNext]_authorityVars => ScanInv'
  <1>. SUFFICES ASSUME AuthorityTypeOK, ScanInv, [AuthorityNext]_authorityVars
                PROVE  ScanInv'
    OBVIOUS
  <1>0. UNCHANGED <<scan, known, declared>> => ScanInv'
    BY DEF ScanInv, KnownIsDeclared
  <1>1. ASSUME NEW m \in Manifests \cup {NoManifest}, ReadsFile(m) PROVE ScanInv'
    <2>1. CASE m.there /\ Joined(m)
      BY <1>1, <2>1 DEF ScanInv, KnownIsDeclared, ReadsFile, registry
    <2>2. CASE ~(m.there /\ Joined(m))
      <3>1. Joined(NoManifest) /\ ~NoManifest.there
        BY SurfaceTypes DEF NoManifest
      <3>. QED  BY <1>1, <2>2, <3>1 DEF ScanInv, KnownIsDeclared, ReadsFile, registry
    <2>. QED  BY <2>1, <2>2
  <1>2. CASE Declares
    <2>1. Joined(NoManifest) /\ ~NoManifest.there
      BY SurfaceTypes DEF NoManifest
    <2>2. CASE scan' = [scan EXCEPT !.at = "read"] /\ declared' = scan.found /\ known' = known
      <3>1. scan'.at = "read" /\ scan'.found = scan.found
        BY <2>2 DEF AuthorityTypeOK
      <3>. QED  BY <2>2, <3>1 DEF ScanInv, KnownIsDeclared
    <2>3. CASE scan' = [at |-> "read", found |-> NoManifest] /\ known' = known
      BY <2>1, <2>3 DEF ScanInv, KnownIsDeclared
    <2>. QED  BY <1>2, <2>2, <2>3 DEF Declares
  <1>3. CASE Replaces
    <2>1. Joined(NoManifest)
      BY SurfaceTypes
    <2>. QED  BY <1>3, <2>1 DEF ScanInv, KnownIsDeclared, Replaces, registry
  <1>4. CASE CoreDies
    <2>1. Joined(NoManifest) /\ ~NoManifest.there
      BY SurfaceTypes DEF NoManifest
    <2>. QED  BY <1>4, <2>1 DEF ScanInv, KnownIsDeclared, CoreDies, registry
  <1>5. ASSUME NEW o \in Deciders, Operates(o) PROVE ScanInv'
    BY <1>0, <1>5
    DEF Operates, Asks, Selects, Updates, Grants, Answers, Looks, discoveryVars, registry
  <1>6. ASSUME NEW u \in Copies, Registers(u) PROVE ScanInv'
    BY <1>0, <1>6
    DEF Registers, Launches, LifeEnds, ReadsPolicy, ReadsGrants, Weighs, Admits, ByCopy,
        discoveryVars
  <1>7. CASE UNCHANGED authorityVars
    BY <1>0, <1>7 DEF authorityVars, discoveryVars, registry
  <1>. QED  BY <1>2, <1>1, <1>3, <1>4, <1>5, <1>6, <1>7 DEF AuthorityNext, Scans

LEMMA ScansInit == AuthorityInit => ScanInv
  BY SurfaceTypes DEF AuthorityInit, ScanInv, KnownIsDeclared, NoManifest

--------------------------------------------------------------------------------
(* The copies.                                                             *)

LEMMA CopiesInit == AuthorityInit => \A u \in Copies : CopyInv(u)
  <1>. SUFFICES ASSUME AuthorityInit, NEW u \in Copies PROVE CopyInv(u)
    OBVIOUS
  <1>1. copy[u] = NoLife
    BY DEF AuthorityInit
  <1>. QED  BY <1>1, BlankTypes, SurfaceTypes DEF CopyInv, HasRead

(* What is neither to be told nor was is so for a later request too, where *)
(* those on their way keep the copies they have left.                      *)
LEMMA ToldKept ==
    ASSUME AuthorityTypeOK, NEW u \in Copies, NEW i \in 1..MaxDecisions, ToBeTold(u, i),
           copy'[u].life = copy[u].life, told[i] \subseteq told'[i],
           \A o \in Deciders :
              decider[o].decision = i /\ u \in decider[o].left =>
                 decider'[o].decision = i /\ u \in decider'[o].left
    PROVE  ToBeTold(u, i)'
  BY DEF ToBeTold

(* A step that decides nothing and leaves a copy what it read.             *)
LEMMA CopyKept ==
    ASSUME AuthorityTypeOK, NEW u \in Copies, CopyInv(u), UNCHANGED history,
           copy'[u].read.grants = copy[u].read.grants,
           copy'[u].read.asOf = copy[u].read.asOf,
           Joined(copy'[u].read.of),
           HasRead(u)' => HasRead(u),
           HasRead(u)' => \A i \in 1..Len(history) :
                ToBeTold(u, i) /\ history[i].subject # "policy" => ToBeTold(u, i)'
    PROVE  CopyInv(u)'
  <1>1. /\ copy[u].read.asOf \in Nat /\ Len(history) \in Nat
        /\ Joined(copy[u].read.of)'
    BY AuthorityAssumption DEF AuthorityTypeOK, CopyStates, Joined
  <1>2. CASE HasRead(u)'
    <2>1. HasRead(u)
      BY <1>2
    <2>2. /\ copy[u].read.asOf <= Len(history)
          /\ copy[u].read.grants =
               {c \in Capabilities : Stands(history, c, copy[u].read.asOf)}
          /\ \A i \in (copy[u].read.asOf + 1)..Len(history) :
               history[i].subject # "policy" => ToBeTold(u, i)
      BY <2>1 DEF CopyInv
    <2>3. \A i \in (copy[u].read.asOf + 1)..Len(history) : i \in 1..Len(history)
      BY <1>1
    <2>4. \A i \in (copy[u].read.asOf + 1)..Len(history) :
            history[i].subject # "policy" => ToBeTold(u, i)'
      BY <1>2, <2>2, <2>3
    <2>. QED  BY <1>1, <2>2, <2>4 DEF CopyInv
  <1>3. CASE ~HasRead(u)'
    BY <1>1, <1>3 DEF CopyInv
  <1>. QED  BY <1>2, <1>3

(* The same, of a copy the step is not of.                                 *)
LEMMA CopyAside ==
    ASSUME RequestsInv, NEW u \in Copies, CopyInv(u), UNCHANGED history,
           copy'[u] = copy[u],
           \A i \in 1..MaxDecisions : told[i] \subseteq told'[i],
           \A o \in Deciders :
              decider[o].decision # 0 /\ u \in decider[o].left =>
                 decider'[o].decision = decider[o].decision /\ u \in decider'[o].left
    PROVE  CopyInv(u)'
  <1>1. AuthorityTypeOK
    BY DEF RequestsInv
  <1>2. \A i \in 1..Len(history) : i \in 1..MaxDecisions /\ i # 0
    BY <1>1, AuthorityAssumption DEF AuthorityTypeOK
  <1>3. \A i \in 1..Len(history) : ToBeTold(u, i) => ToBeTold(u, i)'
    BY <1>1, <1>2, ToldKept
  <1>4. Joined(copy'[u].read.of) /\ (HasRead(u)' => HasRead(u))
    BY DEF CopyInv, HasRead
  <1>. QED  BY <1>1, <1>3, <1>4, CopyKept

(* A decision: a copy that has read is among those it has to tell.         *)
LEMMA CopyDecided ==
    ASSUME RequestsInv, NEW u \in Copies, CopyInv(u), NEW o \in Deciders,
           NEW left \in SUBSET Copies, Decided(o, left),
           decider[o].decision = 0, decider[o].subject # "policy" => left = Copies,
           UNCHANGED <<told, copy>>
    PROVE  CopyInv(u)'
  <1>1. AuthorityTypeOK
    BY DEF RequestsInv
  <1>. DEFINE e == [subject |-> decider[o].subject, given |-> decider[o].grant]
              r == copy[u].read
  <1>2. /\ e \in [subject : Subjects, given : BOOLEAN]
        /\ history \in Seq([subject : Subjects, given : BOOLEAN])
        /\ history' = Append(history, e)
        /\ Len(history') = Len(history) + 1 /\ Len(history') <= MaxDecisions
        /\ Len(history) \in Nat
        /\ decider'[o].decision = Len(history) + 1 /\ decider'[o].left = left
        /\ \A p \in Deciders \ {o} : Keeps(p)
    BY <1>1, DecidedTypes DEF AuthorityTypeOK
  <1>3. e.subject = decider[o].subject
    OBVIOUS
  <1>. HIDE DEF e
  <1>4. /\ r.asOf \in Nat
        /\ \A i \in 1..Len(history) : history'[i] = history[i]
        /\ history'[Len(history) + 1] = e
    BY <1>1, <1>2 DEF AuthorityTypeOK, CopyStates
  <1>5. CASE HasRead(u)
    <2>1. /\ r.asOf <= Len(history)
          /\ r.grants = {c \in Capabilities : Stands(history, c, r.asOf)}
          /\ \A i \in (r.asOf + 1)..Len(history) :
               history[i].subject # "policy" => ToBeTold(u, i)
      BY <1>5 DEF CopyInv
    <2>2. ASSUME NEW c
          PROVE  Stands(Append(history, e), c, r.asOf) <=> Stands(history, c, r.asOf)
      <3>. DEFINE n == r.asOf
      <3>1. n \in Nat /\ n <= Len(history)
        BY <1>4, <2>1
      <3>. HIDE DEF n
      <3>2. Stands(Append(history, e), c, n) <=> Stands(history, c, n)
        BY <1>2, <3>1, StandsKept, Zenon
      <3>. QED  BY <3>2 DEF n
    <2>3. r.grants = {c \in Capabilities : Stands(history', c, r.asOf)}
      BY <1>2, <2>1, <2>2
    <2>4. ASSUME NEW i \in (r.asOf + 1)..Len(history'), history'[i].subject # "policy"
          PROVE  ToBeTold(u, i)'
      <3>1. CASE i = Len(history) + 1
        <4>1. decider[o].subject # "policy"
          BY <1>2, <1>3, <1>4, <2>4, <3>1
        <4>2. u \in decider'[o].left /\ decider'[o].decision = i
          BY <1>2, <3>1, <4>1
        <4>. QED  BY <4>2 DEF ToBeTold
      <3>2. CASE i # Len(history) + 1
        <4>1. /\ i \in (r.asOf + 1)..Len(history) /\ i \in 1..MaxDecisions
              /\ i \in 1..Len(history) /\ i # 0
          BY <1>2, <1>4, <2>1, <2>4, <3>2, AuthorityAssumption
        <4>2. ToBeTold(u, i)
          BY <1>4, <2>1, <2>4, <4>1
        <4>3. \A p \in Deciders :
                decider[p].decision = i /\ u \in decider[p].left =>
                   decider'[p].decision = i /\ u \in decider'[p].left
          BY <1>2, <4>1 DEF Keeps
        <4>. QED  BY <1>1, <4>1, <4>2, <4>3, ToldKept
      <3>. QED  BY <3>1, <3>2
    <2>5. Joined(r.of)' /\ r.asOf <= Len(history')
      BY <1>2, <1>4, <2>1 DEF CopyInv, Joined
    <2>. QED  BY <2>3, <2>4, <2>5 DEF CopyInv
  <1>6. CASE ~HasRead(u)
    <2>1. ~HasRead(u)' /\ Joined(copy[u].read.of)'
      BY <1>6 DEF HasRead, CopyInv, Joined
    <2>. QED  BY <2>1 DEF CopyInv
  <1>. QED  BY <1>5, <1>6

(* One that has read nothing.                                              *)
LEMMA CopyIdle ==
    ASSUME NEW u \in Copies, ~HasRead(u)', Joined(copy'[u].read.of)
    PROVE  CopyInv(u)'
  BY DEF CopyInv, Joined

(* Each copy is looked at: one that has read is alive, and told.           *)
LEMMA CopyLookedAt ==
    ASSUME RequestsInv, NEW u \in Copies, CopyInv(u),
           NEW o \in Deciders, NEW v \in Copies, Looks(o, v)
    PROVE  CopyInv(u)'
  <1>1. /\ AuthorityTypeOK /\ RequestInv(o)
        /\ copy \in [Copies -> CopyStates] /\ decider[o] \in RequestStates
        /\ UNCHANGED history
    BY DEF RequestsInv, AuthorityTypeOK, Looks, registry
  <1>2. /\ decider'[o].decision = decider[o].decision
        /\ decider'[o].left = decider[o].left \ {v}
        /\ \A p \in Deciders \ {o} : decider'[p] = decider[p]
    BY <1>1 DEF AuthorityTypeOK, RequestStates, Looks
  <1>3. CASE decider[o].subject = "policy" /\ copy'[u] = copy[u]
    <2>1. UNCHANGED told
      BY <1>3 DEF Looks
    <2>2. ASSUME NEW i \in 1..Len(history), ToBeTold(u, i), history[i].subject # "policy"
          PROVE  ToBeTold(u, i)'
      <3>1. i \in 1..MaxDecisions /\ i # 0
        BY <1>1, AuthorityAssumption DEF AuthorityTypeOK
      <3>2. decider[o].decision # i
        BY <1>1, <1>3, <2>2, <3>1 DEF RequestInv
      <3>3. \A p \in Deciders : decider[p].decision = i /\ u \in decider[p].left =>
                                  decider'[p].decision = i /\ u \in decider'[p].left
        BY <1>2, <3>2
      <3>. QED  BY <1>1, <1>3, <2>1, <2>2, <3>1, <3>3, ToldKept
    <2>3. Joined(copy'[u].read.of) /\ (HasRead(u)' => HasRead(u))
      BY <1>3 DEF CopyInv, HasRead
    <2>. QED  BY <1>1, <1>3, <2>2, <2>3, CopyKept
  <1>4. CASE decider[o].subject # "policy"
    <2>1. TellsOf(o, v) /\ UNCHANGED copy
      BY <1>4 DEF Looks
    <2>2. \A i \in 1..MaxDecisions : told[i] \subseteq told'[i]
      BY <1>1, <2>1 DEF TellsOf, AuthorityTypeOK
    <2>3. ASSUME NEW i \in 1..Len(history), ToBeTold(u, i), HasRead(u)
          PROVE  ToBeTold(u, i)'
      <3>1. i \in 1..MaxDecisions /\ i # 0
        BY <1>1, AuthorityAssumption DEF AuthorityTypeOK
      <3>2. CASE decider[o].decision = i /\ u = v
        <4>1. Living(u)
          BY <2>3 DEF RequestsInv, LivesInv, HasRead, Living
        <4>2. <<u, copy[u].life>> \in told'[i]
          BY <1>1, <2>1, <3>1, <3>2, <4>1 DEF TellsOf, AuthorityTypeOK
        <4>. QED  BY <2>1, <4>2 DEF ToBeTold
      <3>3. CASE ~(decider[o].decision = i /\ u = v)
        <4>1. \A p \in Deciders : decider[p].decision = i /\ u \in decider[p].left =>
                                    decider'[p].decision = i /\ u \in decider'[p].left
          BY <1>2, <3>3
        <4>. QED  BY <1>1, <2>1, <2>2, <2>3, <3>1, <4>1, ToldKept
      <3>. QED  BY <3>2, <3>3
    <2>4. Joined(copy'[u].read.of) /\ (HasRead(u)' => HasRead(u))
      BY <2>1 DEF CopyInv, HasRead
    <2>. QED  BY <1>1, <2>1, <2>3, <2>4, CopyKept
  <1>5. CASE copy'[u] # copy[u]
    <2>1. u = v /\ copy' = Over(u)
      BY <1>1, <1>5, OverTypes DEF Looks
    <2>2. copy'[u].at = "out" /\ copy'[u].state = "over" /\ copy'[u].read.of = NoManifest
      BY <1>1, <2>1, OverTypes
    <2>. QED  BY <2>2, SurfaceTypes, CopyIdle DEF HasRead
  <1>. QED  BY <1>3, <1>4, <1>5 DEF Looks


(* A step of its own registration.                                         *)
LEMMA CopyRegisters ==
    ASSUME RequestsInv, DecisionsChange, ScanInv, NEW u \in Copies, CopyInv(u), Registers(u)
    PROVE  CopyInv(u)'
  <1>1. /\ AuthorityTypeOK /\ LivesInv
        /\ copy \in [Copies -> CopyStates] /\ copy[u] \in CopyStates
        /\ UNCHANGED <<history, told, known>>
    BY DEF RequestsInv, AuthorityTypeOK, Registers, Launches, LifeEnds, ReadsPolicy,
           ReadsGrants, Weighs, Admits, ByCopy, discoveryVars
  <1>2. CASE copy' = Over(u)
    <2>1. copy'[u].at = "out" /\ copy'[u].state = "over" /\ copy'[u].read.of = NoManifest
      BY <1>1, <1>2, OverTypes
    <2>. QED  BY <2>1, SurfaceTypes, CopyIdle DEF HasRead
  <1>3. CASE Launches(u)
    <2>1. copy'[u].at = "out" /\ copy'[u].state = "starting" /\ copy'[u].read.of = NoManifest
      BY <1>1, <1>3, BlankTypes DEF Launches, NoLife
    <2>. QED  BY <2>1, SurfaceTypes, CopyIdle DEF HasRead
  <1>4. CASE ReadsPolicy(u)
    <2>1. /\ copy'[u].at = "grants" /\ copy'[u].state = "starting"
          /\ copy'[u].read = copy[u].read
      BY <1>1, <1>4 DEF ReadsPolicy, CopyGoes, CopyStates
    <2>. QED  BY <2>1, CopyIdle DEF HasRead, CopyInv
  <1>5. CASE ReadsGrants(u)
    <2>1. /\ copy'[u].read.grants = grants /\ copy'[u].read.asOf = Len(history)
          /\ copy'[u].read.of = copy[u].read.of
      <3>. DEFINE q == [copy[u].read EXCEPT !.grants = grants, !.asOf = Len(history)]
                  l == [copy[u] EXCEPT !.at = "weighing", !.read = q]
      <3>1. copy' = [copy EXCEPT ![u] = l]
        BY <1>1, <1>5 DEF ReadsGrants
      <3>2. q.grants = grants /\ q.asOf = Len(history) /\ q.of = copy[u].read.of
        BY <1>1 DEF CopyStates
      <3>. HIDE DEF q
      <3>3. l.read = q
        BY <1>1 DEF CopyStates
      <3>. QED  BY <1>1, <3>1, <3>2, <3>3
    <2>2. Len(history) \in Nat /\ (Len(history) + 1)..Len(history) = {}
      BY <1>1 DEF AuthorityTypeOK
    <2>3. /\ copy'[u].read.asOf <= Len(history')
          /\ copy'[u].read.grants = {c \in Capabilities : Stands(history', c, copy'[u].read.asOf)}
          /\ (copy'[u].read.asOf + 1)..Len(history') = {}
      BY <1>1, <2>1, <2>2 DEF DecisionsChange
    <2>4. Joined(copy'[u].read.of)
      BY <2>1 DEF CopyInv
    <2>. QED  BY <2>3, <2>4 DEF CopyInv, Joined
  <1>6. CASE copy' = [copy EXCEPT ![u] = [@ EXCEPT !.at = "admitting", !.read.of = known]] /\ Weighs(u)
    <2>. DEFINE q == [copy[u].read EXCEPT !.of = known]
                l == [copy[u] EXCEPT !.at = "admitting", !.read = q]
    <2>1. copy' = [copy EXCEPT ![u] = l]
      BY <1>1, <1>6
    <2>2. q.grants = copy[u].read.grants /\ q.asOf = copy[u].read.asOf /\ q.of = known
      BY <1>1 DEF CopyStates
    <2>. HIDE DEF q
    <2>3. l.read = q /\ l.life = copy[u].life
      BY <1>1 DEF CopyStates
    <2>4. copy'[u].read = q /\ copy'[u].life = copy[u].life
      BY <1>1, <2>1, <2>3
    <2>5. HasRead(u)
      BY <1>6 DEF Weighs, HasRead
    <2>6. Joined(copy'[u].read.of)
      BY <2>2, <2>4 DEF ScanInv
    <2>7. \A i \in 1..Len(history) : ToBeTold(u, i) => ToBeTold(u, i)'
      BY <1>1, <1>6, <2>4 DEF ToBeTold, Weighs, ByCopy
    <2>. QED  BY <1>1, <2>2, <2>4, <2>5, <2>6, <2>7, CopyKept
  <1>7. CASE /\ copy' = [copy EXCEPT ![u] = [@ EXCEPT !.at = "out", !.state = "running",
                                                      !.built = Surface(NoManifest)]]
             /\ Admits(u)
    <2>1. copy'[u].read = copy[u].read /\ copy'[u].life = copy[u].life
      BY <1>1, <1>7 DEF CopyStates
    <2>2. HasRead(u)
      BY <1>7 DEF Admits, HasRead
    <2>3. Joined(copy'[u].read.of)
      BY <2>1 DEF CopyInv
    <2>4. \A o \in Deciders :
             decider'[o].decision = decider[o].decision /\ decider'[o].left = decider[o].left
      <3>1. decider \in [Deciders -> RequestStates]
        BY <1>1 DEF AuthorityTypeOK
      <3>2. decider' = decider \/ decider' = Wrote(decider)
        BY <1>7 DEF Admits
      <3>. QED  BY <3>1, <3>2, WroteTypes
    <2>5. \A i \in 1..Len(history) : ToBeTold(u, i) => ToBeTold(u, i)'
      BY <1>1, <2>1, <2>4 DEF ToBeTold
    <2>. QED  BY <1>1, <2>1, <2>2, <2>3, <2>5, CopyKept
  <1>. QED  BY <1>2, <1>4, <1>3, <1>5, <1>6, <1>7 DEF Registers, LifeEnds, Weighs, Admits

LEMMA CopiesStep ==
    ASSUME RequestsInv, DecisionsChange, ScanInv, [AuthorityNext]_authorityVars,
           NEW u \in Copies, CopyInv(u)
    PROVE  CopyInv(u)'
  <1>0. /\ AuthorityTypeOK /\ decider \in [Deciders -> RequestStates]
        /\ copy \in [Copies -> CopyStates]
        /\ \A o \in Deciders : RequestInv(o)
    BY DEF RequestsInv, AuthorityTypeOK
  <1>1. ASSUME UNCHANGED <<history, told>>, copy'[u] = copy[u],
               decider' = decider \/ decider' = Wrote(decider)
        PROVE  CopyInv(u)'
    <2>1. \A o \in Deciders :
             decider'[o].decision = decider[o].decision /\ decider'[o].left = decider[o].left
      BY <1>0, <1>1, WroteTypes
    <2>. QED  BY <1>1, <2>1, CopyAside
  <1>2. CASE Scans
    BY <1>1, <1>2 DEF Scans, ReadsFile, Declares, Replaces, registry
  <1>3. CASE CoreDies
    <2>1. copy'[u].at = "out" /\ copy'[u].state = "none" /\ copy'[u].read.of = NoManifest
      BY <1>3, BlankTypes DEF CoreDies, NoLife
    <2>. QED  BY <2>1, SurfaceTypes, CopyIdle DEF HasRead
  <1>4. ASSUME NEW o \in Deciders, Operates(o) PROVE CopyInv(u)'
    <2>1. ASSUME UNCHANGED <<history, told, copy>>,
                 \A p \in Deciders \ {o} : decider'[p] = decider[p],
                 decider[o].decision = 0 \/ decider[o].left = {}
          PROVE  CopyInv(u)'
      BY <2>1, CopyAside
    <2>2. ASSUME NEW s \in Subjects, NEW grant \in BOOLEAN, Asks(o, s, grant)
          PROVE  CopyInv(u)'
      <3>1. decider[o].decision = 0
        BY <1>0, <2>2 DEF Asks, RequestInv
      <3>. QED  BY <1>0, <2>1, <2>2, <3>1 DEF Asks, registry
    <2>3. CASE Selects(o)
      <3>1. decider[o].decision = 0
        BY <1>0, <2>3 DEF Selects, RequestInv
      <3>. QED  BY <1>0, <2>1, <2>3, <3>1 DEF Selects, registry
    <2>4. CASE Updates(o)
      <3>1. decider[o].decision = 0 /\ decider[o].subject = "policy"
        BY <1>0, <2>4 DEF Updates, RequestInv
      <3>2. CASE decider[o].fresh
        <4>1. /\ Decided(o, IF decider[o].grant THEN {} ELSE Copies)
              /\ UNCHANGED <<told, copy>>
          BY <2>4, <3>2 DEF Updates
        <4>. QED  BY <3>1, <4>1, CopyDecided
      <3>3. CASE ~decider[o].fresh
        BY <1>0, <2>1, <2>4, <3>1, <3>3 DEF Updates
      <3>. QED  BY <3>2, <3>3
    <2>5. CASE Grants(o)
      <3>1. decider[o].decision = 0
        BY <1>0, <2>5 DEF Grants, RequestInv
      <3>2. CASE (decider[o].subject \in grants) = decider[o].grant
        BY <1>0, <2>1, <2>5, <3>1, <3>2 DEF Grants
      <3>3. CASE (decider[o].subject \in grants) # decider[o].grant
        <4>1. Decided(o, Copies) /\ UNCHANGED <<told, copy>>
          BY <2>5, <3>3 DEF Grants
        <4>. QED  BY <3>1, <4>1, CopyDecided
      <3>. QED  BY <3>2, <3>3
    <2>6. CASE Answers(o)
      BY <1>0, <2>1, <2>6 DEF Answers, registry
    <2>7. ASSUME NEW v \in Copies, Looks(o, v) PROVE CopyInv(u)'
      BY <2>7, CopyLookedAt
    <2>. QED  BY <1>4, <2>2, <2>4, <2>3, <2>5, <2>6, <2>7 DEF Operates
  <1>5. ASSUME NEW v \in Copies, Registers(v) PROVE CopyInv(u)'
    <2>1. CASE v = u
      BY <1>5, <2>1, CopyRegisters
    <2>2. CASE v # u
      <3>1. UNCHANGED <<history, told>> /\ (decider' = decider \/ decider' = Wrote(decider))
        BY <1>5 DEF Registers, Launches, LifeEnds, ReadsPolicy, ReadsGrants, Weighs,
                    Admits, ByCopy
      <3>2. copy'[u] = copy[u]
        BY <1>0, <1>5, <2>2 DEF Registers, Launches, LifeEnds, ReadsPolicy, ReadsGrants,
                                Weighs, Admits, CopyGoes, Over
      <3>. QED  BY <1>1, <3>1, <3>2
    <2>. QED  BY <2>1, <2>2
  <1>6. CASE UNCHANGED authorityVars
    BY <1>1, <1>6 DEF authorityVars, registry
  <1>. QED  BY <1>2, <1>4, <1>3, <1>5, <1>6 DEF AuthorityNext

--------------------------------------------------------------------------------
(* The theorems.                                                           *)

LEMMA CopiesInvariant == AuthoritySpec => []CopiesInv
  <1>1. AuthorityInit => CopiesInv
    BY RequestsInit, DecisionsInit, ScansInit, CopiesInit DEF CopiesInv, DecisionsInv
  <1>2. CopiesInv /\ [AuthorityNext]_authorityVars => CopiesInv'
    <2>. SUFFICES ASSUME CopiesInv, [AuthorityNext]_authorityVars PROVE CopiesInv'
      OBVIOUS
    <2>1. /\ RequestsInv /\ DecisionsChange /\ ScanInv /\ AuthorityTypeOK
          /\ \A u \in Copies : CopyInv(u)
      BY DEF CopiesInv, DecisionsInv, RequestsInv
    <2>2. RequestsInv' /\ DecisionsChange' /\ ScanInv'
      BY <2>1, RequestsStep, DecisionsStep, ScansStep
    <2>3. \A u \in Copies : CopyInv(u)'
      BY <2>1, CopiesStep
    <2>. QED  BY <2>2, <2>3 DEF CopiesInv, DecisionsInv
  <1>. QED  BY <1>1, <1>2, PTL DEF AuthoritySpec

(* What is kept and what is in hand has its type: every decision is one of *)
(* the plugin's policy or of a capability, and every copy's registration   *)
(* is of one life (registry.go, operations.go, admission.go).              *)
THEOREM AuthorityTypeCorrect == AuthoritySpec => []AuthorityTypeOK
  <1>1. CopiesInv => AuthorityTypeOK
    BY DEF CopiesInv, DecisionsInv, RequestsInv
  <1>. QED  BY <1>1, CopiesInvariant, PTL

(* Every decision the Registry keeps changed what those before it left,    *)
(* what they leave together is the policy and the grants in force, and     *)
(* once no scan is under way what a registration is weighed against is     *)
(* what was declared (setEnabled, Grant, Withdraw, Declare, Scan).         *)
THEOREM RegistryIsKept == AuthoritySpec => []RegistryKeeps
  <1>1. CopiesInv => RegistryKeeps
    BY DEF CopiesInv, DecisionsInv, ScanInv, RegistryKeeps
  <1>. QED  BY <1>1, CopiesInvariant, PTL

(* A running copy has the scope that stood when it read its grants, is     *)
(* told of every decision since about what its Manifest declares, or has   *)
(* still to be, and has nothing withheld where all of it is granted        *)
(* (grant, intersect, manifestJoins).                                      *)
THEOREM ScopesAreAccounted == AuthoritySpec => []ScopeIsAccounted
  <1>1. CopiesInv => ScopeIsAccounted
    <2>. SUFFICES ASSUME CopiesInv, NEW u \in Copies, copy[u].state = "running"
                  PROVE  LET r == copy[u].read
                             of == Surface(r.of).names IN
                         /\ \A i \in (r.asOf + 1)..Len(history) :
                              history[i].subject \in of => ToBeTold(u, i)
                         /\ \A c \in of : c \in r.grants <=> Stands(history, c, r.asOf)
                         /\ of \subseteq r.grants => Withheld(r) = {}
      BY DEF ScopeIsAccounted
    <2>. DEFINE r == copy[u].read
                of == Surface(r.of).names
    <2>1. /\ r.grants = {c \in Capabilities : Stands(history, c, r.asOf)}
          /\ \A i \in (r.asOf + 1)..Len(history) :
               history[i].subject # "policy" => ToBeTold(u, i)
          /\ Joined(r.of)
      BY DEF CopiesInv, CopyInv, HasRead
    <2>2. r.of \in Manifests \cup {NoManifest}
      BY DEF CopiesInv, DecisionsInv, RequestsInv, AuthorityTypeOK, CopyStates
    <2>3. of \subseteq Capabilities /\ "policy" \notin of
      BY <2>2, SurfaceTypes, AuthorityAssumption
    <2>4. of \subseteq r.grants => Withheld(r) = {}
      <3>1. of = {g[1] : g \in r.of.governs}
        BY DEF Surface
      <3>. QED  BY <2>1, <3>1 DEF Withheld, Governed, Joined
    <2>. QED  BY <2>1, <2>3, <2>4
  <1>. QED  BY <1>1, CopiesInvariant, PTL

--------------------------------------------------------------------------------
(* What one gate passed, the next asks again.                              *)

(* The phases of a document that ask nothing of the host.                  *)
PassedItself(d, manifests) ==
    /\ Reading(d) = {} /\ Shape(d) = {} /\ Joins(d) = {}
    /\ CrossDocument(d, manifests) = {}

LEMMA CheckPassed ==
    ASSUME NEW d, NEW manifests, NEW moment, NEW host, Check(d, manifests, moment, host) = {}
    PROVE  PassedItself(d, manifests) /\ HostFacts(d, manifests, moment, host) = {}
BY DEF Check, Then, PassedItself

LEMMA CheckOfHost ==
    ASSUME NEW d, NEW manifests, PassedItself(d, manifests), NEW moment, NEW host
    PROVE  Check(d, manifests, moment, host) = HostFacts(d, manifests, moment, host)
BY DEF Check, Then, PassedItself

(* A gate asks of the host what it is told of it.                          *)
AskedAbout(host, what, code, found) ==
    found = code /\ what \in host.asked /\ Lacks(host, what, "")

(* What the gate finds of the host as a record is made, or at a start.     *)
LEMMA FoundOfHost ==
    ASSUME NEW d, NEW manifests, NEW moment \in {"creating", "starting"}, NEW host, NEW found
    PROVE  found \in HostFacts(d, manifests, moment, host) <=>
             \/ \E n \in DOMAIN d.units : found \in UnitFacts(d, n, manifests, moment, host)
             \/ moment = "starting" /\ \E n \in DOMAIN d.channels : found \in ChannelFacts(d, n, host)
             \/ /\ \E n \in DOMAIN d.units : d.units[n].image # "none"
                /\ d.kind \in {"descriptor", "composition"}
                /\ AskedAbout(host, "engine", "engine.unreachable", found)
             \/ /\ d.kind = "descriptor"
                /\ \/ AskedAbout(host, "arch", "arch.mismatch", found)
                   \/ AskedAbout(host, "core", "core.range", found)
                   \/ AskedAbout(host, "stamp", "data.range", found)
                   \/ moment = "starting" /\ AskedAbout(host, "pin", "descriptor.digest", found)
             \/ /\ d.kind \in {"descriptor", "composition"}
                /\ AskedAbout(host, "runtime", "runtime.dir.missing", found)
             \/ found \in Ceilings(d, manifests, host)
<1> DEFINE both == {"descriptor", "composition"}
           about(what, code, kinds) ==
             Where(what \in host.asked /\ d.kind \in kinds /\ Lacks(host, what, ""), code)
           ofUnits == UNION {UnitFacts(d, n, manifests, moment, host) : n \in DOMAIN d.units}
           ofChannels == UNION {IF moment = "starting" THEN ChannelFacts(d, n, host) ELSE {}
                                : n \in DOMAIN d.channels}
           ofEngine == IF \E n \in DOMAIN d.units : d.units[n].image # "none"
                       THEN about("engine", "engine.unreachable", both) ELSE {}
           ofPin == IF moment = "starting" THEN about("pin", "descriptor.digest", {"descriptor"}) ELSE {}
<1>1. HostFacts(d, manifests, moment, host) =
        ofUnits \cup ofChannels \cup ofEngine
          \cup about("arch", "arch.mismatch", {"descriptor"})
          \cup about("core", "core.range", {"descriptor"})
          \cup (about("runtime", "runtime.dir.missing", both)
                   \cup about("stamp", "data.range", {"descriptor"}))
          \cup ofPin \cup Ceilings(d, manifests, host)
  BY DEF HostFacts, Each
<1>2. found \in ofUnits <=> \E n \in DOMAIN d.units : found \in UnitFacts(d, n, manifests, moment, host)
  OBVIOUS
<1>3. found \in ofChannels <=>
        moment = "starting" /\ \E n \in DOMAIN d.channels : found \in ChannelFacts(d, n, host)
  OBVIOUS
<1>4. \A what, code, kinds : found \in about(what, code, kinds) <=>
         d.kind \in kinds /\ AskedAbout(host, what, code, found)
  BY DEF Where, AskedAbout
<1> HIDE DEF ofUnits, ofChannels, about
<1> QED BY <1>1, <1>3, <1>2, <1>4

LEMMA ComponentAgain ==
    ASSUME NEW d, NEW n, NEW h1, NEW h2, h2.lacks \subseteq h1.lacks, Component(d, n, h1) = {}
    PROVE  Component(d, n, h2) = {}
BY DEF Component, Lacks, Where

LEMMA NeedAgain ==
    ASSUME NEW d, NEW n, NEW need, NEW h1, NEW h2, h2.lacks \subseteq h1.lacks,
           NEW moment \in {"creating", "starting"}, NeedFacts(d, n, need, moment, h1) = {}
    PROVE  /\ NeedFacts(d, n, need, "starting", h2) \subseteq {"secret.missing"}
           /\ moment = "starting" => NeedFacts(d, n, need, "starting", h2) = {}
BY DEF NeedFacts, Lacks, Where

LEMMA UnitAgain ==
    ASSUME NEW d, NEW n, NEW manifests, NEW h1, NEW h2, h2.lacks \subseteq h1.lacks,
           NEW moment \in {"creating", "starting"}, UnitFacts(d, n, manifests, moment, h1) = {}
    PROVE  /\ UnitFacts(d, n, manifests, "starting", h2) \subseteq {"secret.missing"}
           /\ moment = "starting" => UnitFacts(d, n, manifests, "starting", h2) = {}
<1>1. Component(d, n, h1) = {} /\ Component(d, n, h2) = {}
  BY ComponentAgain DEF UnitFacts, Each
<1>2. \A need \in NeedsOf(d, n, manifests) : NeedFacts(d, n, need, moment, h1) = {}
  BY DEF UnitFacts, Each
<1>3. \A need \in NeedsOf(d, n, manifests) :
         /\ NeedFacts(d, n, need, "starting", h2) \subseteq {"secret.missing"}
         /\ moment = "starting" => NeedFacts(d, n, need, "starting", h2) = {}
  BY <1>2, NeedAgain
<1>4. ~(d.units[n].manifestDigest # "none" /\ Lacks(h2, "manifest", d.units[n].plugin))
  BY DEF UnitFacts, Where, Lacks
<1>5. \A c \in UnitFacts(d, n, manifests, "starting", h2) :
         \E need \in NeedsOf(d, n, manifests) : c \in NeedFacts(d, n, need, "starting", h2)
  BY <1>1, <1>4 DEF UnitFacts, Each, Where
<1> QED BY <1>3, <1>5

LEMMA ChannelAgain ==
    ASSUME NEW d, NEW n, NEW h1, NEW h2, h2.lacks \subseteq h1.lacks
    PROVE  /\ ChannelFacts(d, n, h2) \subseteq {"channel.tls.missing", "auth.unavailable"}
           /\ /\ ChannelFacts(d, n, h1) = {}
              /\ "authentication" \in h2.asked => "authentication" \in h1.asked
              => ChannelFacts(d, n, h2) = {}
BY DEF ChannelFacts, Lacks, Where

(* Of a host that lacks no more, a later gate finds nothing but what it     *)
(* alone asks.                                                             *)
LEMMA HostAgain ==
    ASSUME NEW d, NEW manifests, NEW h1, NEW h2, NEW moment \in {"creating", "starting"},
           h2.lacks \subseteq h1.lacks, h2.room = h1.room, h2.labels = h1.labels,
           \A what \in {"arch", "runtime", "stamp"} : what \in h2.asked => what \in h1.asked,
           moment = "starting" /\ "authentication" \in h2.asked => "authentication" \in h1.asked,
           ~("pin" \in h2.asked /\ Lacks(h2, "pin", "")),
           HostFacts(d, manifests, moment, h1) = {}, NEW found \in HostFacts(d, manifests, "starting", h2)
    PROVE  \/ found = "engine.unreachable" /\ "engine" \in h2.asked
           \/ found = "core.range" /\ "core" \in h2.asked /\ "core" \notin h1.asked
           \/ moment = "creating" /\ found \in {"secret.missing", "channel.tls.missing", "auth.unavailable"}
<1>1. \A c : c \notin HostFacts(d, manifests, moment, h1)
  OBVIOUS
<1>2. \A what, code, c : AskedAbout(h2, what, code, c) /\ what \in h1.asked => AskedAbout(h1, what, code, c)
  BY DEF AskedAbout, Lacks
<1>3. \A n \in DOMAIN d.units : UnitFacts(d, n, manifests, moment, h1) = {}
  BY <1>1, FoundOfHost
<1>4. \A n \in DOMAIN d.units :
         /\ UnitFacts(d, n, manifests, "starting", h2) \subseteq {"secret.missing"}
         /\ moment = "starting" => UnitFacts(d, n, manifests, "starting", h2) = {}
  BY <1>3, UnitAgain
<1>5. \A n \in DOMAIN d.channels :
         /\ ChannelFacts(d, n, h2) \subseteq {"channel.tls.missing", "auth.unavailable"}
         /\ moment = "starting" => ChannelFacts(d, n, h2) = {}
  <2>1. moment = "starting" => \A n \in DOMAIN d.channels : ChannelFacts(d, n, h1) = {}
    BY <1>1, FoundOfHost
  <2> QED BY <2>1, ChannelAgain
<1>6. found \notin Ceilings(d, manifests, h2)
  <2>1. found \notin Ceilings(d, manifests, h1)
    BY <1>1, FoundOfHost
  <2>2. Ceilings(d, manifests, h2) = Ceilings(d, manifests, h1)
    BY DEF Ceilings
  <2> QED BY <2>1, <2>2
<1>7. /\ ~(d.kind = "descriptor" /\ AskedAbout(h2, "arch", "arch.mismatch", found))
      /\ d.kind = "descriptor" /\ AskedAbout(h2, "core", "core.range", found) => "core" \notin h1.asked
      /\ ~(d.kind = "descriptor" /\ AskedAbout(h2, "stamp", "data.range", found))
      /\ ~(d.kind \in {"descriptor", "composition"}
             /\ AskedAbout(h2, "runtime", "runtime.dir.missing", found))
  <2>1. \A what \in {"arch", "runtime", "stamp"} : \A code :
           AskedAbout(h2, what, code, found) => AskedAbout(h1, what, code, found)
    BY <1>2 DEF AskedAbout
  <2>2. AskedAbout(h2, "core", "core.range", found) /\ "core" \in h1.asked =>
          AskedAbout(h1, "core", "core.range", found)
    BY <1>2
  <2> QED BY <1>1, <2>1, <2>2, FoundOfHost
<1>8. ~AskedAbout(h2, "pin", "descriptor.digest", found)
  BY DEF AskedAbout
<1>9. \/ \E n \in DOMAIN d.units : found \in UnitFacts(d, n, manifests, "starting", h2)
      \/ \E n \in DOMAIN d.channels : found \in ChannelFacts(d, n, h2)
      \/ AskedAbout(h2, "engine", "engine.unreachable", found)
      \/ AskedAbout(h2, "core", "core.range", found) /\ "core" \notin h1.asked
  BY <1>6, <1>7, <1>8, FoundOfHost
<1>10. AskedAbout(h2, "core", "core.range", found) => found = "core.range" /\ "core" \in h2.asked
  BY DEF AskedAbout
<1>11. AskedAbout(h2, "engine", "engine.unreachable", found) =>
         found = "engine.unreachable" /\ "engine" \in h2.asked
  BY DEF AskedAbout
<1> QED BY <1>4, <1>9, <1>5, <1>11, <1>10

(* After a start's gate, a later one finds only what that did not ask.     *)
LEMMA StartAgain ==
    ASSUME NEW d, NEW manifests, NEW h1, NEW h2,
           h2.lacks \subseteq h1.lacks, h2.room = h1.room, h2.labels = h1.labels,
           \A what \in {"arch", "runtime", "stamp"} : what \in h1.asked,
           "authentication" \in h1.asked, "pin" \notin h2.asked,
           HostFacts(d, manifests, "starting", h1) = {}, NEW found \in HostFacts(d, manifests, "starting", h2)
    PROVE  found = "engine.unreachable" \/ (found = "core.range" /\ "core" \notin h1.asked)
BY HostAgain

(* The values a gate took are taken again, as they were kept.              *)
LEMMA ValuesAgain ==
    ASSUME NEW d, OneDefault(d), NEW supplied, NEW h1, NEW h2, h2.lacks \subseteq h1.lacks,
           ValuesRefused(d, supplied, h1) = {}
    PROVE  ValuesRefused(d, Values(d, supplied, h1), h2) = {}
<1> DEFINE kept == Values(d, supplied, h1)
<1>1. /\ DOMAIN supplied \subseteq DOMAIN d.parameters
      /\ \A k \in DOMAIN d.parameters : Supplied(d, supplied, k) # {}
      /\ \A k \in DOMAIN d.parameters : Supplied(d, supplied, k) # {} => Taken(d, supplied, k, h1)
  BY DEF ValuesRefused, Where
<1>2. {k \in DOMAIN d.parameters : Taken(d, supplied, k, h1)} = DOMAIN d.parameters
  BY <1>1
<1>3. /\ DOMAIN kept = DOMAIN d.parameters
      /\ \A k \in DOMAIN d.parameters : kept[k] = (CHOOSE p \in Supplied(d, supplied, k) : TRUE)[2]
  BY <1>2 DEF Values
<1> HIDE DEF kept
<1>4. ASSUME NEW k \in DOMAIN d.parameters
      PROVE  /\ Supplied(d, kept, k) = {<<"is", kept[k]>>}
             /\ Taken(d, kept, k, h2)
  <2>1. Supplied(d, kept, k) = {<<"is", kept[k]>>}
    BY <1>3 DEF Supplied
  <2>2. \A p, q \in Supplied(d, supplied, k) : p = q
    BY <1>4 DEF Supplied, OneDefault
  <2>3. PICK p \in Supplied(d, supplied, k) : Accepts(d.parameters[k], p[2], h1)
    BY <1>1 DEF Taken
  <2>4. kept[k] = p[2]
    <3>1. (CHOOSE q \in Supplied(d, supplied, k) : TRUE) \in Supplied(d, supplied, k)
      BY <1>1
    <3> QED BY <1>3, <2>2, <2>3, <3>1
  <2>5. Accepts(d.parameters[k], kept[k], h2)
    BY <2>3, <2>4 DEF Accepts, Lacks
  <2>6. <<"is", kept[k]>>[2] = kept[k]
    OBVIOUS
  <2> QED BY <2>1, <2>5, <2>6 DEF Taken
<1>5. \A k \in DOMAIN d.parameters : Supplied(d, kept, k) # {}
  BY <1>4
<1> QED BY <1>3, <1>4, <1>5 DEF ValuesRefused, Where, kept

LEMMA ValuesStillTaken ==
    ASSUME NEW d, NEW supplied, NEW h1, NEW h2, h2.lacks \subseteq h1.lacks,
           ValuesRefused(d, supplied, h1) = {}
    PROVE  ValuesRefused(d, supplied, h2) = {}
<1>1. \A p, v : Accepts(p, v, h1) => Accepts(p, v, h2)
  BY DEF Accepts, Lacks
<1>2. \A k : Taken(d, supplied, k, h1) => Taken(d, supplied, k, h2)
  BY <1>1 DEF Taken
<1> QED BY <1>2 DEF ValuesRefused, Where

(* What a document's values are is all that is asked of them.              *)
LEMMA SameValues ==
    ASSUME NEW d, NEW host, NEW v, NEW w, DOMAIN v = DOMAIN w, \A k \in DOMAIN v : v[k] = w[k],
           ValuesRefused(d, v, host) = {}
    PROVE  ValuesRefused(d, w, host) = {}
<1>1. \A k : Supplied(d, v, k) = Supplied(d, w, k)
  BY DEF Supplied
<1>2. \A k : Taken(d, v, k, host) <=> Taken(d, w, k, host)
  BY <1>1 DEF Taken
<1> QED BY <1>1, <1>2 DEF ValuesRefused, Where

LEMMA HostIs ==
    ASSUME NEW asked, NEW slack
    PROVE  /\ Host(asked, slack).lacks = lacks /\ Host(asked, slack).asked = asked
           /\ Host(asked, slack).room = Room + slack /\ Host(asked, slack).labels = Labels
BY DEF Host

(* What the parts of the program tell the gate they ask.                   *)
RecordAsks == {"arch", "runtime", "stamp"} \cup CoreRange
StartAsks == {"arch", "runtime", "stamp", "pin", "authentication"} \cup CoreRange
CoreAsks == {"arch", "core", "runtime", "authentication", "engine"}

(* Each place holds a bundle, and a record is of a version or a directory. *)
PlacesKept ==
    /\ DOMAIN files = AllPlaces /\ <<"pin", "">> \notin lacks
    /\ \A p \in AllPlaces : Written(files[p].document) /\ files[p].document.kind = KindOf(form)
    /\ "phase" \in DOMAIN core
    /\ \/ record = NoRecord
       \/ /\ form = "application" /\ record.at \in AllPlaces
          /\ record = [at |-> record.at, pin |-> record.pin, values |-> record.values]

(* A record that was gated would be made again.                            *)
RecordedSound ==
    "recorded" \in passed =>
        LET b == files[record.at] IN
        /\ record # NoRecord /\ record.pin = {b.document}
        /\ Check(b.document, b.manifests, "creating", Host(RecordAsks, 0)) = {}
        /\ ValuesRefused(b.document, record.values, Host({}, 0)) = {}

(* A descriptor that passed has no parameter without a name or a group.    *)
LEMMA KeysNamed ==
    ASSUME NEW d, Shape(d) = {}, d.kind = "descriptor", NEW k \in DOMAIN d.parameters
    PROVE  "" \notin {k[1], k[2]}
<1> DEFINE groups == DOMAIN d.units \cup DOMAIN d.channels \cup {"shared"}
           declaration(x) == IF x[1] \notin groups THEN {"field.value"}
                             ELSE NameOK(x[2]) \cup ParameterShape(d.parameters[x])
<1>1. /\ ParametersShape(d) = {}
      /\ \A n \in DOMAIN d.units : UnitShape(d.kind, n, d.units[n]) = {}
      /\ \A c \in DOMAIN d.channels : ChannelShape(c, d.channels[c]) = {}
  BY DEF Shape, Each
<1>2. declaration(k) = {}
  BY <1>1 DEF ParametersShape, Each
<1>3. k[1] \in groups /\ NameOK(k[2]) = {}
  BY <1>2
<1>4. \A n \in DOMAIN d.units \cup DOMAIN d.channels : NameOK(n) = {}
  BY <1>1 DEF UnitShape, ChannelShape
<1>5. NameOK("") # {}
  BY DEF NameOK, Where
<1> QED BY <1>3, <1>4, <1>5

(* What is left to a Core that was executed through the gate, and what it  *)
(* may read as it was written.                                             *)
LeftToCore(flags) == {"engine.unreachable"} \cup (IF "unread" \in flags THEN {"core.range"} ELSE {})
ReadPlainly(values) ==
    DOMAIN values \cap Misread = {} /\ (\A k \in DOMAIN values : "" \notin {k[1], k[2]})

(* Such values a Core reads as they were handed.                           *)
LEMMA PlainlyRead ==
    ASSUME NEW values, ReadPlainly(values)
    PROVE  /\ ~Unreadable(values)
           /\ DOMAIN Invoked(values) = DOMAIN values
           /\ \A k \in DOMAIN values : Invoked(values)[k] = values[k]
<1>1. \A k \in DOMAIN values : ReadAs(k) = k /\ k \notin DOMAIN Equated
  BY DEF ReadPlainly, Misread, ReadAs
<1>2. {ReadAs(k) : k \in DOMAIN values} = DOMAIN values
  BY <1>1
<1>3. ~Unreadable(values)
  BY <1>1 DEF Unreadable, ReadPlainly
<1>4. DOMAIN Invoked(values) = DOMAIN values
  BY <1>2 DEF Invoked
<1>5. ASSUME NEW x \in DOMAIN values PROVE Invoked(values)[x] = values[x]
  <2>1. (CHOOSE k \in DOMAIN values : ReadAs(k) = x) = x
    BY <1>1
  <2> QED BY <1>1, <1>2, <2>1 DEF Invoked
<1> QED BY <1>3, <1>5, <1>4

(* What the Core was executed with, and what it has of it, would pass.     *)
CoreSound(c, flags) ==
    LET b == files[c.at] IN
    /\ PassedItself(b.document, b.manifests)
    /\ HostFacts(b.document, b.manifests, "starting", Host(CoreAsks, 0)) \subseteq LeftToCore(flags)
    /\ "misread" \notin flags =>
         /\ ValuesRefused(b.document, c.values, Host({}, 0)) = {}
         /\ c.phase = "executed" => ReadPlainly(c.values)
    /\ c.phase # "executed" => c.document = b.document
    /\ c.phase \in {"composed", "scanned"} => c.found \subseteq LeftToCore(flags)

Under(c) == c.phase \in {"executed", "described", "composed", "scanned"}

GatedSound == "gated" \in passed => form = "application" /\ (Under(core) => CoreSound(core, passed))

GatesInv == PlacesKept /\ RecordedSound /\ GatedSound /\ StartsAsGated

LEMMA InitGates == DeclarationsInit => GatesInv
<1> SUFFICES ASSUME DeclarationsInit PROVE GatesInv
  OBVIOUS
<1>1. PICK s \in Starts : form = s.form /\ files = s.files /\ lacks = s.lacks
  BY DEF DeclarationsInit
<1>2. /\ record = NoRecord /\ core = NoCore /\ passed = {} /\ refusal = NoRefusal
  BY DEF DeclarationsInit
<1>3. PlacesKept
  BY <1>1, <1>2, DocumentsAssumption DEF PlacesKept, NoCore
<1>4. StartsAsGated
  BY <1>2 DEF StartsAsGated, NoRefusal
<1> QED BY <1>2, <1>3, <1>4 DEF GatesInv, RecordedSound, GatedSound

(* A gate whose host and bundle did not change says the same.              *)
LEMMA GatesKept ==
    ASSUME GatesInv, UNCHANGED <<files, lacks>>
    PROVE  /\ \A c, flags : CoreSound(c, flags)' <=> CoreSound(c, flags)
           /\ \A asked, slack : Host(asked, slack)' = Host(asked, slack)
           /\ RecordAsks' = RecordAsks
BY DEF Host, CoreSound, RecordAsks, CoreRange

LEMMA RecordKept ==
    ASSUME GatesInv, UNCHANGED <<files, lacks, record>>, "recorded" \in passed' => "recorded" \in passed
    PROVE  RecordedSound'
BY GatesKept DEF RecordedSound, GatesInv

(* What is said of a Core is of what its guardian passed it with.          *)
AsGated == "gated" \in passed' => \A x \in {"gated", "unread", "misread"} : x \in passed' <=> x \in passed

LEMMA CoreKept ==
    ASSUME GatesInv, UNCHANGED <<form, files, lacks, core>>, AsGated
    PROVE  GatedSound' /\ "phase" \in DOMAIN core'
<1>1. GatedSound /\ "phase" \in DOMAIN core'
  BY DEF GatesInv, PlacesKept
<1>2. "gated" \in passed' => form = "application" /\ (Under(core) => CoreSound(core, passed'))
  <2> SUFFICES ASSUME "gated" \in passed' PROVE form = "application" /\ (Under(core) => CoreSound(core, passed'))
    OBVIOUS
  <2>1. form = "application" /\ (Under(core) => CoreSound(core, passed))
    BY <1>1 DEF GatedSound, AsGated
  <2>2. /\ LeftToCore(passed') = LeftToCore(passed)
        /\ "misread" \in passed' <=> "misread" \in passed
    BY DEF AsGated, LeftToCore
  <2> QED BY <2>1, <2>2 DEF CoreSound
<1>3. GatedSound'
  BY <1>2 DEF GatedSound, CoreSound, Host
<1> QED BY <1>1, <1>3

(* The records.                                                            *)
LEMMA RecordGates ==
    ASSUME GatesInv,
           \/ \E v \in Versions, s \in Settings, named \in BOOLEAN : Create(v, s, named)
           \/ Ephemeral
           \/ \E v \in Versions : SetVersion(v)
           \/ \E s \in Settings : \E k \in DOMAIN s : SetParam(k, s[k])
    PROVE  GatesInv'
<1>1. UNCHANGED <<form, files, lacks, core, refusal>>
  BY DEF Create, Ephemeral, SetVersion, SetParam
<1>2. /\ PlacesKept /\ RecordedSound /\ GatedSound
      /\ StartsAsGated'
  BY <1>1 DEF GatesInv, StartsAsGated
<1>3. "none" \notin Versions /\ Versions \subseteq AllPlaces /\ "work" \in AllPlaces
  BY PlacesAssumption DEF AllPlaces
<1>4. record.at \in Versions => record # NoRecord
  BY <1>3 DEF NoRecord
<1>5. ASSUME NEW r, record' = r, form = "application", r.at \in AllPlaces,
             r = [at |-> r.at, pin |-> r.pin, values |-> r.values],
             AsGated, RecordedSound'
      PROVE  GatesInv'
  <2>1. GatedSound' /\ "phase" \in DOMAIN core'
    BY <1>1, <1>5, CoreKept
  <2>2. PlacesKept'
    BY <1>1, <1>2, <1>5, <2>1 DEF PlacesKept
  <2> QED BY <1>2, <1>5, <2>1, <2>2 DEF GatesInv
<1>6. CASE Ephemeral
  <2> DEFINE vs == Values(files["work"].document, NoValues, Host({}, 0))
  <2>1. record' = [at |-> "work", pin |-> {}, values |-> vs] /\ passed' = passed /\ form = "application"
        /\ record = NoRecord
    BY <1>6 DEF Ephemeral
  <2>2. RecordedSound'
    BY <1>2, <2>1 DEF RecordedSound
  <2>3. AsGated
    BY <2>1 DEF AsGated
  <2> QED BY <1>3, <1>5, <2>1, <2>2, <2>3
<1>7. ASSUME NEW v \in Versions, NEW s, NEW named \in BOOLEAN, Create(v, s, named) PROVE GatesInv'
  <2> DEFINE b == files[v]
             vs == Values(b.document, s, Host({}, 0))
  <2>1. /\ record' = [at |-> v, pin |-> {b.document}, values |-> vs] /\ form = "application"
        /\ passed' = IF named THEN {"recorded"} ELSE {}
        /\ Pinnable(v, named) /\ ValuesRefused(b.document, s, Host({}, 0)) = {}
    BY <1>7 DEF Create
  <2>2. record'.at = v /\ record'.pin = {b.document} /\ record'.values = vs
    BY <2>1
  <2>3. OneDefault(b.document)
    BY <1>2, <1>3 DEF PlacesKept, Written
  <2>4. ValuesRefused(b.document, vs, Host({}, 0)) = {}
    BY <2>1, <2>3, ValuesAgain
  <2>5. named => Check(b.document, b.manifests, "creating", Host(RecordAsks, 0)) = {}
    <3>1. {"arch", "runtime"} \cup CoreRange \cup {"stamp"} = RecordAsks
      BY DEF RecordAsks
    <3> QED BY <2>1, <3>1 DEF Pinnable
  <2> HIDE DEF vs
  <2>6. record' # NoRecord
    BY <1>3, <2>2 DEF NoRecord
  <2>7. RecordedSound'
    BY <1>1, <2>1, <2>4, <2>2, <2>5, <2>6, GatesKept DEF RecordedSound
  <2>8. AsGated
    BY <2>1 DEF AsGated
  <2> QED BY <1>3, <1>5, <2>1, <2>2, <2>8, <2>7
<1>8. ASSUME NEW v \in Versions, SetVersion(v) PROVE GatesInv'
  <2>1. /\ record.at \in Versions /\ record' = [record EXCEPT !.at = v, !.pin = {files[v].document}]
        /\ passed' = passed \ {"recorded"}
    BY <1>8 DEF SetVersion
  <2>2. form = "application" /\ record = [at |-> record.at, pin |-> record.pin, values |-> record.values]
    BY <1>2, <1>4, <2>1 DEF PlacesKept
  <2>3. record' = [at |-> v, pin |-> {files[v].document}, values |-> record.values]
    BY <2>1, <2>2
  <2>4. RecordedSound'
    BY <2>1 DEF RecordedSound
  <2>5. AsGated
    BY <2>1 DEF AsGated
  <2> QED BY <1>3, <1>5, <2>1, <2>3, <2>2, <2>5, <2>4
<1>9. ASSUME NEW written, NEW value, SetParam(written, value) PROVE GatesInv'
  <2> DEFINE b == files[record.at]
             k == IF written \in DOMAIN Dotted THEN Dotted[written] ELSE written
             supplied == [x \in DOMAIN record.values \cup {k} |-> IF x = k THEN value ELSE record.values[x]]
             vs == Values(b.document, supplied, Host({}, 0))
  <2>1. /\ record.at \in Versions /\ Pinnable(record.at, TRUE) /\ record' = [record EXCEPT !.values = vs]
        /\ ValuesRefused(b.document, supplied, Host({}, 0)) = {}
        /\ passed' = IF record.pin = {b.document} THEN passed \cup {"recorded"} ELSE passed
    BY <1>9 DEF SetParam
  <2>2. OneDefault(b.document)
    BY <1>2, <1>3, <2>1 DEF PlacesKept, Written
  <2> HIDE DEF supplied
  <2>3. ValuesRefused(b.document, vs, Host({}, 0)) = {}
    BY <2>1, <2>2, ValuesAgain
  <2>4. form = "application" /\ record = [at |-> record.at, pin |-> record.pin, values |-> record.values]
    BY <1>2, <1>4, <2>1 DEF PlacesKept
  <2> HIDE DEF vs
  <2>5. record' = [at |-> record.at, pin |-> record.pin, values |-> vs]
    BY <2>1, <2>4
  <2>6. record'.at = record.at /\ record'.pin = record.pin /\ record'.values = vs
    BY <2>5
  <2>7. Check(b.document, b.manifests, "creating", Host(RecordAsks, 0)) = {}
    <3>1. {"arch", "runtime"} \cup CoreRange \cup {"stamp"} = RecordAsks
      BY DEF RecordAsks
    <3> QED BY <2>1, <3>1 DEF Pinnable
  <2>8. record' # NoRecord
    BY <1>3, <2>1, <2>6 DEF NoRecord
  <2>9. "recorded" \in passed' => record.pin = {b.document}
    BY <1>2, <2>1 DEF RecordedSound
  <2>10. RecordedSound'
    BY <1>1, <2>6, <2>3, <2>7, <2>8, <2>9, GatesKept DEF RecordedSound
  <2>11. AsGated
    BY <2>1 DEF AsGated
  <2> QED BY <1>3, <1>5, <2>1, <2>5, <2>4, <2>6, <2>10, <2>11
<1> QED BY <1>6, <1>8, <1>7, <1>9

(* A start, as the guardian gates it.                                      *)
LEMMA ExecuteGates ==
    ASSUME GatesInv, Execute
    PROVE  GatesInv'
<1> DEFINE b == files[record.at]
           moved == IF ~ record.pin \subseteq {b.document} THEN {<<"pin", "">>} ELSE {}
           host == [Host(StartAsks, 0) EXCEPT !.lacks = @ \cup moved]
<1>1. /\ record # NoRecord /\ UNCHANGED <<form, files, lacks, record>>
      /\ PlacesKept /\ RecordedSound /\ GatedSound /\ StartsAsGated
  BY DEF Execute, GatesInv
<1>2. form = "application" /\ record.at \in AllPlaces /\ OneDefault(b.document)
  BY <1>1 DEF PlacesKept, Written
<1>3. GateStart = Then(Check(b.document, b.manifests, "starting", host),
                       ValuesRefused(b.document, record.values, host))
  <2>1. GateStart = Then(Check(b.document, b.manifests, "starting", 
                               [Host({"arch", "runtime", "stamp", "pin", "authentication"} \cup CoreRange, 0)
                                   EXCEPT !.lacks = @ \cup moved]),
                         ValuesRefused(b.document, record.values,
                               [Host({"arch", "runtime", "stamp", "pin", "authentication"} \cup CoreRange, 0)
                                   EXCEPT !.lacks = @ \cup moved]))
    BY DEF GateStart
  <2> HIDE DEF moved
  <2> QED BY <2>1 DEF StartAsks
<1>4. /\ host.lacks = lacks \cup moved /\ host.asked = StartAsks
      /\ host.room = Host({}, 0).room /\ host.labels = Labels
  BY DEF Host
<1> HIDE DEF host
<1> DEFINE h(asked) == Host(asked, 0)
<1>5. \A asked : /\ h(asked).lacks = lacks /\ h(asked).asked = asked
                 /\ h(asked).room = host.room /\ h(asked).labels = host.labels
  BY <1>4 DEF Host
<1> HIDE DEF h
<1>6. CASE GateStart # {}
  <2>1. /\ refusal' = [by |-> "guardian", codes |-> GateStart, passed |-> passed]
        /\ UNCHANGED <<core, passed>>
    BY <1>6 DEF Execute, Refused
  <2>2. RecordedSound' /\ GatedSound' /\ "phase" \in DOMAIN core'
    <3>1. AsGated
      BY <2>1 DEF AsGated
    <3> QED BY <1>1, <2>1, <3>1, RecordKept, CoreKept
  <2>3. PlacesKept'
    BY <1>1, <2>2 DEF PlacesKept
  <2>4. ASSUME "recorded" \in passed, NEW code \in GateStart
        PROVE  code \in {"secret.missing", "channel.tls.missing", "auth.unavailable"}
    <3>1. /\ record.pin = {b.document}
          /\ Check(b.document, b.manifests, "creating", h(RecordAsks)) = {}
          /\ ValuesRefused(b.document, record.values, Host({}, 0)) = {}
      BY <1>1, <2>4 DEF RecordedSound, h
    <3>2. host.lacks = lacks
      BY <1>4, <3>1
    <3>3. PassedItself(b.document, b.manifests)
          /\ HostFacts(b.document, b.manifests, "creating", h(RecordAsks)) = {}
      BY <3>1, CheckPassed
    <3>4. ValuesRefused(b.document, record.values, host) = {}
      BY <3>1, <3>2, HostIs, ValuesStillTaken
    <3>5. code \in HostFacts(b.document, b.manifests, "starting", host)
      <4>1. Check(b.document, b.manifests, "starting", host) =
              HostFacts(b.document, b.manifests, "starting", host)
        BY <3>3, CheckOfHost
      <4> QED BY <1>3, <2>4, <3>4, <4>1 DEF Then
    <3>6. ~Lacks(host, "pin", "")
      BY <1>1, <3>2 DEF PlacesKept, Lacks
    <3>7. /\ host.lacks \subseteq h(RecordAsks).lacks
          /\ host.room = h(RecordAsks).room /\ host.labels = h(RecordAsks).labels
          /\ h(RecordAsks).asked = RecordAsks
      BY <1>5, <3>2
    <3>8. /\ \A what \in {"arch", "runtime", "stamp"} : what \in h(RecordAsks).asked
          /\ "core" \in host.asked => "core" \in h(RecordAsks).asked
          /\ "engine" \notin host.asked
      BY <1>4, <3>7 DEF RecordAsks, StartAsks, CoreRange
    <3>9. \/ code = "engine.unreachable" /\ "engine" \in host.asked
          \/ code = "core.range" /\ "core" \in host.asked /\ "core" \notin h(RecordAsks).asked
          \/ code \in {"secret.missing", "channel.tls.missing", "auth.unavailable"}
      <4>1. PICK h1 : h1 = h(RecordAsks)
        OBVIOUS
      <4>2. /\ host.lacks \subseteq h1.lacks /\ host.room = h1.room /\ host.labels = h1.labels
            /\ \A what \in {"arch", "runtime", "stamp"} : what \in host.asked => what \in h1.asked
            /\ ~("pin" \in host.asked /\ Lacks(host, "pin", ""))
        BY <3>6, <3>7, <3>8, <4>1
      <4>3. HostFacts(b.document, b.manifests, "creating", h1) = {}
        BY <3>3, <4>1
      <4>4. "creating" \in {"creating", "starting"} /\ "creating" # "starting"
        OBVIOUS
      <4>5. \/ code = "engine.unreachable" /\ "engine" \in host.asked
            \/ code = "core.range" /\ "core" \in host.asked /\ "core" \notin h1.asked
            \/ code \in {"secret.missing", "channel.tls.missing", "auth.unavailable"}
        BY ONLY <3>5, <4>2, <4>3, <4>4, HostAgain
      <4> QED BY <4>1, <4>5
    <3> QED BY <3>8, <3>9
  <2>5. StartsAsGated'
    BY <2>1, <2>4 DEF StartsAsGated
  <2> QED BY <2>2, <2>3, <2>5 DEF GatesInv
<1>7. CASE GateStart = {}
  <2> DEFINE vs == Values(b.document, record.values, Host({}, 0))
             flags == {"gated"} \cup (IF "core" \in CoreRange THEN {} ELSE {"unread"})
                        \cup (IF DOMAIN vs \cap Misread = {} THEN {} ELSE {"misread"})
  <2>1. /\ core' = [phase |-> "executed", at |-> record.at, values |-> vs]
        /\ passed' = (passed \cap {"recorded"}) \cup flags /\ UNCHANGED refusal
    BY <1>7 DEF Execute
  <2>2. /\ Check(b.document, b.manifests, "starting", host) = {}
        /\ ValuesRefused(b.document, record.values, host) = {}
    BY <1>3, <1>7 DEF Then
  <2>3. PassedItself(b.document, b.manifests) /\ HostFacts(b.document, b.manifests, "starting", host) = {}
    BY <2>2, CheckPassed
  <2>4. ValuesRefused(b.document, vs, Host({}, 0)) = {}
    <3>1. ValuesRefused(b.document, record.values, Host({}, 0)) = {}
      BY <1>4, <2>2, HostIs, ValuesStillTaken
    <3> QED BY <1>2, <3>1, ValuesAgain
  <2>5. ASSUME NEW code \in HostFacts(b.document, b.manifests, "starting", h(CoreAsks))
        PROVE  code \in LeftToCore(flags)
    <3> DEFINE h2 == h(CoreAsks)
    <3>1. /\ h2.lacks \subseteq host.lacks /\ h2.room = host.room /\ h2.labels = host.labels
          /\ h2.asked = CoreAsks
      BY <1>4, <1>5
    <3>2. code \in HostFacts(b.document, b.manifests, "starting", h2)
      BY <2>5
    <3> HIDE DEF h2
    <3>3. /\ \A what \in {"arch", "runtime", "stamp"} : what \in host.asked
          /\ "authentication" \in host.asked /\ "pin" \notin h2.asked
      BY <1>4, <3>1 DEF CoreAsks, StartAsks
    <3> DEFINE hs == HostFacts(b.document, b.manifests, "starting", host)
    <3>4. hs = {}
      BY <2>3
    <3>5. code = "engine.unreachable" \/ (code = "core.range" /\ "core" \notin host.asked)
      <4> DEFINE document == b.document
                 manifests == b.manifests
      <4>1. HostFacts(document, manifests, "starting", host) = {}
            /\ code \in HostFacts(document, manifests, "starting", h2)
        BY <3>4, <3>2
      <4> HIDE DEF document, manifests
      <4> QED BY ONLY <3>1, <3>3, <4>1, StartAgain
    <3>6. "core" \notin host.asked => "unread" \in flags
      BY <1>4 DEF StartAsks
    <3> QED BY <3>5, <3>6 DEF LeftToCore
  <2>6. "misread" \notin flags => ReadPlainly(vs)
    <3>1. DOMAIN vs \subseteq DOMAIN b.document.parameters
      BY DEF Values
    <3>2. b.document.kind = "descriptor"
      BY <1>1, <1>2 DEF PlacesKept, KindOf
    <3>3. \A k \in DOMAIN b.document.parameters : "" \notin {k[1], k[2]}
      BY <2>3, <3>2, KeysNamed DEF PassedItself
    <3> HIDE DEF vs
    <3> QED BY <3>1, <3>3 DEF ReadPlainly
  <2> HIDE DEF vs
  <2>7. /\ core'.phase = "executed" /\ core'.at = record.at /\ core'.values = vs /\ "phase" \in DOMAIN core'
        /\ \A x \in {"gated", "unread", "misread"} : x \in passed' <=> x \in flags
    <3> HIDE DEF flags
    <3> QED BY <2>1
  <2> HIDE DEF flags
  <2>8. GatedSound'
    <3>1. LeftToCore(passed') = LeftToCore(flags) /\ ("misread" \in passed' <=> "misread" \in flags)
      BY <2>7 DEF LeftToCore
    <3>2. CoreSound(core', passed')
      BY <2>3, <2>4, <2>5, <2>6, <2>7, <3>1 DEF CoreSound, h
    <3>3. CoreSound(core, passed)'
      BY <1>1, <3>2 DEF CoreSound, Host
    <3> QED BY <1>1, <1>2, <3>3 DEF GatedSound
  <2>9. RecordedSound'
    <3>1. "recorded" \in passed' => "recorded" \in passed
      BY <2>1 DEF flags
    <3> QED BY <1>1, <3>1, RecordKept
  <2>10. PlacesKept'
    BY <1>1, <2>7 DEF PlacesKept
  <2> QED BY <1>1, <2>1, <2>9, <2>8, <2>10 DEF GatesInv, StartsAsGated
<1> QED BY <1>6, <1>7

(* A step of the Core, which changes nothing that a gate was told of.      *)
LEMMA CoreStepGates ==
    ASSUME GatesInv, UNCHANGED <<form, files, lacks, record, passed>>,
           NEW c, core' = c, "phase" \in DOMAIN c, "gated" \in passed /\ Under(c) => CoreSound(c, passed),
           NEW codes,
           "gated" \in passed /\ "misread" \notin passed => codes \subseteq LeftToCore(passed),
           UNCHANGED refusal \/ Refused("core", codes)
    PROVE  GatesInv'
<1>1. PlacesKept' /\ RecordedSound'
  <2>1. PlacesKept'
    BY DEF PlacesKept, GatesInv
  <2> QED BY <2>1, RecordKept
<1>2. "gated" \in passed => form = "application" /\ (Under(c) => CoreSound(c, passed))
  BY DEF GatesInv, GatedSound
<1>3. GatedSound'
  BY <1>2 DEF GatedSound, CoreSound, Host
<1>4. StartsAsGated'
  BY DEF GatesInv, StartsAsGated, Refused, LeftToCore
<1> QED BY <1>1, <1>3, <1>4 DEF GatesInv

(* The Core reads its document, gates it and scans the Manifests.          *)
LEMMA StartingGates ==
    ASSUME GatesInv, Boot \/ Describe \/ Compose \/ Scan
    PROVE  GatesInv'
<1>1. UNCHANGED <<form, files, lacks, record, passed>>
  BY DEF Boot, Describe, Compose, Scan
<1>2. "gated" \in passed => form = "application" /\ (Under(core) => CoreSound(core, passed))
  BY DEF GatesInv, GatedSound
<1>3. "phase" \in DOMAIN NoCore /\ ~Under(NoCore)
  BY DEF NoCore, Under
<1>4. CASE Boot
  <2>1. form = "service" /\ UNCHANGED refusal
        /\ core' = [phase |-> "described", at |-> "site", values |-> NoValues, document |-> "unread"]
    BY <1>4 DEF Boot
  <2>2. PICK c : c = core'
    OBVIOUS
  <2>3. "phase" \in DOMAIN c
    BY <2>1, <2>2
  <2> QED BY <1>1, <1>2, <2>1, <2>2, <2>3, CoreStepGates
<1>5. CASE Describe
  <2>1. core.phase = "executed"
    BY <1>5 DEF Describe
  <2>2. "gated" \in passed => CoreSound(core, passed)
    BY <1>2, <2>1 DEF Under
  <2>3. CASE Unreadable(core.values)
    <3>1. core' = NoCore /\ Refused("core", {"invocation"})
      BY <1>5, <2>3 DEF Describe
    <3>2. "gated" \in passed => "misread" \in passed
      BY <2>1, <2>2, <2>3, PlainlyRead DEF CoreSound
    <3> QED BY <1>1, <1>3, <3>1, <3>2, CoreStepGates
  <2>4. CASE ~Unreadable(core.values) /\ files[core.at].document.read = "unreadable"
    <3>1. core' = NoCore /\ Refused("core", {"document.unreadable"})
      BY <1>5, <2>4 DEF Describe
    <3>2. "gated" \notin passed
      BY <2>2, <2>4 DEF CoreSound, PassedItself, Reading
    <3> QED BY <1>1, <1>3, <3>1, <3>2, CoreStepGates
  <2>5. CASE ~Unreadable(core.values) /\ files[core.at].document.read # "unreadable"
    <3>1. /\ core' = [phase |-> "described", at |-> core.at, values |-> Invoked(core.values),
                      document |-> files[core.at].document]
          /\ UNCHANGED refusal
      BY <1>5, <2>5 DEF Describe
    <3>2. PICK c : c = core'
      OBVIOUS
    <3>3. /\ c.phase = "described" /\ c.at = core.at /\ c.values = Invoked(core.values)
          /\ c.document = files[core.at].document /\ "phase" \in DOMAIN c
      BY <3>1, <3>2
    <3>4. "gated" \in passed => CoreSound(c, passed)
      <4> SUFFICES ASSUME "gated" \in passed PROVE CoreSound(c, passed)
        OBVIOUS
      <4>1. CoreSound(core, passed)
        BY <2>2
      <4>2. "misread" \notin passed => ValuesRefused(c.document, c.values, Host({}, 0)) = {}
        <5> SUFFICES ASSUME "misread" \notin passed
                     PROVE  ValuesRefused(c.document, c.values, Host({}, 0)) = {}
          OBVIOUS
        <5>1. /\ ReadPlainly(core.values)
              /\ ValuesRefused(files[core.at].document, core.values, Host({}, 0)) = {}
          BY <2>1, <4>1 DEF CoreSound
        <5> DEFINE d == files[core.at].document
                   host == Host({}, 0)
        <5>2. /\ DOMAIN Invoked(core.values) = DOMAIN core.values
              /\ \A k \in DOMAIN core.values : Invoked(core.values)[k] = core.values[k]
          BY <5>1, PlainlyRead
        <5>3. ValuesRefused(d, Invoked(core.values), host) = {}
          <6> HIDE DEF d, host
          <6> QED BY <5>1, <5>2, SameValues DEF d, host
        <5> QED BY <3>3, <5>3
      <4> QED BY <3>3, <4>1, <4>2 DEF CoreSound
    <3> QED BY <1>1, <3>1, <3>3, <3>2, <3>4, CoreStepGates
  <2> QED BY <2>3, <2>5, <2>4
<1>6. CASE Compose
  <2> DEFINE d == IF form = "application" THEN core.document ELSE files["site"].document
             asked == IF form = "application" THEN {"arch", "core", "runtime", "authentication", "engine"}
                      ELSE {"authentication", "engine"}
  <2>1. PICK found : found = Check(d, files[core.at].manifests, "starting", Host(asked, 0))
    OBVIOUS
  <2>2. core.phase = "described"
    BY <1>6 DEF Compose
  <2>3. IF "engine.unreachable" \in found
        THEN core' = NoCore /\ Refused("core", found)
        ELSE /\ core' = [phase |-> "composed", at |-> core.at, values |-> core.values, document |-> d,
                         found |-> found, read |-> files[core.at].manifests]
             /\ UNCHANGED refusal
    BY <1>6, <2>1 DEF Compose
  <2>4. "gated" \in passed => CoreSound(core, passed) /\ d = files[core.at].document
    BY <1>2, <2>2 DEF Under, CoreSound
  <2>5. "gated" \in passed => found \subseteq LeftToCore(passed)
    <3> SUFFICES ASSUME "gated" \in passed PROVE found \subseteq LeftToCore(passed)
      OBVIOUS
    <3>1. asked = CoreAsks
      BY <1>2 DEF CoreAsks
    <3> DEFINE b == files[core.at]
    <3>2. found = Check(b.document, b.manifests, "starting", Host(CoreAsks, 0))
      BY <2>1, <2>4, <3>1
    <3>3. /\ PassedItself(b.document, b.manifests)
          /\ HostFacts(b.document, b.manifests, "starting", Host(CoreAsks, 0)) \subseteq LeftToCore(passed)
      BY <2>4 DEF CoreSound
    <3> QED BY <3>2, <3>3, CheckOfHost
  <2> HIDE DEF d, asked
  <2>6. CASE "engine.unreachable" \in found
    BY <1>1, <1>3, <2>3, <2>5, <2>6, CoreStepGates
  <2>7. CASE "engine.unreachable" \notin found
    <3>1. /\ core' = [phase |-> "composed", at |-> core.at, values |-> core.values, document |-> d,
                      found |-> found, read |-> files[core.at].manifests]
          /\ UNCHANGED refusal
      BY <2>3, <2>7
    <3>2. PICK c : c = core'
      OBVIOUS
    <3>3. /\ c.phase = "composed" /\ c.at = core.at /\ c.values = core.values
          /\ c.document = d /\ c.found = found /\ "phase" \in DOMAIN c
      BY <3>1, <3>2
    <3>4. "gated" \in passed => CoreSound(c, passed)
      BY <2>2, <2>4, <2>5, <3>3 DEF CoreSound
    <3> QED BY <1>1, <3>1, <3>3, <3>2, <3>4, CoreStepGates
  <2> QED BY <2>6, <2>7
<1>7. CASE Scan
  <2> DEFINE manifests == files[core.at].manifests
             passing == [p \in {p \in DOMAIN manifests : CheckManifest(manifests[p]) = {}} |-> manifests[p]]
  <2>1. /\ core.phase = "composed" \/ form = "service"
        /\ UNCHANGED refusal
        /\ core' = [phase |-> "scanned", at |-> core.at, values |-> core.values,
                    document |-> core.document, found |-> core.found, read |-> core.read,
                    scanned |-> passing]
    BY <1>7 DEF Scan
  <2> HIDE DEF passing
  <2>2. PICK c : c = core'
    OBVIOUS
  <2>3. /\ c.phase = "scanned" /\ c.at = core.at /\ c.values = core.values
        /\ c.document = core.document /\ c.found = core.found /\ "phase" \in DOMAIN c
    BY <2>1, <2>2
  <2>4. "gated" \in passed => CoreSound(core, passed) /\ core.phase = "composed"
    BY <1>2, <2>1 DEF Under
  <2>5. "gated" \in passed => CoreSound(c, passed)
    BY <2>3, <2>4 DEF CoreSound
  <2> QED BY <1>1, <2>1, <2>3, <2>2, <2>5, CoreStepGates
<1> QED BY <1>4, <1>6, <1>5, <1>7

(* The end of a start, and of a Core.                                      *)
LEMMA DeclaredGates ==
    ASSUME GatesInv, Declare \/ Ends
    PROVE  GatesInv'
<1>1. UNCHANGED <<form, files, lacks, record, passed>>
  BY DEF Declare, Ends
<1>2. "gated" \in passed => form = "application" /\ (Under(core) => CoreSound(core, passed))
  BY DEF GatesInv, GatedSound
<1>3. "phase" \in DOMAIN NoCore /\ ~Under(NoCore)
  BY DEF NoCore, Under
<1>4. CASE Ends
  <2>1. core' = NoCore /\ UNCHANGED refusal
    BY <1>4 DEF Ends
  <2> QED BY <1>1, <1>3, <2>1, CoreStepGates
<1>5. CASE Declare
  <2>1. PICK refused :
          refused = Then(core.found, IF form = "application"
                                     THEN ValuesRefused(core.document, core.values, Host({}, 0)) ELSE {})
    OBVIOUS
  <2>2. core.phase = "scanned"
    BY <1>5 DEF Declare
  <2> DEFINE settled == [core EXCEPT !.phase = "declared"]
  <2>3. /\ core' = NoCore \/ core' = settled
        /\ UNCHANGED refusal \/ Refused("core", refused)
    BY <1>5, <2>1 DEF Declare
  <2>4. "phase" \in DOMAIN core
    BY DEF GatesInv, PlacesKept
  <2>5. "phase" \in DOMAIN settled /\ ~Under(settled)
    BY <2>4 DEF Under
  <2>6. "gated" \in passed /\ "misread" \notin passed => refused \subseteq LeftToCore(passed)
    <3>1. "gated" \in passed /\ "misread" \notin passed =>
            /\ core.found \subseteq LeftToCore(passed)
            /\ ValuesRefused(core.document, core.values, Host({}, 0)) = {}
      BY <1>2, <2>2 DEF Under, CoreSound
    <3> QED BY <1>2, <2>1, <3>1 DEF Then
  <2> HIDE DEF settled
  <2>7. PICK c : c = core'
    OBVIOUS
  <2>8. "phase" \in DOMAIN c /\ ~Under(c)
    BY <1>3, <2>3, <2>5, <2>7
  <2> QED BY <1>1, <2>6, <2>3, <2>7, <2>8, CoreStepGates
<1> QED BY <1>4, <1>5

(* With an edit or a change of the host, nothing is passed any more.       *)
LEMMA ChangesGates ==
    ASSUME GatesInv,
           \/ \E p \in AllPlaces, b \in Drafts : Edit(p, b)
           \/ \E l \in HostStates : HostChanges(l)
    PROVE  GatesInv'
<1>1. passed' = {} /\ UNCHANGED <<form, record, core, refusal>>
  BY DEF Edit, HostChanges
<1>2. RecordedSound' /\ GatedSound'
  BY <1>1 DEF RecordedSound, GatedSound
<1>3. PlacesKept
  BY DEF GatesInv
<1> DEFINE WrittenAfter ==
      /\ DOMAIN files' = AllPlaces
      /\ \A q \in AllPlaces : Written(files'[q].document) /\ files'[q].document.kind = KindOf(form)
<1>4. WrittenAfter
  <2>1. ASSUME NEW p \in AllPlaces, NEW b \in Drafts, Edit(p, b)
        PROVE  WrittenAfter
    <3>1. files' = [files EXCEPT ![p] = b] /\ Written(b.document)
          /\ b.document.kind = files[p].document.kind
      BY <2>1, DocumentsAssumption DEF Edit
    <3>2. \A q \in AllPlaces : files'[q] = IF q = p THEN b ELSE files[q]
      BY <1>3, <3>1 DEF PlacesKept
    <3> QED BY <1>3, <3>1, <3>2 DEF PlacesKept
  <2>2. ASSUME NEW l \in HostStates, HostChanges(l)
        PROVE  WrittenAfter
    BY <1>3, <2>2 DEF HostChanges, PlacesKept
  <2> QED BY <2>1, <2>2
<1>5. <<"pin", "">> \notin lacks'
  BY <1>3, DocumentsAssumption DEF PlacesKept, Edit, HostChanges
<1>6. PlacesKept'
  BY <1>1, <1>4, <1>3, <1>5 DEF PlacesKept
<1>7. StartsAsGated'
  BY <1>1 DEF GatesInv, StartsAsGated
<1> QED BY <1>2, <1>6, <1>7 DEF GatesInv

(* No step breaks what the gates say.                                      *)
LEMMA GatesInvariant == DeclarationsSpec => []GatesInv
<1>1. GatesInv /\ [DeclarationsNext]_declarationVars => GatesInv'
  <2> SUFFICES ASSUME GatesInv, [DeclarationsNext]_declarationVars PROVE GatesInv'
    OBVIOUS
  <2>1. CASE \/ \E v \in Versions, s \in Settings, named \in BOOLEAN : Create(v, s, named)
             \/ Ephemeral
             \/ \E v \in Versions : SetVersion(v)
             \/ \E s \in Settings : \E k \in DOMAIN s : SetParam(k, s[k])
    BY <2>1, RecordGates
  <2>2. CASE Execute
    BY <2>2, ExecuteGates
  <2>3. CASE Boot \/ Describe \/ Compose \/ Scan
    BY <2>3, StartingGates
  <2>4. CASE Declare \/ Ends
    BY <2>4, DeclaredGates
  <2>5. CASE \/ \E p \in AllPlaces, b \in Drafts : Edit(p, b)
             \/ \E l \in HostStates : HostChanges(l)
    BY <2>5, ChangesGates
  <2>6. CASE UNCHANGED declarationVars
    <3>1. UNCHANGED <<form, files, lacks, record, core, passed, refusal>>
      BY <2>6 DEF declarationVars
    <3>2. PICK c : c = core
      OBVIOUS
    <3>3. "phase" \in DOMAIN c /\ ("gated" \in passed /\ Under(c) => CoreSound(c, passed))
      BY <3>2 DEF GatesInv, GatedSound, PlacesKept
    <3> QED BY <3>1, <3>2, <3>3, CoreStepGates
  <2> QED BY <2>1, <2>3, <2>2, <2>4, <2>5, <2>6 DEF DeclarationsNext
<1> QED BY InitGates, <1>1, PTL DEF DeclarationsSpec

(* What one gate passed, the next refuses only for what it alone asks:     *)
(* nothing having changed since, a guardian refuses a record that was made *)
(* or set through the gate (instances.go) only for a secret, a certificate *)
(* or the authentication service (guardian.go), and the Core it executed   *)
(* refuses what it was handed only for the engine (trunk.go), or the range *)
(* its guardian could not ask, where no key it reads is one that another   *)
(* was written for.                                                        *)
THEOREM StartsAreAsGated == DeclarationsSpec => []StartsAsGated
<1>1. GatesInv => StartsAsGated
  BY DEF GatesInv
<1> QED BY <1>1, GatesInvariant, PTL

--------------------------------------------------------------------------------
(* What is launched is whole.                                              *)

(* Induction over the naturals, as a least one of those it fails for.      *)
Below == {ss \in Nat \X Nat : ss[1] < ss[2]}

LEMMA LeastOf ==
    ASSUME NEW T \in SUBSET Nat, T # {}
    PROVE  \E x \in T : \A y \in T : x <= y
<1>1. IsWellFoundedOn(Below, Nat)
  BY NatLessThanWellFounded DEF OpToRel, Below
<1>2. PICK x \in T : \A y \in T : <<y, x>> \notin Below
  BY <1>1, WFMin
<1>3. \A y \in T : ~(y < x)
  BY <1>2 DEF Below
<1> QED BY <1>3

(* An order of a finite mapping's keys has each of them.                   *)
LEMMA OrdersAll ==
    ASSUME NEW keys, IsFiniteSet(keys), NEW o \in Orders(keys)
    PROVE  /\ o \in [1..Cardinality(keys) -> keys] /\ Len(o) = Cardinality(keys) /\ Len(o) \in Nat
           /\ \A k \in keys : \E i \in 1..Len(o) : o[i] = k
<1>1. Cardinality(keys) \in Nat
  BY FS_CardinalityType
<1>2. IsFiniteSet(1..Cardinality(keys)) /\ Cardinality(1..Cardinality(keys)) = Cardinality(keys)
  BY <1>1, FS_Interval
<1>3. o \in Injection(1..Cardinality(keys), keys)
  BY DEF Orders, Injection, IsInjective
<1>4. o \in Surjection(1..Cardinality(keys), keys)
  BY <1>2, <1>3, FS_Injection
<1>5. o \in Seq(keys) /\ Len(o) = Cardinality(keys)
  BY <1>1 DEF Orders
<1> QED BY <1>1, <1>4, <1>5 DEF Surjection, Orders

(* A text whose parts are written out or to be bound, with none to be      *)
(* resolved and none that was not.                                         *)
Plain(text) == \A p \in text : p = <<p[1], p[2]>> /\ p[1] \in {"is", "bind"}

(* Every parameter a text refers to has a value.                           *)
Valued(values, group, text) ==
    \A x \in Parameters(text) : <<group, x>> \in DOMAIN values \/ <<"shared", x>> \in DOMAIN values

LEMMA SubstituteIs ==
    ASSUME NEW values, NEW group, NEW text, InParts(text), Valued(values, group, text)
    PROVE  /\ Plain(Substitute(values, group, text))
           /\ Bindings(Substitute(values, group, text)) = Bindings(text)
<1> DEFINE part(p) ==
          CASE p[1] # "param" -> p
            [] p[1] = "param" /\ <<group, p[2]>> \in DOMAIN values -> <<"is", values[<<group, p[2]>>]>>
            [] p[1] = "param" /\ <<group, p[2]>> \notin DOMAIN values /\ <<"shared", p[2]>> \in DOMAIN values ->
                 <<"is", values[<<"shared", p[2]>>]>>
            [] OTHER -> Missing
<1>1. Substitute(values, group, text) = {part(p) : p \in text}
  BY DEF Substitute
<1>2. ASSUME NEW p \in text
      PROVE  /\ p[1] # "param" => part(p) = p
             /\ p[1] = "param" => \E v : part(p) = <<"is", v>>
  <2>1. p[1] = "param" => p[2] \in Parameters(text)
    BY DEF Parameters
  <2>2. p[1] = "param" => <<group, p[2]>> \in DOMAIN values \/ <<"shared", p[2]>> \in DOMAIN values
    BY <2>1 DEF Valued
  <2>3. CASE p[1] # "param"
    BY <2>3
  <2>4. CASE p[1] = "param" /\ <<group, p[2]>> \in DOMAIN values
    BY <2>4
  <2>5. CASE p[1] = "param" /\ <<group, p[2]>> \notin DOMAIN values
    BY <2>2, <2>5
  <2> QED BY <2>3, <2>4, <2>5
<1>3. \A p \in text : p = <<p[1], p[2]>> /\ p[1] \in {"is", "bind", "param"}
  BY DEF InParts
<1> HIDE DEF part
<1>4. \A p \in text : part(p) = <<part(p)[1], part(p)[2]>> /\ part(p)[1] \in {"is", "bind"}
  BY <1>2, <1>3
<1>5. \A p \in text : part(p)[1] = "bind" <=> p[1] = "bind"
  BY <1>2, <1>3
<1>6. Bindings({part(p) : p \in text}) = Bindings(text)
  BY <1>2, <1>5 DEF Bindings
<1> QED BY <1>1, <1>4, <1>6 DEF Plain

(* The texts as one binding after the other is replaced.                   *)
After(values, n, u, order, text, m, f) ==
    f = [i \in 0..m |-> IF i = 0 THEN Substitute(values, n, text)
                        ELSE Replaced(values, n, u, f[i - 1], order[i])]

LEMMA AfterExists ==
    ASSUME NEW values, NEW n, NEW u, NEW order, NEW text, NEW m \in Nat
    PROVE  \E f : After(values, n, u, order, text, m, f)
<1> DEFINE is(j, f) == After(values, n, u, order, text, j, f)
           T == {j \in Nat : ~\E f : is(j, f)}
<1>1. T \in SUBSET Nat
  OBVIOUS
<1>2. ASSUME NEW x \in T, \A y \in T : x <= y PROVE FALSE
  <2> HIDE DEF T
  <2>1. x \in Nat /\ ~\E f : is(x, f)
    BY DEF T
  <2>2. CASE x = 0
    <3>1. is(0, [i \in 0..0 |-> Substitute(values, n, text)])
      BY DEF After
    <3> QED BY <2>1, <2>2, <3>1
  <2>3. CASE x # 0
    <3>1. x - 1 \in Nat /\ x - 1 \notin T
      BY <1>2, <2>1, <2>3
    <3>2. PICK g : is(x - 1, g)
      BY <3>1 DEF T
    <3>3. /\ DOMAIN g = 0..(x - 1)
          /\ \A i \in 0..(x - 1) : g[i] = IF i = 0 THEN Substitute(values, n, text)
                                          ELSE Replaced(values, n, u, g[i - 1], order[i])
      BY <3>2 DEF After
    <3> DEFINE h == [i \in 0..x |-> IF i = x THEN Replaced(values, n, u, g[x - 1], order[x]) ELSE g[i]]
    <3>4. /\ h = [i \in 0..x |-> h[i]]
          /\ \A i \in 0..x : h[i] = IF i = x THEN Replaced(values, n, u, g[x - 1], order[x]) ELSE g[i]
      OBVIOUS
    <3> HIDE DEF h
    <3>5. \A i \in 0..x : h[i] = IF i = 0 THEN Substitute(values, n, text)
                                ELSE Replaced(values, n, u, h[i - 1], order[i])
      <4> SUFFICES ASSUME NEW i \in 0..x
                   PROVE  h[i] = IF i = 0 THEN Substitute(values, n, text)
                                 ELSE Replaced(values, n, u, h[i - 1], order[i])
        OBVIOUS
      <4>1. CASE i = x
        <5>1. i - 1 \in 0..x /\ i - 1 # x
          BY <2>1, <2>3, <4>1
        <5>2. h[i - 1] = g[x - 1]
          BY <3>4, <4>1, <5>1
        <5> QED BY <2>3, <3>4, <4>1, <5>2
      <4>2. CASE i # x
        <5>1. i \in 0..(x - 1) /\ h[i] = g[i]
          BY <2>1, <3>4, <4>2
        <5>2. i # 0 => i - 1 \in 0..x /\ i - 1 # x
          BY <2>1
        <5>3. i # 0 => h[i - 1] = g[i - 1]
          BY <3>4, <5>2
        <5> QED BY <3>3, <5>1, <5>3
      <4> QED BY <4>1, <4>2
    <3>6. is(x, h)
      BY <3>4, <3>5 DEF After
    <3> QED BY <2>1, <3>6
  <2> QED BY <2>2, <2>3
<1>3. T = {}
  <2> HIDE DEF T
  <2> QED BY <1>1, <1>2, LeastOf
<1> QED BY <1>3

(* What is left when every binding was replaced: nothing to be resolved,   *)
(* and of the references to bindings, where none is to another, none.      *)
LEMMA BoundIs ==
    ASSUME NEW values, NEW n, NEW u, NEW text, IsFiniteSet(DOMAIN u.bind),
           NEW order \in Orders(DOMAIN u.bind),
           \A t \in {text} \cup {u.bind[k] : k \in DOMAIN u.bind} : InParts(t) /\ Valued(values, n, t)
    PROVE  /\ Plain(Bound(values, n, u, order, text))
           /\ ~Chained(u) =>
                Bindings(Bound(values, n, u, order, text)) \subseteq Bindings(text) \ DOMAIN u.bind
<1>1. /\ Len(order) \in Nat /\ \A i \in 1..Len(order) : order[i] \in DOMAIN u.bind
      /\ \A k \in DOMAIN u.bind : \E i \in 1..Len(order) : order[i] = k
  BY OrdersAll
<1>2. PICK f : /\ After(values, n, u, order, text, Len(order), f)
               /\ Bound(values, n, u, order, text) = f[Len(order)]
  <2>1. \E f : f = [i \in 0..Len(order) |-> IF i = 0 THEN Substitute(values, n, text)
                                         ELSE Replaced(values, n, u, f[i - 1], order[i])]
    <3>1. PICK f : After(values, n, u, order, text, Len(order), f)
      BY <1>1, AfterExists
    <3> QED BY <3>1 DEF After
  <2> QED BY <2>1 DEF Bound, After
<1>3. \A i \in 0..Len(order) : f[i] = IF i = 0 THEN Substitute(values, n, text)
                                     ELSE Replaced(values, n, u, f[i - 1], order[i])
  BY <1>2 DEF After
<1> DEFINE Holds(i) ==
             /\ Plain(f[i])
             /\ ~Chained(u) => Bindings(f[i]) \subseteq Bindings(text) \ {order[j] : j \in 1..i}
           T == {i \in Nat : i <= Len(order) /\ ~Holds(i)}
<1>4. Holds(0)
  <2>1. f[0] = Substitute(values, n, text)
    BY <1>1, <1>3
  <2>2. {order[j] : j \in 1..0} = {}
    OBVIOUS
  <2> QED BY <2>1, <2>2, SubstituteIs
<1>5. ASSUME NEW i \in 1..Len(order), Holds(i - 1) PROVE Holds(i)
  <2> DEFINE k == order[i]
             s == Substitute(values, n, u.bind[k])
             before == f[i - 1]
  <2>1. k \in DOMAIN u.bind /\ f[i] = Replaced(values, n, u, before, k)
    <3>1. i \in 0..Len(order) /\ i # 0
      BY <1>1
    <3>2. f[i] = Replaced(values, n, u, f[i - 1], order[i])
      BY <1>3, <3>1
    <3> QED BY <1>1, <3>2
  <2>2. Plain(s) /\ Bindings(s) = Bindings(u.bind[k])
    BY <2>1, SubstituteIs
  <2>3. ~Chained(u) => Bindings(s) = {}
    BY <2>1, <2>2 DEF Chained
  <2>4. {order[j] : j \in 1..i} = {order[j] : j \in 1..(i - 1)} \cup {k}
    <3>1. 1..i = 1..(i - 1) \cup {i}
      BY <1>1
    <3> QED BY <3>1
  <2>5. f[i] = IF <<"bind", k>> \in before THEN (before \ {<<"bind", k>>}) \cup s ELSE before
    BY <2>1 DEF Replaced
  <2> HIDE DEF k, s, before
  <2>6. /\ Plain(before)
        /\ ~Chained(u) => Bindings(before) \subseteq Bindings(text) \ {order[j] : j \in 1..(i - 1)}
    BY <1>5 DEF before
  <2>7. Plain(f[i])
    BY <2>2, <2>5, <2>6 DEF Plain
  <2>8. ASSUME ~Chained(u), NEW x \in Bindings(f[i]) PROVE x \in Bindings(before) /\ x # k
    <3>1. PICK p \in f[i] : p[1] = "bind" /\ p[2] = x
      BY <2>8 DEF Bindings
    <3>2. p \notin s
      BY <2>3, <2>8, <3>1 DEF Bindings
    <3>3. p \in before /\ p # <<"bind", k>>
      BY <2>5, <3>2, <3>1
    <3>4. p = <<"bind", x>>
      BY <2>6, <3>1, <3>3 DEF Plain
    <3> QED BY <3>1, <3>3, <3>4 DEF Bindings
  <2> QED BY <2>4, <2>7, <2>6, <2>8
<1>6. ASSUME NEW x \in T, \A y \in T : x <= y PROVE FALSE
  <2> HIDE DEF Holds
  <2>1. x \in Nat /\ x <= Len(order) /\ ~Holds(x) /\ x # 0
    BY <1>4
  <2>2. x - 1 \in Nat /\ x - 1 <= Len(order) /\ x - 1 \notin T
    <3> HIDE DEF T
    <3> QED BY <1>1, <1>6, <2>1
  <2>3. Holds(x - 1) /\ x \in 1..Len(order)
    BY <1>1, <2>1, <2>2
  <2> QED BY <1>5, <2>1, <2>3
<1>7. Holds(Len(order))
  <2>1. T \in SUBSET Nat
    OBVIOUS
  <2>2. T = {}
    <3> HIDE DEF T
    <3> QED BY <1>6, <2>1, LeastOf
  <2> HIDE DEF Holds
  <2> QED BY <1>1, <2>2
<1>8. {order[j] : j \in 1..Len(order)} = DOMAIN u.bind
  BY <1>1
<1> QED BY <1>2, <1>7, <1>8

(* What the phases found nothing in.                                       *)
LEMMA ShapePassed ==
    ASSUME NEW d, Shape(d) = {}
    PROVE  /\ PolicyShape(d.policy, "") = {}
           /\ \A n \in DOMAIN d.units : UnitShape(d.kind, n, d.units[n]) = {}
BY DEF Shape, Each

LEMMA JoinsPassed ==
    ASSUME NEW d, Joins(d) = {}
    PROVE  /\ \A n \in DOMAIN d.units : UnitJoins(d, n) = {}
           /\ \A c \in DOMAIN d.channels : ChannelJoins(d, c) = {}
BY DEF Joins, Each

LEMMA CrossPassed ==
    ASSUME NEW d, NEW manifests, CrossDocument(d, manifests) = {}, NEW n \in Plugins(d)
    PROVE  /\ d.units[n].plugin \in DOMAIN manifests
           /\ ManifestBindings(d, n, manifests[d.units[n].plugin].needs) = {}
<1> DEFINE id == d.units[n].plugin
<1>1. (IF id \notin DOMAIN manifests THEN {"plugin.manifest.missing"}
       ELSE Then(CheckManifest(manifests[id]), ManifestBindings(d, n, manifests[id].needs))) = {}
  BY DEF CrossDocument, Each
<1> QED BY <1>1 DEF Then

(* A unit of a kind has one program, and the digest of what is executed.   *)
LEMMA ProgramOf ==
    ASSUME NEW of \in {"descriptor", "composition"}, NEW n, NEW u,
           UnitShape(of, n, u) = {}
    PROVE  /\ u.kind \in Kinds
           /\ of = "composition" /\ u.kind = "plugin" => u.exec = "none" /\ u.image = "none"
           /\ of = "descriptor" \/ u.kind # "plugin" => ~(u.exec = "none" <=> u.image = "none")
           /\ of = "descriptor" /\ u.exec # "none" => u.digest \notin {"none", "bad", "refers", "structure"}
<1>1. /\ Where(u.kind = "none", "field.required") = {}
      /\ Where(u.kind \notin Kinds \cup {"none"}, "field.value") = {}
      /\ ProgramShape(of, u) = {} /\ DigestShape(of, u) = {}
  BY DEF UnitShape
<1>2. u.kind \in Kinds
  BY <1>1 DEF Where
<1>3. /\ Where(of = "composition" /\ u.kind = "plugin" /\ (u.exec # "none" \/ u.image # "none"),
               "unit.program.on_plugin") = {}
      /\ Where(u.kind \in Kinds /\ (u.kind # "plugin" \/ of = "descriptor")
                 /\ (u.exec = "none" <=> u.image = "none"), "unit.program.ambiguous") = {}
  BY <1>1 DEF ProgramShape
<1>4. of = "descriptor" => /\ Scalar(u.digest, "format.digest") = {}
                           /\ Where(u.digest = "none" /\ u.exec # "none", "unit.exec.no_digest") = {}
  BY <1>1 DEF DigestShape
<1> QED BY <1>2, <1>4, <1>3 DEF Where, Scalar

(* A figure that passed is in a format, and what is kept of one its        *)
(* integer holds is not negative.                                          *)
LEMMA PolicyPassed ==
    ASSUME NEW scope, NEW kind, Measured(scope), PolicyShape(scope, kind) = {},
           NEW f \in DOMAIN scope, f \in Figures, Fits(scope[f])
    PROVE  Parsed(scope[f]) >= 0
<1> DEFINE taken == Figures \cup (IF kind = "oneshot" THEN {"restart.on_failure"} ELSE {})
           Figure(x) ==
             IF x \notin taken THEN {"key.unknown"}
             ELSE Where(x \in Durations /\ ~InFormat(x, scope[x]), "format.duration")
                    \cup Where(x = "retention.bytes" /\ ~InFormat(x, scope[x]), "format.size")
                    \cup Where(x \in Tallies /\ ~InFormat(x, scope[x]), "field.type")
                    \cup Where(x = "restart.on_failure" /\ scope[x] \notin {<<0, "none">>, <<1, "none">>},
                               "field.type")
                    \cup Where(x = "heartbeat.tolerance" /\ scope[x] = <<0, "none">>, "field.value")
           w == scope[f]
<1>1. UNION {Figure(x) : x \in DOMAIN scope} = {}
  BY DEF PolicyShape, Each
<1>2. Figure(f) = {}
  BY <1>1
<1>3. f \in taken /\ f \in Durations \cup Tallies \cup {"retention.bytes"}
  BY DEF Figures
<1>4. InFormat(f, w)
  BY <1>2, <1>3 DEF Where
<1>5. w = <<w[1], w[2]>> /\ w[1] \in Int
  BY DEF Measured
<1> HIDE DEF Figure, taken, w
<1>6. w[1] >= 0 /\ w[2] \in {"s", "m", "h", "d", "KB", "MB", "GB", "none"}
  <2>1. Formats(f) \subseteq {"s", "m", "h", "d", "KB", "MB", "GB", "none"}
    BY DEF Formats
  <2> QED BY <1>4, <1>5, <2>1 DEF InFormat
<1>7. Measure[w[2]] \in Nat
  BY <1>6, GateAssumption DEF Measure
<1>8. PICK n \in Nat, m \in Nat : Product(w) = n * m
  <2>1. Largest \in Nat
    BY GateAssumption DEF Largest
  <2> QED BY <1>5, <1>6, <1>7, <2>1 DEF Product
<1>9. Product(w) \in Nat
  <2>1. n * m \in Nat
    OBVIOUS
  <2> QED BY <1>8, <2>1
<1>10. Product(w) % Word = Product(w)
  <2>1. Product(w) < Word
    BY <1>9, GateAssumption DEF Fits, w
  <2> QED BY <1>9, <2>1, GateAssumption
<1> QED BY <1>9, <1>10 DEF Parsed, Fits, w

LEMMA FiguresOf ==
    ASSUME NEW d, Written(d), Shape(d) = {}, NEW n \in DOMAIN d.units, NEW f \in Figures,
           \A scope \in {d.policy, d.units[n].policy} : f \in DOMAIN scope => Fits(scope[f])
    PROVE  Deployment(d).units[n].policy[f] >= 0
<1> DEFINE u == d.units[n]
<1>1. Deployment(d).units[n].policy = Overriding(u.policy, Overriding(d.policy, Defaults))
  BY DEF Deployment
<1>2. PolicyShape(d.policy, "") = {} /\ PolicyShape(u.policy, u.kind) = {}
  BY ShapePassed DEF UnitShape
<1>3. Measured(d.policy) /\ Measured(u.policy)
  BY DEF Written
<1>4. Defaults[f] >= 0
  BY GateAssumption DEF Defaults, Figures, Durations, Tallies
<1>5. Overriding(d.policy, Defaults)[f] >= 0
  BY <1>2, <1>3, <1>4, PolicyPassed DEF Overriding
<1>6. Overriding(u.policy, Overriding(d.policy, Defaults))[f] >= 0
  BY <1>2, <1>3, <1>5, PolicyPassed DEF Overriding
<1> QED BY <1>1, <1>6

(* What a unit refers to is bound, or derived of a need, or declared; and  *)
(* what it needs of a device it binds.                                     *)
LEMMA TextsResolve ==
    ASSUME NEW d, NEW manifests, Joins(d) = {}, CrossDocument(d, manifests) = {}, NEW n \in DOMAIN d.units
    PROVE  /\ \A p \in Texts(d.units[n]) : Resolves(d, n, NeedsOf(d, n, manifests), p)
           /\ \A need \in NeedsOf(d, n, manifests) :
                need.class = "device" => Key(need) \in DOMAIN d.units[n].bind
<1> DEFINE u == d.units[n]
<1>1. CASE u.kind = "plugin"
  <2>1. n \in Plugins(d)
    BY <1>1 DEF Plugins
  <2>2. /\ u.plugin \in DOMAIN manifests
        /\ ManifestBindings(d, n, manifests[u.plugin].needs) = {}
    BY <2>1, CrossPassed
  <2>3. NeedsOf(d, n, manifests) = manifests[u.plugin].needs
    BY <1>1, <2>2 DEF NeedsOf
  <2>4. Unbound(u, manifests[u.plugin].needs) = {} /\ Unresolved(d, n, manifests[u.plugin].needs, Texts(u)) = {}
    BY <2>2 DEF ManifestBindings
  <2> QED BY <2>3, <2>4 DEF Unbound, Unresolved, Where
<1>2. CASE u.kind # "plugin"
  <2>1. NeedsOf(d, n, manifests) = u.needs
    BY <1>2 DEF NeedsOf
  <2>2. UnitJoins(d, n) = {}
    BY JoinsPassed
  <2>3. Unbound(u, u.needs) = {} /\ Unresolved(d, n, u.needs, Texts(u)) = {}
    BY <1>2, <2>2 DEF UnitJoins
  <2> QED BY <2>1, <2>3 DEF Unbound, Unresolved, Where
<1> QED BY <1>1, <1>2

(* The values a start has: a descriptor's parameters each have one.        *)
AllValued(d, values) == d.kind = "descriptor" => DOMAIN values = DOMAIN d.parameters

(* A text that has nothing left in it to be resolved.                      *)
Settled(text) == Parameters(text) = {} /\ Missing \notin text

LEMMA TextWhole ==
    ASSUME NEW d, NEW manifests, Written(d), Joins(d) = {}, CrossDocument(d, manifests) = {},
           NEW n \in DOMAIN d.units, NEW values, AllValued(d, values),
           NEW order \in Orders(DOMAIN d.units[n].bind),
           NEW text, text = d.units[n].texts \/ \E k \in DOMAIN d.units[n].bind : text = d.units[n].bind[k]
    PROVE  LET r == Resolved(values, n, d.units[n], NeedsOf(d, n, manifests), order, text) IN
           Settled(r) /\ (Bindings(r) # {} => Chained(d.units[n]))
<1> DEFINE u == d.units[n]
           needs == NeedsOf(d, n, manifests)
           derived == {Key(need) : need \in {x \in needs : Materialised(x)}}
           bound == Bound(values, n, u, order, text)
           all == {text} \cup {u.bind[k] : k \in DOMAIN u.bind}
           to(p) == IF p[1] = "bind" /\ p[2] \in derived THEN <<"derived", p[2]>> ELSE p
<1>1. IsFiniteSet(DOMAIN u.bind) /\ InParts(Texts(u))
  BY DEF Written
<1>2. \A t \in all : \A p \in t : p \in Texts(u)
  BY DEF Texts
<1>3. \A p \in Texts(u) : Resolves(d, n, needs, p)
  BY TextsResolve
<1> HIDE DEF u, needs
<1>4. \A t \in all : InParts(t)
  BY <1>1, <1>2 DEF InParts
<1>5. ASSUME NEW t \in all PROVE Valued(values, n, t)
  <2> SUFFICES ASSUME NEW x \in Parameters(t)
               PROVE  <<n, x>> \in DOMAIN values \/ <<"shared", x>> \in DOMAIN values
    BY DEF Valued
  <2>1. PICK p \in t : p[1] = "param" /\ p[2] = x
    BY DEF Parameters
  <2>2. Declared(d, n, x)
    BY <1>2, <1>3, <2>1 DEF Resolves
  <2> QED BY <2>2 DEF Declared, AllValued
<1>6. Plain(bound) /\ (~Chained(u) => Bindings(bound) \subseteq Bindings(text) \ DOMAIN u.bind)
  <2>1. order \in Orders(DOMAIN u.bind)
    BY DEF u
  <2> QED BY <1>1, <1>4, <1>5, <2>1, BoundIs
<1>7. Resolved(values, n, u, needs, order, text) = {to(p) : p \in bound}
  BY DEF Resolved
<1> HIDE DEF bound
<1>8. ASSUME NEW p \in bound
      PROVE  /\ to(p)[1] \in {"is", "bind", "derived"}
             /\ to(p)[1] = "bind" => to(p) = p /\ p[2] \notin derived
  <2> HIDE DEF derived
  <2>1. p[1] \in {"is", "bind"}
    BY <1>6 DEF Plain
  <2>2. to(p) = IF p[1] = "bind" /\ p[2] \in derived THEN <<"derived", p[2]>> ELSE p
    OBVIOUS
  <2> HIDE DEF to
  <2> QED BY <2>1, <2>2
<1>9. Settled({to(p) : p \in bound})
  <2>1. ASSUME NEW q \in {to(p) : p \in bound} PROVE q[1] \in {"is", "bind", "derived"}
    <3> HIDE DEF to
    <3>1. PICK p \in bound : q = to(p)
      OBVIOUS
    <3>2. to(p)[1] \in {"is", "bind", "derived"}
      BY <1>8
    <3> QED BY <3>1, <3>2
  <2>2. Missing[1] = "nothing"
    BY DEF Missing
  <2> HIDE DEF to
  <2> QED BY <2>1, <2>2 DEF Settled, Parameters
<1>10. ASSUME NEW x \in Bindings({to(p) : p \in bound}), ~Chained(u) PROVE FALSE
  <2>1. x \in Bindings(bound) /\ x \notin derived
    BY <1>8, <1>10 DEF Bindings
  <2>2. x \in Bindings(text) /\ x \notin DOMAIN u.bind
    BY <1>6, <1>10, <2>1
  <2>3. PICK p \in text : p[1] = "bind" /\ p[2] = x
    BY <2>2 DEF Bindings
  <2>4. Resolves(d, n, needs, p)
    BY <1>2, <1>3
  <2>5. p[2] \in DOMAIN u.bind \cup derived
    BY <2>3, <2>4 DEF Resolves, u
  <2> QED BY <2>1, <2>3, <2>2, <2>5
<1> QED BY <1>7, <1>9, <1>10 DEF u, needs

(* A path of a need is of what binds it, derived, or none.                 *)
LEMMA PathWhole ==
    ASSUME NEW d, NEW manifests, Written(d), Joins(d) = {}, CrossDocument(d, manifests) = {},
           NEW n \in DOMAIN d.units, NEW values, AllValued(d, values),
           NEW order \in Orders(DOMAIN d.units[n].bind), NEW need \in NeedsOf(d, n, manifests)
    PROVE  LET path == NeedFor(values, n, d.units[n], NeedsOf(d, n, manifests), order, need).path IN
           Settled(path) /\ (Bindings(path) # {} => Chained(d.units[n]))
<1> DEFINE u == d.units[n]
           needs == NeedsOf(d, n, manifests)
           path == NeedFor(values, n, u, needs, order, need).path
<1>1. CASE need.class = "device"
  <2>1. Key(need) \in DOMAIN u.bind
    BY <1>1, TextsResolve
  <2>2. path = Resolved(values, n, u, needs, order, u.bind[Key(need)])
    BY <1>1, <2>1 DEF NeedFor, Materialised
  <2> QED BY <2>1, <2>2, TextWhole
<1>2. CASE Materialised(need)
  <2>1. path = {<<"derived", Key(need)>>}
    BY <1>2 DEF NeedFor, Materialised
  <2> QED BY <2>1 DEF Settled, Parameters, Bindings, Missing
<1>3. CASE need.class # "device" /\ ~Materialised(need)
  <2>1. path = {}
    BY <1>3 DEF NeedFor
  <2> QED BY <2>1 DEF Settled, Parameters, Bindings
<1> QED BY <1>1, <1>2, <1>3

(* One program: what is executed, or the image.                            *)
Programs(d, n) ==
    {<<"exec", x>> : x \in IF NamesProgram(d, n) THEN {n} ELSE {}}
      \cup {<<"image", x>> : x \in {d.units[n].image} \ {"none"}}

LEMMA OneProgram ==
    ASSUME NEW d, d.kind \in {"descriptor", "composition"}, Shape(d) = {}, NEW n \in DOMAIN d.units
    PROVE  /\ Cardinality(Programs(d, n)) = 1
           /\ d.kind = "descriptor" /\ Programs(d, n) = {<<"exec", n>>} =>
                d.units[n].digest \notin {"none", "bad", "refers", "structure"}
<1> DEFINE u == d.units[n]
<1>1. /\ u.kind \in Kinds
      /\ d.kind = "composition" /\ u.kind = "plugin" => u.exec = "none" /\ u.image = "none"
      /\ d.kind = "descriptor" \/ u.kind # "plugin" => ~(u.exec = "none" <=> u.image = "none")
      /\ d.kind = "descriptor" /\ u.exec # "none" => u.digest \notin {"none", "bad", "refers", "structure"}
  BY ShapePassed, ProgramOf
<1>2. NamesProgram(d, n) <=> u.exec # "none" \/ (d.kind = "composition" /\ u.kind = "plugin")
  BY DEF NamesProgram
<1>3. CASE NamesProgram(d, n)
  <2>1. u.image = "none"
    BY <1>1, <1>2, <1>3
  <2>2. Programs(d, n) = {<<"exec", n>>}
    BY <1>3, <2>1 DEF Programs
  <2>3. Cardinality({<<"exec", n>>}) = 1
    BY FS_Singleton
  <2>4. Cardinality(Programs(d, n)) = 1
    BY <2>2, <2>3
  <2>5. d.kind = "descriptor" => u.exec # "none"
    BY <1>2, <1>3
  <2> QED BY <1>1, <2>4, <2>5
<1>4. CASE ~NamesProgram(d, n)
  <2>1. u.image # "none"
    BY <1>1, <1>2, <1>4
  <2>2. Programs(d, n) = {<<"image", u.image>>}
    BY <1>4, <2>1 DEF Programs
  <2>3. Cardinality({<<"image", u.image>>}) = 1
    BY FS_Singleton
  <2>4. {<<"image", u.image>>} # {<<"exec", n>>}
    <3>1. <<"image", u.image>>[1] # <<"exec", n>>[1]
      OBVIOUS
    <3> QED BY <3>1
  <2>5. Cardinality(Programs(d, n)) = 1 /\ Programs(d, n) # {<<"exec", n>>}
    BY <2>2, <2>3, <2>4
  <2> QED BY <2>5
<1> QED BY <1>3, <1>4

(* What is handed to a unit, of what a gate passed and of Manifests read   *)
(* alike by the gate and the scan.                                         *)
Handed(d, n, unit) ==
    /\ n \in DOMAIN d.units /\ unit.kind \in Kinds /\ Cardinality(unit.program) = 1
    /\ d.kind = "descriptor" /\ unit.program = {<<"exec", n>>} => unit.digest = "good"
    /\ \A x \in unit.dependsOn : x \in DOMAIN d.units /\ d.units[x].kind # "interface"
    /\ \A f \in Figures :
         unit.policy[f] >= 0
           \/ \E scope \in {d.policy, d.units[n].policy} : f \in DOMAIN scope /\ ~Fits(scope[f])
    /\ \A text \in {unit.texts} \cup {need.path : need \in unit.needs} :
         Settled(text) /\ (Bindings(text) # {} => Chained(d.units[n]))

LEMMA UnitsHanded ==
    ASSUME NEW d, NEW manifests, NEW scanned, NEW values, NEW order,
           Written(d), d.kind \in {"descriptor", "composition"}, PassedItself(d, manifests),
           AllValued(d, values),
           \A n \in Plugins(d) : LET p == d.units[n].plugin IN
              p \in DOMAIN scanned /\ scanned[p] = manifests[p],
           \A n \in DOMAIN d.units : order[n] \in Orders(DOMAIN d.units[n].bind),
           NEW n \in DOMAIN UnitsOf(d, scanned, values, order)
    PROVE  Handed(d, n, UnitsOf(d, scanned, values, order)[n])
<1> DEFINE u == d.units[n]
           scans == IF u.kind = "plugin" /\ u.plugin \in DOMAIN scanned THEN scanned[u.plugin].needs
                    ELSE u.needs
           needs == NeedsOf(d, n, manifests)
           unit == [kind      |-> u.kind,
                    program   |-> Programs(d, n),
                    texts     |-> Resolved(values, n, u, needs, order[n], u.texts),
                    needs     |-> {NeedFor(values, n, u, needs, order[n], need) : need \in needs},
                    digest    |-> u.digest,
                    dependsOn |-> u.dependsOn,
                    policy    |-> Deployment(d).units[n].policy]
<1>1. Shape(d) = {} /\ Joins(d) = {} /\ CrossDocument(d, manifests) = {}
  BY DEF PassedItself
<1>2. n \in DOMAIN d.units
  BY DEF UnitsOf
<1>3. scans = needs
  <2>1. CASE u.kind = "plugin"
    <3>1. n \in Plugins(d)
      BY <1>2, <2>1 DEF Plugins
    <3>2. /\ u.plugin \in DOMAIN scanned /\ scanned[u.plugin] = manifests[u.plugin]
          /\ u.plugin \in DOMAIN manifests
      BY <1>1, <3>1, CrossPassed
    <3> QED BY <2>1, <3>2 DEF NeedsOf
  <2> QED BY <2>1 DEF NeedsOf
<1>4. UnitsOf(d, scanned, values, order)[n] = unit
  <2>1. UnitsOf(d, scanned, values, order)[n] =
          [kind      |-> u.kind,
           program   |-> Programs(d, n),
           texts     |-> Resolved(values, n, u, scans, order[n], u.texts),
           needs     |-> {NeedFor(values, n, u, scans, order[n], need) : need \in scans},
           digest    |-> u.digest,
           dependsOn |-> u.dependsOn,
           policy    |-> Deployment(d).units[n].policy]
    BY DEF UnitsOf, Programs
  <2> HIDE DEF scans, needs
  <2> QED BY <1>3, <2>1
<1>5. u.kind \in Kinds
  BY <1>1, <1>2, ShapePassed, ProgramOf
<1>6. /\ Cardinality(Programs(d, n)) = 1
      /\ d.kind = "descriptor" /\ Programs(d, n) = {<<"exec", n>>} => u.digest = "good"
  <2>1. u.digest \in {"none", "good", "bad", "refers", "structure"}
    BY <1>2 DEF Written
  <2> QED BY <1>1, <1>2, <2>1, OneProgram
<1>7. \A x \in u.dependsOn : x \in DOMAIN d.units /\ d.units[x].kind # "interface"
  <2>1. UnitJoins(d, n) = {}
    BY <1>1, <1>2, JoinsPassed
  <2>2. /\ Where(~ u.dependsOn \subseteq DOMAIN d.units, "depends_on.unknown") = {}
        /\ Where(\E x \in u.dependsOn \cap DOMAIN d.units : d.units[x].kind = "interface",
                 "depends_on.interface") = {}
    BY <2>1 DEF UnitJoins
  <2> QED BY <2>2 DEF Where
<1>8. \A f \in Figures :
         Deployment(d).units[n].policy[f] >= 0
           \/ \E scope \in {d.policy, u.policy} : f \in DOMAIN scope /\ ~Fits(scope[f])
  BY <1>1, <1>2, FiguresOf
<1>9. order[n] \in Orders(DOMAIN u.bind)
  BY <1>2
<1>10. LET r == Resolved(values, n, u, needs, order[n], u.texts) IN
       Settled(r) /\ (Bindings(r) # {} => Chained(u))
  BY <1>1, <1>2, <1>9, TextWhole
<1>11. ASSUME NEW need \in needs
       PROVE  LET path == NeedFor(values, n, u, needs, order[n], need).path IN
              Settled(path) /\ (Bindings(path) # {} => Chained(u))
  BY <1>1, <1>2, <1>9, PathWhole
<1> HIDE DEF needs
<1>12. \A text \in {unit.texts} \cup {need.path : need \in unit.needs} :
         Settled(text) /\ (Bindings(text) # {} => Chained(u))
  BY <1>10, <1>11
<1> QED BY <1>2, <1>5, <1>4, <1>6, <1>8, <1>7, <1>12 DEF Handed

(* A port is substituted as it is declared; a composition's refers to none. *)
LEMMA PortWhole ==
    ASSUME NEW d, Written(d), Joins(d) = {}, NEW values, AllValued(d, values), NEW c \in DOMAIN d.channels
    PROVE  /\ Settled(Substitute(values, c, d.channels[c].address.port))
           /\ Bindings(Substitute(values, c, d.channels[c].address.port)) = {}
           /\ Bindings(d.channels[c].address.port) = {}
           /\ d.kind = "composition" => Settled(d.channels[c].address.port)
<1> DEFINE port == d.channels[c].address.port
<1>1. InParts(port)
  BY DEF Written
<1>2. Bindings(port) = {} /\ (\A x \in Parameters(port) : Declared(d, c, x))
  BY JoinsPassed DEF ChannelJoins, Where
<1>3. Valued(values, c, port) /\ (d.kind = "composition" => Parameters(port) = {})
  BY <1>2 DEF Valued, Declared, AllValued
<1> HIDE DEF port
<1>4. Missing[1] = "nothing"
  BY DEF Missing
<1>5. Plain(Substitute(values, c, port)) /\ Bindings(Substitute(values, c, port)) = {}
  BY <1>1, <1>2, <1>3, SubstituteIs
<1>6. Settled(Substitute(values, c, port))
  BY <1>4, <1>5 DEF Settled, Parameters, Plain
<1> QED BY <1>1, <1>2, <1>4, <1>3, <1>6, <1>5 DEF Settled, InParts, port

(* Values that none is refused of are of every parameter.                  *)
LEMMA ValuesOfAll ==
    ASSUME NEW d, NEW supplied, NEW host, ValuesRefused(d, supplied, host) = {}
    PROVE  AllValued(d, Values(d, supplied, host))
<1>1. /\ \A k \in DOMAIN d.parameters : Supplied(d, supplied, k) # {}
      /\ \A k \in DOMAIN d.parameters : Supplied(d, supplied, k) # {} => Taken(d, supplied, k, host)
  BY DEF ValuesRefused, Where
<1>2. {k \in DOMAIN d.parameters : Taken(d, supplied, k, host)} = DOMAIN d.parameters
  BY <1>1
<1> QED BY <1>2 DEF AllValued, Values

(* What a Core has of its document, as far as it came; what it launched is *)
(* whole, and it came to the end of its start.                             *)
Built(c) ==
    /\ Under(c) => c.at \in AllPlaces
    /\ c.phase = "executed" => form = "application"
    /\ c.phase = "described" /\ form = "application" => Written(c.document) /\ c.document.kind = "descriptor"
    /\ c.phase \in {"composed", "scanned"} =>
         /\ Written(c.document) /\ c.document.kind = KindOf(form)
         /\ c.found = {} => PassedItself(c.document, c.read)
    /\ c.phase = "scanned" => {"document", "read", "scanned"} \subseteq DOMAIN c

BuiltInv ==
    /\ Built(core) /\ LaunchedWhole
    /\ launched # NothingLaunched => core.phase = "declared"

LEMMA InitBuilt == DeclarationsInit => BuiltInv
<1>1. DeclarationsInit => core.phase = "none" /\ launched = NothingLaunched
  BY DEF DeclarationsInit, NoCore
<1> QED BY <1>1 DEF BuiltInv, Built, LaunchedWhole, Under

(* A step of a Core that has launched nothing, and launches nothing.       *)
LEMMA UnlaunchedBuilt ==
    ASSUME BuiltInv, UNCHANGED form, core.phase # "declared" \/ launched' = NothingLaunched,
           launched' \in {launched, NothingLaunched}, NEW c, core' = c, Built(c)
    PROVE  BuiltInv'
<1>1. launched' = NothingLaunched
  BY DEF BuiltInv
<1>2. Built(core)'
  BY DEF Built
<1> QED BY <1>1, <1>2 DEF BuiltInv, LaunchedWhole

LEMMA DeclareBuilt ==
    ASSUME GatesInv, BuiltInv, Declare
    PROVE  BuiltInv'
<1> DEFINE d == core.document
           values == IF form = "application" THEN Values(d, core.values, Host({}, 0)) ELSE NoValues
           refused == Then(core.found,
                           IF form = "application" THEN ValuesRefused(d, core.values, Host({}, 0)) ELSE {})
           ports == [c \in DOMAIN d.channels |->
                       IF form = "application" THEN Substitute(values, c, d.channels[c].address.port)
                       ELSE d.channels[c].address.port]
           settled == [core EXCEPT !.phase = "declared"]
<1>1. core.phase = "scanned" /\ UNCHANGED form /\ "phase" \in DOMAIN core
  BY DEF Declare, GatesInv, PlacesKept
<1>2. settled.phase = "declared" /\ (\A x \in DOMAIN core \ {"phase"} : settled[x] = core[x])
  BY <1>1
<1>3. Built(NoCore)
  BY DEF Built, NoCore, Under
<1>4. Built(settled)
  BY <1>2 DEF Built, Under
<1>5. CASE refused # {}
  <2>1. core' \in {NoCore, settled} /\ UNCHANGED launched
    BY <1>5 DEF Declare
  <2> HIDE DEF settled
  <2>2. PICK c : c = core' /\ Built(c)
    BY <1>3, <1>4, <2>1
  <2> QED BY <1>1, <2>1, <2>2, UnlaunchedBuilt
<1>6. CASE refused = {}
  <2>1. PICK order : /\ \A n \in DOMAIN d.units : order[n] \in Orders(DOMAIN d.units[n].bind)
                     /\ launched' = [units |-> UnitsOf(d, core.scanned, values, order), ports |-> ports]
    BY <1>6 DEF Declare
  <2>2. core' = settled
    BY <1>6 DEF Declare
  <2>3. core.found = {} /\ (form = "application" => ValuesRefused(d, core.values, Host({}, 0)) = {})
    BY <1>6 DEF Then
  <2>4. /\ Written(d) /\ d.kind = KindOf(form) /\ PassedItself(d, core.read)
        /\ {"document", "read", "scanned"} \subseteq DOMAIN core
    BY <1>1, <2>3 DEF BuiltInv, Built
  <2>5. d.kind \in {"descriptor", "composition"} /\ (d.kind = "descriptor" <=> form = "application")
    BY <2>4 DEF KindOf
  <2>6. AllValued(d, values)
    <3>1. CASE form = "application"
      BY <2>3, <3>1, ValuesOfAll
    <3>2. CASE form # "application"
      BY <2>5, <3>2 DEF AllValued
    <3> QED BY <3>1, <3>2
  <2> HIDE DEF values, settled, refused
  <2>7. /\ core'.phase = "declared" /\ core'.document = d
        /\ core'.scanned = core.scanned /\ core'.read = core.read
    BY <1>2, <2>2, <2>4
  <2>8. launched'.units = UnitsOf(d, core.scanned, values, order) /\ launched'.ports = ports
    BY <2>1
  <2>9. ASSUME Agreed', NEW n \in DOMAIN launched'.units PROVE Whole(n, launched.units[n])'
    <3>1. \A m \in Plugins(d) : LET p == d.units[m].plugin IN
             p \in DOMAIN core.scanned /\ core.scanned[p] = core.read[p]
      BY <2>7, <2>9 DEF Agreed
    <3>2. Handed(d, n, launched'.units[n])
      BY <2>1, <2>5, <2>4, <2>6, <2>8, <2>9, <3>1, UnitsHanded
    <3>3. form' = "application" => d.kind = "descriptor"
      BY <1>1, <2>5
    <3> QED BY <2>7, <3>2, <3>3 DEF Handed, Whole, Settled
  <2>10. ASSUME NEW c \in DOMAIN launched'.ports
         PROVE  ~HasReference(launched'.ports[c]) /\ Missing \notin launched'.ports[c]
    <3>1. c \in DOMAIN d.channels
      BY <2>8, <2>10
    <3>2. launched'.ports[c] = IF form = "application" THEN Substitute(values, c, d.channels[c].address.port)
                               ELSE d.channels[c].address.port
      BY <2>8, <3>1
    <3>3. Joins(d) = {}
      BY <2>4 DEF PassedItself
    <3> QED BY <2>4, <2>5, <2>6, <3>1, <3>2, <3>3, PortWhole DEF Settled, HasReference
  <2>11. LaunchedWhole'
    BY <2>9, <2>10 DEF LaunchedWhole
  <2>12. Built(core)'
    <3>1. PICK c : c = core' /\ c.phase = "declared"
      BY <2>7
    <3> QED BY <3>1 DEF Built, Under
  <2> QED BY <2>7, <2>11, <2>12 DEF BuiltInv
<1> QED BY <1>5, <1>6

(* The guardian, and the Core until it has scanned.                        *)
LEMMA StartingBuilt ==
    ASSUME GatesInv, BuiltInv, Execute \/ Boot \/ Describe \/ Compose \/ Scan
    PROVE  BuiltInv'
<1>1. UNCHANGED <<form, files, launched>> /\ PlacesKept
  BY DEF Execute, Boot, Describe, Compose, Scan, GatesInv
<1>2. \A p \in AllPlaces : Written(files[p].document) /\ files[p].document.kind = KindOf(form)
  BY <1>1 DEF PlacesKept
<1>3. Built(NoCore) /\ Built(core)
  BY DEF Built, NoCore, Under, BuiltInv
<1>4. core.phase # "declared"
  BY DEF Execute, Boot, Describe, Compose, Scan, NoCore
<1>5. ASSUME NEW c, core' = c, Built(c) PROVE BuiltInv'
  BY <1>1, <1>4, <1>5, UnlaunchedBuilt
<1>6. CASE Execute
  <2>1. record # NoRecord /\ form = "application" /\ record.at \in AllPlaces
    BY <1>1, <1>6 DEF Execute, PlacesKept
  <2> DEFINE vs == Values(files[record.at].document, record.values, Host({}, 0))
  <2>2. \/ UNCHANGED core
        \/ core' = [phase |-> "executed", at |-> record.at, values |-> vs]
    BY <1>6 DEF Execute
  <2> HIDE DEF vs
  <2>3. PICK c : c = core'
    OBVIOUS
  <2>4. CASE c = core
    BY <1>3, <1>5, <2>3, <2>4
  <2>5. CASE c # core
    <3>1. c.phase = "executed" /\ c.at = record.at
      BY <2>2, <2>3, <2>5
    <3>2. Built(c)
      BY <2>1, <3>1 DEF Built
    <3> QED BY <1>5, <2>3, <3>2
  <2> QED BY <2>4, <2>5
<1>7. CASE Boot
  <2>1. PICK c : /\ c = core'
                 /\ c = [phase |-> "described", at |-> "site", values |-> NoValues, document |-> "unread"]
    BY <1>7 DEF Boot
  <2>2. form = "service" /\ c.phase = "described" /\ c.at \in AllPlaces
    BY <1>7, <2>1 DEF Boot, AllPlaces
  <2>3. Built(c)
    BY <2>2 DEF Built
  <2> QED BY <1>5, <2>1, <2>3
<1>8. CASE Describe
  <2>1. core.phase = "executed" /\ form = "application" /\ core.at \in AllPlaces
    BY <1>3, <1>8 DEF Describe, Built, Under
  <2>2. \/ core' = NoCore
        \/ core' = [phase |-> "described", at |-> core.at, values |-> Invoked(core.values),
                    document |-> files[core.at].document]
    BY <1>8 DEF Describe
  <2>3. PICK c : c = core'
    OBVIOUS
  <2>4. CASE c = NoCore
    BY <1>3, <1>5, <2>3, <2>4
  <2>5. CASE c # NoCore
    <3>1. c.phase = "described" /\ c.at = core.at /\ c.document = files[core.at].document
      BY <2>2, <2>3, <2>5
    <3>2. Built(c)
      BY <1>2, <2>1, <3>1 DEF Built, KindOf
    <3> QED BY <1>5, <2>3, <3>2
  <2> QED BY <2>4, <2>5
<1>9. CASE Compose
  <2> DEFINE d == IF form = "application" THEN core.document ELSE files["site"].document
             asked == IF form = "application" THEN {"arch", "core", "runtime", "authentication", "engine"}
                      ELSE {"authentication", "engine"}
  <2>1. PICK found : found = Check(d, files[core.at].manifests, "starting", Host(asked, 0))
    OBVIOUS
  <2>2. core.phase = "described" /\ core.at \in AllPlaces
    BY <1>3, <1>9 DEF Compose, Built, Under
  <2>3. \/ core' = NoCore
        \/ core' = [phase |-> "composed", at |-> core.at, values |-> core.values, document |-> d,
                    found |-> found, read |-> files[core.at].manifests]
    BY <1>9, <2>1 DEF Compose
  <2>4. Written(d) /\ d.kind = KindOf(form)
    <3>1. "site" \in AllPlaces
      BY DEF AllPlaces
    <3> QED BY <1>2, <1>3, <2>2, <3>1 DEF Built, KindOf
  <2>5. found = {} => PassedItself(d, files[core.at].manifests)
    BY <2>1, CheckPassed
  <2> HIDE DEF d
  <2>6. PICK c : c = core'
    OBVIOUS
  <2>7. CASE c = NoCore
    BY <1>3, <2>6, <1>5, <2>7
  <2>8. CASE c # NoCore
    <3>1. /\ c.phase = "composed" /\ c.at = core.at /\ c.document = d /\ c.found = found
          /\ c.read = files[core.at].manifests
      BY <2>3, <2>6, <2>8
    <3>2. Built(c)
      BY <2>2, <2>4, <2>5, <3>1 DEF Built
    <3> QED BY <1>5, <2>6, <3>2
  <2> QED BY <2>7, <2>8
<1>10. CASE Scan
  <2> DEFINE manifests == files[core.at].manifests
             passing == [p \in {p \in DOMAIN manifests : CheckManifest(manifests[p]) = {}} |-> manifests[p]]
  <2>1. core.phase \in {"composed", "scanned"} /\ core.at \in AllPlaces
    BY <1>3, <1>10 DEF Scan, Built, Under
  <2>2. core' = [phase |-> "scanned", at |-> core.at, values |-> core.values,
                 document |-> core.document, found |-> core.found, read |-> core.read,
                 scanned |-> passing]
    BY <1>10 DEF Scan
  <2> HIDE DEF passing
  <2>3. PICK c : c = core'
    OBVIOUS
  <2>4. /\ c.phase = "scanned" /\ c.at = core.at /\ c.document = core.document /\ c.found = core.found
        /\ c.read = core.read /\ {"document", "read", "scanned"} \subseteq DOMAIN c
    BY <2>2, <2>3
  <2>5. Built(c)
    BY <1>3, <2>1, <2>4 DEF Built
  <2> QED BY <1>5, <2>3, <2>5
<1> QED BY <1>6, <1>8, <1>7, <1>9, <1>10

(* The records, and what others do, leave the Core as it is.               *)
LEMMA CoreAsBuilt ==
    ASSUME BuiltInv, UNCHANGED <<form, core, launched>>
    PROVE  BuiltInv'
BY DEF BuiltInv, Built, LaunchedWhole, Agreed, Whole

(* What is launched of a document the gate passed (gate.Check), with the   *)
(* values it took (gate.Values) and Manifests the gate and the scan read   *)
(* alike, is whole, for every document, every host and every order in      *)
(* which a mapping yields a unit's bindings (trunk.go, discovery.go).      *)
THEOREM LaunchesWhole == DeclarationsSpec => []LaunchedWhole
<1>1. GatesInv /\ BuiltInv /\ [DeclarationsNext]_declarationVars => BuiltInv'
  <2> SUFFICES ASSUME GatesInv, BuiltInv, [DeclarationsNext]_declarationVars PROVE BuiltInv'
    OBVIOUS
  <2>1. CASE \/ \E v \in Versions, s \in Settings, named \in BOOLEAN : Create(v, s, named)
             \/ Ephemeral
             \/ \E v \in Versions : SetVersion(v)
             \/ \E s \in Settings : \E k \in DOMAIN s : SetParam(k, s[k])
             \/ \E p \in AllPlaces, b \in Drafts : Edit(p, b)
             \/ \E l \in HostStates : HostChanges(l)
             \/ UNCHANGED declarationVars
    <3>1. UNCHANGED <<form, core, launched>>
      BY <2>1 DEF Create, Ephemeral, SetVersion, SetParam, Edit, HostChanges, declarationVars
    <3> QED BY <3>1, CoreAsBuilt
  <2>2. CASE Execute \/ Boot \/ Describe \/ Compose \/ Scan
    BY <2>2, StartingBuilt
  <2>3. CASE Declare
    BY <2>3, DeclareBuilt
  <2>4. CASE Ends
    <3>1. core' = NoCore /\ launched' = NothingLaunched /\ UNCHANGED form
      BY <2>4 DEF Ends
    <3>2. Built(NoCore)
      BY DEF Built, NoCore, Under
    <3> QED BY <3>1, <3>2, UnlaunchedBuilt
  <2> QED BY <2>1, <2>3, <2>2, <2>4 DEF DeclarationsNext
<1>2. BuiltInv => LaunchedWhole
  BY DEF BuiltInv
<1> QED BY GatesInvariant, InitBuilt, <1>1, <1>2, PTL DEF DeclarationsSpec

==================================================================================
