-------------------------------- MODULE Authority --------------------------------
(***************************************************************************)
(* What a plugin may do: the scans that read its Manifest and declare it   *)
(* (internal/core/discovery, internal/gate/manifest.go), the Registry that *)
(* keeps what operators decided (internal/core/registry), the operations   *)
(* that decide it (internal/core/admin/operations.go), and the             *)
(* registrations that give a Session its scope (internal/core/admission).  *)
(* They meet in the Registry, a database every access to which is a step,  *)
(* and in the Manifest the last scan read.                                 *)
(*                                                                         *)
(* The Registry's transactions begin as readers: one that read and then    *)
(* writes is refused where another wrote in between.  One plugin is        *)
(* modelled, since no transaction or scan joins two.  Left out: who        *)
(* decided and when, the credential, what a registration records, what a   *)
(* decision publishes, and a Registry that cannot be read; of the          *)
(* registration, its token and its life's end overtaking it                *)
(* (Participation), so a life ends with none in hand.                      *)
(***************************************************************************)
EXTENDS Naturals, Sequences, FiniteSets

CONSTANTS
    Capabilities, \* the names of capabilities
    Documents,    \* the Manifests the plugin's file may hold: what each lists,
                  \* and pairs of a capability and what it governs
    Surfaces,     \* the objects that no list of a Manifest declares
    Deciders,     \* the operators' requests under way at once
    Copies,       \* the plugin's units
    MaxDecisions, \* bounds the decisions taken
    MaxStarts     \* bounds the lives of each copy

ASSUME AuthorityAssumption ==
    /\ MaxDecisions \in Nat
    /\ MaxStarts \in Nat
    /\ "policy" \notin Capabilities
    /\ \A m \in Documents : {g[1] : g \in m.governs} \subseteq Capabilities

NoManifest == [lists |-> {}, governs |-> {}, there |-> FALSE]
Manifests == {[lists |-> m.lists, governs |-> m.governs, there |-> TRUE] : m \in Documents}
(* manifestSurface: what a process built of a Manifest declares. *)
Surface(m) == [lists |-> m.lists, names |-> {g[1] : g \in m.governs}]
Subjects == Capabilities \cup {"policy"}

VARIABLES
    scan,     \* where the scan is, and what it found
    known,    \* the Manifest the last scan read
    serving,  \* whether the first scan is over: operators and units come after
    declared, \* the Registry: the plugin's row
    enabled,  \* its policy
    grants,   \* the capabilities in force
    history,  \* the decisions taken, in order
    decider,  \* each operator's request
    told,     \* the copies, with their lives, each decision was answered with
    copy      \* each copy's life, and its registration

discoveryVars == <<scan, known, serving>>
registry == <<declared, enabled, grants, history>>
authorityVars == <<discoveryVars, registry, decider, told, copy>>

NoRequest == [at |-> "out", subject |-> "policy", grant |-> FALSE, fresh |-> FALSE,
              decision |-> 0, left |-> {}]
NoScope == [grants |-> {}, of |-> NoManifest, asOf |-> 0]
NoLife == [state |-> "none", life |-> 0, built |-> Surface(NoManifest), at |-> "out",
           read |-> NoScope]

AuthorityInit ==
    /\ scan = [at |-> "idle", found |-> NoManifest]
    /\ known = NoManifest
    /\ serving = FALSE
    /\ declared = NoManifest
    /\ enabled = TRUE
    /\ grants = {}
    /\ history = <<>>
    /\ decider = [o \in Deciders |-> NoRequest]
    /\ told = [i \in 1..MaxDecisions |-> {}]
    /\ copy = [u \in Copies |-> NoLife]

(* A transaction that wrote: what others read before it is stale. *)
Wrote(ds) == [o \in Deciders |-> [ds[o] EXCEPT !.fresh = FALSE]]
-------------------------------------------------------------------------------
(* The scans.                                                              *)

(* manifestJoins: what is governed is listed, and what is listed governed. *)
Joined(m) ==
    /\ \A g \in m.governs : g[2] \in Surfaces \cup m.lists
    /\ m.lists \subseteq {g[2] : g \in m.governs}

(* The file, which may have been edited or removed since, is read and      *)
(* checked; one that passes is to be declared.                             *)
ReadsFile(file) ==
    /\ scan.at = "idle"
    /\ scan' = IF file.there /\ Joined(file) THEN [at |-> "declaring", found |-> file]
                                             ELSE [at |-> "read", found |-> NoManifest]
    /\ UNCHANGED <<known, serving, registry, decider, told, copy>>

(* Declare: what was declared is written over, and nothing decided; or it  *)
(* fails, and the scan has not found it.                                   *)
Declares ==
    /\ scan.at = "declaring"
    /\ \/ /\ scan' = [scan EXCEPT !.at = "read"]
          /\ declared' = scan.found
          /\ decider' = Wrote(decider)
       \/ /\ scan' = [at |-> "read", found |-> NoManifest]
          /\ UNCHANGED <<declared, decider>>
    /\ UNCHANGED <<enabled, grants, history, known, serving, told, copy>>

(* What the scan read replaces what the last one did; only after the first *)
(* does a channel serve and a unit start.                                  *)
Replaces ==
    /\ scan.at = "read"
    /\ known' = scan.found
    /\ serving' = TRUE
    /\ scan' = [at |-> "idle", found |-> NoManifest]
    /\ UNCHANGED <<registry, decider, told, copy>>

Scans == (\E m \in Manifests \cup {NoManifest} : ReadsFile(m)) \/ Declares \/ Replaces
-------------------------------------------------------------------------------
(* The operators' requests.                                                *)
(* The plugin is one the Registry knows, and the capability one its        *)
(* Manifest, as the last scan read it, declares.                           *)
Asks(o, s, grant) ==
    /\ decider[o].at = "out" /\ serving
    /\ declared.there
    /\ s # "policy" => \E g \in known.governs : g[1] = s
    /\ decider' = [decider EXCEPT ![o] =
                     [NoRequest EXCEPT !.at = IF s = "policy" THEN "policy" ELSE "grant",
                                       !.subject = s, !.grant = grant]]
    /\ UNCHANGED <<discoveryVars, registry, told, copy>>

(* decided: the row beside the change, in its transaction. *)
Decided(o, left) ==
    LET r == decider[o] IN
    /\ Len(history) < MaxDecisions
    /\ history' = Append(history, [subject |-> r.subject, given |-> r.grant])
    /\ decider' = [Wrote(decider) EXCEPT ![o] =
                     [@ EXCEPT !.at = "reaching", !.left = left,
                               !.decision = Len(history) + 1]]

(* setEnabled: the policy is read, and where it stands already nothing is  *)
(* written.                                                                *)
Selects(o) ==
    /\ decider[o].at = "policy"
    /\ IF enabled = decider[o].grant
       THEN decider' = [decider EXCEPT ![o] = NoRequest]
       ELSE decider' = [decider EXCEPT ![o] = [@ EXCEPT !.at = "updating", !.fresh = TRUE]]
    /\ UNCHANGED <<discoveryVars, registry, told, copy>>

(* Mutant: what was read is taken for what is. *)
UpdatesUnread(o) ==
    /\ decider[o].at = "updating"
    /\ enabled' = decider[o].grant
    /\ Decided(o, IF decider[o].grant THEN {} ELSE Copies)
    /\ UNCHANGED <<discoveryVars, declared, grants, told, copy>>

(* It is written, with its decision, unless another wrote since. *)
Updates(o) ==
    /\ decider[o].at = "updating"
    /\ IF decider[o].fresh
       THEN /\ enabled' = decider[o].grant
            /\ Decided(o, IF decider[o].grant THEN {} ELSE Copies)
       ELSE /\ decider' = [decider EXCEPT ![o] = NoRequest]
            /\ UNCHANGED <<enabled, history>>
    /\ UNCHANGED <<discoveryVars, declared, grants, told, copy>>

(* Grant, Withdraw: one statement, and its decision where it changed a row. *)
Grants(o) ==
    LET r == decider[o] IN
    /\ r.at = "grant"
    /\ IF (r.subject \in grants) = r.grant
       THEN /\ decider' = [decider EXCEPT ![o] = [@ EXCEPT !.at = "reaching", !.left = Copies]]
            /\ UNCHANGED <<grants, history>>
       ELSE /\ grants' = IF r.grant THEN grants \cup {r.subject} ELSE grants \ {r.subject}
            /\ Decided(o, Copies)
    /\ UNCHANGED <<discoveryVars, declared, enabled, told, copy>>

(* A life that ended: of what it was, its number alone matters. *)
Over(u) == [copy EXCEPT ![u] = [NoLife EXCEPT !.state = "over", !.life = copy[u].life]]

(* Each copy is looked at: one whose life goes on is told of, for a grant, *)
(* and has its Session revoked or is concluded, for a disabling, unless    *)
(* it opened its Session between the two looks (Participation).            *)
Living(u) == copy[u].state \in {"starting", "running"}

(* Mutant: a copy without a Session yet is passed over. *)
TellsRunning(o, u) ==
    told' = IF copy[u].state = "running" /\ decider[o].decision # 0
            THEN [told EXCEPT ![decider[o].decision] = @ \cup {<<u, copy[u].life>>}]
            ELSE told

TellsOf(o, u) ==
    told' = IF Living(u) /\ decider[o].decision # 0
            THEN [told EXCEPT ![decider[o].decision] = @ \cup {<<u, copy[u].life>>}]
            ELSE told

Looks(o, u) ==
    /\ decider[o].at = "reaching" /\ u \in decider[o].left
    /\ decider' = [decider EXCEPT ![o].left = @ \ {u}]
    /\ IF decider[o].subject = "policy"
       THEN /\ copy[u].at = "out"
            /\ copy' \in {copy, IF Living(u) THEN Over(u) ELSE copy}
            /\ UNCHANGED told
       ELSE TellsOf(o, u) /\ UNCHANGED copy
    /\ UNCHANGED <<discoveryVars, registry>>

Answers(o) ==
    /\ decider[o].at = "reaching" /\ decider[o].left = {}
    /\ decider' = [decider EXCEPT ![o] = NoRequest]
    /\ UNCHANGED <<discoveryVars, registry, told, copy>>

Operates(o) ==
    \/ \E s \in Subjects, grant \in BOOLEAN : Asks(o, s, grant)
    \/ Selects(o) \/ Updates(o) \/ Grants(o) \/ Answers(o)
    \/ \E u \in Copies : Looks(o, u)
-------------------------------------------------------------------------------
(* A copy's lives, and the registration of each.                           *)
ByCopy == UNCHANGED <<discoveryVars, declared, enabled, grants, history, told>>
CopyGoes(u, at) == copy' = [copy EXCEPT ![u].at = at]

(* A process is launched: of one Manifest or another, or of none that is. *)
Launches(u) ==
    /\ copy[u].state \in {"none", "over"} /\ copy[u].life < MaxStarts
    /\ enabled /\ serving
    /\ \E m \in Manifests :
         copy' = [copy EXCEPT ![u] = [NoLife EXCEPT !.state = "starting", !.built = Surface(m),
                                                    !.life = copy[u].life + 1]]
    /\ ByCopy /\ UNCHANGED decider

LifeEnds(u) ==
    /\ Living(u) /\ copy[u].at = "out"
    /\ copy' = Over(u)
    /\ ByCopy /\ UNCHANGED decider

(* Plugin: the row and the policy; then the grants, by another query. *)
ReadsPolicy(u) ==
    /\ copy[u].state = "starting" /\ copy[u].at = "out"
    /\ declared.there /\ enabled
    /\ CopyGoes(u, "grants")
    /\ ByCopy /\ UNCHANGED decider

ReadsGrants(u) ==
    /\ copy[u].at = "grants"
    /\ copy' = [copy EXCEPT ![u] =
                 [copy[u] EXCEPT !.at = "weighing",
                                 !.read = [@ EXCEPT !.grants = grants,
                                                    !.asOf = Len(history)]]]
    /\ ByCopy /\ UNCHANGED decider

(* What the process declares is weighed against the Manifest the last scan *)
(* read, and what is declared and authorised is granted.                   *)
Weighs(u) ==
    /\ copy[u].at = "weighing"
    /\ copy' = IF known.there /\ copy[u].built = Surface(known)
               THEN [copy EXCEPT ![u] = [@ EXCEPT !.at = "admitting", !.read.of = known]]
               ELSE Over(u)
    /\ ByCopy /\ UNCHANGED decider

(* The registration is recorded and the unit admitted, or neither. *)
Admits(u) ==
    /\ copy[u].at = "admitting"
    /\ \/ /\ copy' = [copy EXCEPT ![u] = [@ EXCEPT !.at = "out", !.state = "running",
                                                   !.built = Surface(NoManifest)]]
          /\ decider' = Wrote(decider)
       \/ /\ copy' = Over(u)
          /\ UNCHANGED decider
    /\ ByCopy

Registers(u) ==
    \/ Launches(u) \/ LifeEnds(u)
    \/ ReadsPolicy(u) \/ ReadsGrants(u) \/ Weighs(u) \/ Admits(u)

(* intersect: what of the Manifest the grants govern, and what is withheld. *)
Governed(r) == {g[2] : g \in {g \in r.of.governs : g[1] \in r.grants}}
Withheld(r) == r.of.lists \ Governed(r)
-------------------------------------------------------------------------------
(* The Core dies: the Registry alone is kept, and the next begins with a   *)
(* scan.                                                                   *)
CoreDies ==
    /\ scan' = [at |-> "idle", found |-> NoManifest]
    /\ known' = NoManifest
    /\ serving' = FALSE
    /\ decider' = [o \in Deciders |-> NoRequest]
    /\ copy' = [u \in Copies |-> [NoLife EXCEPT !.life = copy[u].life]]
    /\ UNCHANGED <<registry, told>>

AuthorityNext ==
    \/ Scans \/ CoreDies
    \/ \E o \in Deciders : Operates(o)
    \/ \E u \in Copies : Registers(u)

AuthoritySpec == AuthorityInit /\ [][AuthorityNext]_authorityVars
-------------------------------------------------------------------------------
RequestStates ==
    [at : {"out", "policy", "updating", "grant", "reaching"}, subject : Subjects,
     grant : BOOLEAN, fresh : BOOLEAN, decision : 0..MaxDecisions, left : SUBSET Copies]
CopyStates ==
    [state : {"none", "starting", "running", "over"}, life : 0..MaxStarts,
     built : {Surface(m) : m \in Manifests \cup {NoManifest}},
     at : {"out", "grants", "weighing", "admitting"},
     read : [grants : SUBSET Capabilities, of : Manifests \cup {NoManifest},
             asOf : 0..MaxDecisions]]

AuthorityTypeOK ==
    /\ scan \in [at : {"idle", "declaring", "read"}, found : Manifests \cup {NoManifest}]
    /\ known \in Manifests \cup {NoManifest}
    /\ serving \in BOOLEAN
    /\ declared \in Manifests \cup {NoManifest}
    /\ enabled \in BOOLEAN
    /\ grants \subseteq Capabilities
    /\ history \in Seq([subject : Subjects, given : BOOLEAN])
    /\ Len(history) <= MaxDecisions
    /\ decider \in [Deciders -> RequestStates]
    /\ told \in [1..MaxDecisions -> SUBSET (Copies \X (1..MaxStarts))]
    /\ copy \in [Copies -> CopyStates]

(* What the first n decisions of h leave of a subject: what the last about *)
(* it said, or where none is, a plugin enabled and granted nothing.        *)
DecisionsOn(h, s, n) == {i \in 1..n : h[i].subject = s}
Stands(h, s, n) ==
    \/ DecisionsOn(h, s, n) = {} /\ s = "policy"
    \/ \E i \in DecisionsOn(h, s, n) :
          h[i].given /\ \A j \in DecisionsOn(h, s, n) : j <= i

(* "Each change of authority writes one decision", and an effect already   *)
(* true none: every decision of the history changed what those before it   *)
(* left, and what they leave together is the policy and the grants, with   *)
(* two operators who decide at once, a scan that declares the plugin again *)
(* in between, and a Core that dies anywhere (setEnabled, Grant, Declare). *)
DecisionsChange ==
    /\ \A i \in DOMAIN history :
         history[i].given <=> ~Stands(history, history[i].subject, i - 1)
    /\ enabled <=> Stands(history, "policy", Len(history))
    /\ grants = {c \in Capabilities : Stands(history, c, Len(history))}

(* What admission weighs a registration against is what the Registry says  *)
(* was declared, once no scan is under way (Scan).                         *)
KnownIsDeclared == scan.at = "idle" /\ known.there => declared = known

RegistryKeeps == DecisionsChange /\ KnownIsDeclared

(* "Each running unit keeps the scope its own admission computed, until it *)
(* is admitted again", and whoever decides is told of it: a decision about *)
(* a capability its Manifest declares, taken after a running copy read its *)
(* grants, was answered with that copy and life, or has still to look at   *)
(* it; what it has was decided before it read; and a copy granted all that *)
(* its Manifest declares has nothing withheld (grant, intersect,           *)
(* manifestJoins).                                                         *)
ToBeTold(u, i) ==
    \/ <<u, copy[u].life>> \in told[i]
    \/ \E o \in Deciders : decider[o].decision = i /\ u \in decider[o].left

ScopeIsAccounted ==
    \A u \in Copies : copy[u].state = "running" =>
       LET r == copy[u].read
           of == Surface(r.of).names IN
       /\ \A i \in (r.asOf + 1)..Len(history) :
            history[i].subject \in of => ToBeTold(u, i)
       /\ \A c \in of : c \in r.grants <=> Stands(history, c, r.asOf)
       /\ of \subseteq r.grants => Withheld(r) = {}
=================================================================================
