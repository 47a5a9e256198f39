------------------------------ MODULE Declarations ------------------------------
(***************************************************************************)
(* How what is written becomes what is launched: an instance's record is   *)
(* made and re-pointed through the gate (internal/instances), the guardian *)
(* gates its start (internal/guardian), and the Core gates it again, scans *)
(* the Manifests, and resolves the units it launches                       *)
(* (internal/core/trunk, internal/core/discovery).  In the service form    *)
(* there is no record and no guardian: an operator edits the composition   *)
(* document and the Plugin directory while the Core starts and scans.      *)
(*                                                                         *)
(* A place holds a document and its Manifests: an installed version, whose *)
(* document a record pins; "work", a working directory; and "site", the    *)
(* service form's own.  That a version is installed, complete and offered  *)
(* is Reclaim's; what a started Core does next is Trunk's, and what a      *)
(* guardian does Guardian's.                                               *)
(***************************************************************************)
EXTENDS Gate, Sequences

CONSTANTS
    Versions,      \* the installed versions of one application
    Starts,        \* the form, what each place holds, what the host lacks and the changes to come
    Drafts,        \* what an edit may leave in a place
    HostStates,    \* what a host may lack
    Settings,      \* the values a site may supply, by group and name
    Dotted,        \* of a key whose group holds a dot: what it is cut to at its first dot
    Equated,       \* of a key that holds an equals sign: what is before it, cut the same way
    Room, Labels,  \* the characters a root leaves for a socket's and a ring's names
    MaxChanges     \* bound: edits and changes of the host, a start's bound being at most this

AllPlaces == Versions \cup {"work", "site"}

(* What a document says of each thing is of one form, or is not written: a *)
(* text's parts, a figure, a digest, and of a parameter's default one      *)
(* scalar; and it says finitely much.                                      *)
InParts(text) == \A p \in text : p = <<p[1], p[2]>> /\ p[1] \in {"is", "bind", "param"}
Measured(policy) ==
    \A f \in DOMAIN policy : policy[f] = <<policy[f][1], policy[f][2]>> /\ policy[f][1] \in Int
OneDefault(d) == \A k \in DOMAIN d.parameters : \A p, q \in d.parameters[k].default : p = q
Written(d) ==
    /\ OneDefault(d) /\ Measured(d.policy)
    /\ \A n \in DOMAIN d.units :
         LET u == d.units[n] IN
         /\ Measured(u.policy) /\ InParts(Texts(u)) /\ IsFiniteSet(DOMAIN u.bind)
         /\ u.digest \in {"none", "good", "bad", "refers", "structure"}
    /\ \A c \in DOMAIN d.channels : InParts(d.channels[c].address.port)

(* What a place holds is a bundle, a descriptor's or a composition's; that *)
(* a document moved from its pin is for a start to find (GateStart), and   *)
(* is nothing a host lacks.                                                *)
KindOf(f) == IF f = "application" THEN "descriptor" ELSE "composition"
ASSUME PlacesAssumption == {"none", "work", "site"} \cap Versions = {}
ASSUME DocumentsAssumption ==
    /\ \A s \in Starts :
         /\ s.form \in {"application", "service"} /\ s.lacks \in HostStates
         /\ DOMAIN s.files = AllPlaces
         /\ \A p \in AllPlaces : LET d == s.files[p].document IN Written(d) /\ d.kind = KindOf(s.form)
    /\ \A b \in Drafts : Written(b.document)
    /\ \A l \in HostStates : <<"pin", "">> \notin l

VARIABLES
    form,     \* "application" or "service"
    files,    \* what each place holds
    lacks,    \* what the host lacks
    record,   \* the instance's: where it is, the document pinned, the values kept
    core,     \* the Core that runs, and how far its start has come
    launched, \* the units it was left with, and where its channels are bound
    passed,   \* what the gate passed, nothing having changed since
    refusal,     \* the last refusal of a start: who refused, why, and what had passed
    changes   \* how many edits and changes of the host are to come
declarationVars == <<form, files, lacks, record, core, launched, passed, refusal, changes>>

NoValues == [k \in {} |-> ""]
NothingLaunched == [units |-> [n \in {} |-> {}], ports |-> [n \in {} |-> {}]]
NoRecord == [at |-> "none"]
NoCore == [phase |-> "none"]
NoRefusal == [by |-> "none", codes |-> {}, passed |-> {}]

DeclarationsTypeOK ==
    /\ form \in {"application", "service"} /\ lacks \in HostStates
    /\ record.at \in {"none", "work"} \cup Versions
    /\ core.phase \in {"none", "executed", "described", "composed", "scanned", "declared"}
    /\ passed \subseteq {"recorded", "gated", "unread", "misread"} /\ changes \in 0..MaxChanges

DeclarationsInit ==
    /\ \E s \in Starts : form = s.form /\ files = s.files /\ lacks = s.lacks /\ changes = s.changes
    /\ record = NoRecord /\ core = NoCore /\ launched = NothingLaunched
    /\ passed = {} /\ refusal = NoRefusal

(* What a part of the program tells the gate of the host. *)
Host(asked, slack) == [lacks |-> lacks, asked |-> asked, room |-> Room + slack, labels |-> Labels]

(* coreVersion, instances: the range a descriptor is written for is checked *)
(* where the Core's binary can be read, and elsewhere by the Core alone.   *)
CoreRange == IF <<"readable", "">> \in lacks THEN {} ELSE {"core"}
-------------------------------------------------------------------------------
(* The records (internal/instances).                                       *)

(* pinnable: a version's document, gated for an instance of that name, its *)
(* stamp read; one not named yet is gated with a root that is shorter.     *)
Pinnable(at, named) ==
    LET asked == {"arch", "runtime"} \cup CoreRange \cup (IF named THEN {"stamp"} ELSE {}) IN
    Check(files[at].document, files[at].manifests, "creating",
          Host(asked, IF named THEN 0 ELSE Length("instance"))) = {}

Create(v, supplied, named) ==
    LET d == files[v].document IN
    /\ form = "application" /\ record = NoRecord
    /\ Pinnable(v, named) /\ ValuesRefused(d, supplied, Host({}, 0)) = {}
    /\ record' = [at |-> v, pin |-> {d}, values |-> Values(d, supplied, Host({}, 0))]
    /\ passed' = IF named THEN {"recorded"} ELSE {}
    /\ UNCHANGED <<form, files, lacks, core, launched, refusal, changes>>

(* Ephemeral: from a working directory the verification is waived, and the *)
(* gate is told of no root.                                                *)
Ephemeral ==
    LET d == files["work"].document IN
    /\ form = "application" /\ record = NoRecord
    /\ Check(d, files["work"].manifests, "creating", Host({"arch", "runtime"} \cup CoreRange, Room)) = {}
    /\ ValuesRefused(d, NoValues, Host({}, 0)) = {}
    /\ record' = [at |-> "work", pin |-> {}, values |-> Values(d, NoValues, Host({}, 0))]
    /\ UNCHANGED <<form, files, lacks, core, launched, passed, refusal, changes>>

(* SetVersion keeps the values as they are. *)
SetVersion(v) ==
    /\ record.at \in Versions /\ Pinnable(v, TRUE)
    /\ record' = [record EXCEPT !.at = v, !.pin = {files[v].document}]
    /\ passed' = passed \ {"recorded"}
    /\ UNCHANGED <<form, files, lacks, core, launched, refusal, changes>>

(* SetParam: one value, its key cut at the first dot, checked with every   *)
(* other that is recorded; of a document the record does not pin, the      *)
(* start is refused all the same.                                          *)
SetParam(written, value) ==
    LET d == files[record.at].document
        k == IF written \in DOMAIN Dotted THEN Dotted[written] ELSE written
        supplied == [x \in DOMAIN record.values \cup {k} |-> IF x = k THEN value ELSE record.values[x]] IN
    /\ record.at \in Versions /\ Pinnable(record.at, TRUE)
    /\ ValuesRefused(d, supplied, Host({}, 0)) = {}
    /\ record' = [record EXCEPT !.values = Values(d, supplied, Host({}, 0))]
    /\ passed' = IF record.pin = {d} THEN passed \cup {"recorded"} ELSE passed
    /\ UNCHANGED <<form, files, lacks, core, launched, refusal, changes>>
-------------------------------------------------------------------------------
(* A start: the guardian's gate, and then the Core's.                      *)

(* Mutant: the values are left to the Core. *)
GateStartDocument ==
    Check(files[record.at].document, files[record.at].manifests, "starting",
          Host({"arch", "runtime", "stamp", "pin", "authentication"} \cup CoreRange, 0))

(* GateStart: the guardian asks for no engine. *)
GateStart ==
    LET d == files[record.at].document
        moved == IF ~ record.pin \subseteq {d} THEN {<<"pin", "">>} ELSE {}
        host == [Host({"arch", "runtime", "stamp", "pin", "authentication"} \cup CoreRange, 0)
                   EXCEPT !.lacks = @ \cup moved] IN
    Then(Check(d, files[record.at].manifests, "starting", host), ValuesRefused(d, record.values, host))

Refused(by, codes) == refusal' = [by |-> by, codes |-> codes, passed |-> passed]

(* A value goes to the Core as group.name=value, which valuesOf cuts at the *)
(* first equals sign, and what is before that at its first dot.            *)
Misread == DOMAIN Dotted \cup DOMAIN Equated
ReadAs(k) ==
    CASE k \in DOMAIN Equated -> Equated[k]
      [] k \in DOMAIN Dotted \ DOMAIN Equated -> Dotted[k]
      [] OTHER -> k
Unreadable(values) ==
    \E k \in DOMAIN values :
      "" \in {ReadAs(k)[1], ReadAs(k)[2]} \/ \E j \in DOMAIN values \ {k} : ReadAs(j) = ReadAs(k)
Invoked(values) ==
    [x \in {ReadAs(k) : k \in DOMAIN values} |->
       LET k == CHOOSE k \in DOMAIN values : ReadAs(k) = x IN
       IF k \in DOMAIN Equated THEN "the rest of its key, and its value" ELSE values[k]]

(* start: nothing may execute a Core without the gate. *)
Execute ==
    LET drawn == Values(files[record.at].document, record.values, Host({}, 0)) IN
    /\ record # NoRecord /\ core = NoCore
    /\ IF GateStart = {}
       THEN /\ core' = [phase |-> "executed", at |-> record.at, values |-> drawn]
            /\ passed' = (passed \cap {"recorded"}) \cup {"gated"}
                            \cup (IF "core" \in CoreRange THEN {} ELSE {"unread"})
                            \cup (IF DOMAIN drawn \cap Misread = {} THEN {} ELSE {"misread"})
            /\ UNCHANGED refusal
       ELSE Refused("guardian", GateStart) /\ UNCHANGED <<core, passed>>
    /\ UNCHANGED <<form, files, lacks, record, launched, changes>>

(* In the service form the Core is executed by the host. *)
Boot ==
    /\ form = "service" /\ core = NoCore
    /\ core' = [phase |-> "described", at |-> "site", values |-> NoValues, document |-> "unread"]
    /\ UNCHANGED <<form, files, lacks, record, launched, passed, refusal, changes>>

(* The Core reads its invocation; and at step 2, parameters, its descriptor *)
(* is read once, and closed.                                               *)
Describe ==
    /\ core.phase = "executed"
    /\ \/ /\ Unreadable(core.values)
          /\ core' = NoCore /\ Refused("core", {"invocation"})
       \/ /\ ~Unreadable(core.values) /\ files[core.at].document.read = "unreadable"
          /\ core' = NoCore /\ Refused("core", {"document.unreadable"})
       \/ /\ ~Unreadable(core.values) /\ files[core.at].document.read # "unreadable"
          /\ core' = [phase |-> "described", at |-> core.at, values |-> Invoked(core.values),
                      document |-> files[core.at].document]
          /\ UNCHANGED refusal
    /\ UNCHANGED <<form, files, lacks, record, launched, passed, changes>>

(* composition, at step 7: the gate, once, over the Manifests as they are. *)
(* Without the engine its units name, the start fails here.                *)
Compose ==
    LET d == IF form = "application" THEN core.document ELSE files["site"].document
        asked == IF form = "application" THEN {"arch", "core", "runtime", "authentication", "engine"}
                 ELSE {"authentication", "engine"}
        found == Check(d, files[core.at].manifests, "starting", Host(asked, 0)) IN
    /\ core.phase = "described"
    /\ IF "engine.unreachable" \in found
       THEN core' = NoCore /\ Refused("core", found)
       ELSE /\ core' = [phase |-> "composed", at |-> core.at, values |-> core.values, document |-> d,
                        found |-> found, read |-> files[core.at].manifests]
            /\ UNCHANGED refusal
    /\ UNCHANGED <<form, files, lacks, record, launched, passed, changes>>

(* Scan: the Manifests that pass on their own, in place of those found     *)
(* before; once for a bundle, and again at an interval for a directory.    *)
Scan ==
    LET manifests == files[core.at].manifests IN
    /\ core.phase = "composed" \/ (form = "service" /\ core.phase = "scanned")
    /\ core' = [phase |-> "scanned", at |-> core.at, values |-> core.values,
                document |-> core.document, found |-> core.found, read |-> core.read,
                scanned |-> [p \in {p \in DOMAIN manifests : CheckManifest(manifests[p]) = {}} |-> manifests[p]]]
    /\ UNCHANGED <<form, files, lacks, record, launched, passed, refusal, changes>>
-------------------------------------------------------------------------------
(* The units (internal/core/discovery).                                    *)

Missing == <<"nothing", "">>

(* Substitute: a parameter, in the group and then in shared; nothing where *)
(* neither has one.                                                        *)
Substitute(values, group, text) ==
    LET part(p) ==
          CASE p[1] # "param" -> p
            [] p[1] = "param" /\ <<group, p[2]>> \in DOMAIN values -> <<"is", values[<<group, p[2]>>]>>
            [] /\ p[1] = "param" /\ <<group, p[2]>> \notin DOMAIN values
               /\ <<"shared", p[2]>> \in DOMAIN values -> <<"is", values[<<"shared", p[2]>>]>>
            [] OTHER -> Missing
    IN {part(p) : p \in text}

(* The orders a mapping may yield its keys in. *)
Orders(keys) == {o \in [1..Cardinality(keys) -> keys] : \A i, j \in DOMAIN o : i # j => o[i] # o[j]}

(* resolve: a unit's bindings are replaced one after the other, in the     *)
(* order their mapping yields them; then the paths the Core derives.       *)
Replaced(values, n, u, text, k) ==
    IF <<"bind", k>> \in text THEN (text \ {<<"bind", k>>}) \cup Substitute(values, n, u.bind[k]) ELSE text
Bound(values, n, u, order, text) ==
    LET after[i \in 0..Len(order)] ==
          IF i = 0 THEN Substitute(values, n, text) ELSE Replaced(values, n, u, after[i - 1], order[i])
    IN after[Len(order)]
Resolved(values, n, u, needs, order, text) ==
    LET derived == {Key(need) : need \in {x \in needs : Materialised(x)}} IN
    {IF p[1] = "bind" /\ p[2] \in derived THEN <<"derived", p[2]>> ELSE p
       : p \in Bound(values, n, u, order, text)}

(* The class of each need, and what the unit is given for it. *)
NeedFor(values, n, u, needs, order, need) ==
    [class |-> need.class,
     path  |-> CASE need.class = "device" ->
                      Resolved(values, n, u, needs, order,
                               IF Key(need) \in DOMAIN u.bind THEN u.bind[Key(need)] ELSE {Missing})
                 [] Materialised(need) -> {<<"derived", Key(need)>>}
                 [] OTHER -> {}]

(* Units, Descriptor: each unit that starts with the deployment. *)
UnitsOf(d, scanned, values, order) ==
    LET starting == {n \in DOMAIN d.units : d.units[n].autostart}
        unit(n) ==
          LET u == d.units[n]
              needs == IF u.kind = "plugin" /\ u.plugin \in DOMAIN scanned THEN scanned[u.plugin].needs
                       ELSE u.needs IN
          [kind      |-> u.kind,
           program   |-> {<<"exec", x>> : x \in IF NamesProgram(d, n) THEN {n} ELSE {}}
                           \cup {<<"image", x>> : x \in {u.image} \ {"none"}},
           texts     |-> Resolved(values, n, u, needs, order[n], u.texts),
           needs     |-> {NeedFor(values, n, u, needs, order[n], need) : need \in needs},
           digest    |-> u.digest,
           dependsOn |-> u.dependsOn,
           policy    |-> Deployment(d).units[n].policy]
    IN [n \in starting |-> unit(n)]

(* declarations, the end of step 8: with a document refused, or values     *)
(* that are, a Core of the application form ends and one of the service    *)
(* form is left with what it found.                                        *)
Declare ==
    LET d == core.document
        values == IF form = "application" THEN Values(d, core.values, Host({}, 0)) ELSE NoValues
        refused == Then(core.found, IF form = "application" THEN ValuesRefused(d, core.values, Host({}, 0)) ELSE {})
        ports == [c \in DOMAIN d.channels |->
                    IF form = "application" THEN Substitute(values, c, d.channels[c].address.port)
                    ELSE d.channels[c].address.port]
    IN /\ core.phase = "scanned"
       /\ IF refused = {}
          THEN /\ \E order \in [DOMAIN d.units -> UNION {Orders(DOMAIN d.units[n].bind) : n \in DOMAIN d.units}] :
                    /\ \A n \in DOMAIN d.units : order[n] \in Orders(DOMAIN d.units[n].bind)
                    /\ launched' = [units |-> UnitsOf(d, core.scanned, values, order), ports |-> ports]
               /\ core' = [core EXCEPT !.phase = "declared"] /\ UNCHANGED refusal
          ELSE /\ core' = IF form = "application" THEN NoCore ELSE [core EXCEPT !.phase = "declared"]
               /\ Refused("core", refused) /\ UNCHANGED launched
    /\ UNCHANGED <<form, files, lacks, record, passed, changes>>

(* The Core ends, and what it launched with it. *)
Ends ==
    /\ core.phase = "declared"
    /\ core' = NoCore /\ launched' = NothingLaunched
    /\ UNCHANGED <<form, files, lacks, record, passed, refusal, changes>>
-------------------------------------------------------------------------------
(* What others do meanwhile.                                               *)
Edit(p, b) ==
    /\ changes > 0 /\ files[p] # b
    /\ (p = "site") = (form = "service") /\ b.document.kind = files[p].document.kind
    /\ files' = [files EXCEPT ![p] = b]
    /\ passed' = {} /\ changes' = changes - 1
    /\ UNCHANGED <<form, lacks, record, core, launched, refusal>>

HostChanges(l) ==
    /\ changes > 0 /\ l # lacks
    /\ lacks' = l /\ passed' = {} /\ changes' = changes - 1
    /\ UNCHANGED <<form, files, record, core, launched, refusal>>

DeclarationsNext ==
    \/ \E v \in Versions, s \in Settings, named \in BOOLEAN : Create(v, s, named)
    \/ Ephemeral
    \/ \E v \in Versions : SetVersion(v)
    \/ \E s \in Settings : \E k \in DOMAIN s : SetParam(k, s[k])
    \/ Execute \/ Boot \/ Describe \/ Compose \/ Scan \/ Declare \/ Ends
    \/ \E p \in AllPlaces, b \in Drafts : Edit(p, b)
    \/ \E l \in HostStates : HostChanges(l)

DeclarationsSpec == DeclarationsInit /\ [][DeclarationsNext]_declarationVars
-------------------------------------------------------------------------------
(* What the units are handed (discovery.go), of a document the gate passed *)
(* (gate.Check) and values it took (gate.Values), is whole: one program,   *)
(* in a bundle with its digest, a dependency that is declared and is no    *)
(* interface, no negative figure but of one written that its integer does  *)
(* not hold, and no reference left or resolved to nothing in an argument,  *)
(* a path or a port.  Two readings of the Manifests must agree: the gate's, *)
(* at step 7, and the scan's, at step 8.  A binding that refers to another *)
(* is as the order of a mapping has it, and may be left.                   *)
Agreed == \A n \in Plugins(core.document) :
            LET p == core.document.units[n].plugin IN
            p \in DOMAIN core.scanned /\ core.scanned[p] = core.read[p]
Chained(u) == \E k \in DOMAIN u.bind : Bindings(u.bind[k]) # {}
Whole(n, u) ==
    /\ u.kind \in Kinds /\ Cardinality(u.program) = 1
    /\ form = "application" /\ u.program = {<<"exec", n>>} => u.digest = "good"
    /\ \A x \in u.dependsOn : x \in DOMAIN core.document.units /\ core.document.units[x].kind # "interface"
    /\ \A f \in Figures :
         u.policy[f] >= 0
           \/ \E scope \in {core.document.policy, core.document.units[n].policy} :
                f \in DOMAIN scope /\ ~Fits(scope[f])
    /\ \A text \in {u.texts} \cup {need.path : need \in u.needs} :
         /\ Parameters(text) = {} /\ Missing \notin text
         /\ Bindings(text) # {} => Chained(core.document.units[n])
LaunchedWhole ==
    launched # NothingLaunched /\ Agreed =>
      /\ \A n \in DOMAIN launched.units : Whole(n, launched.units[n])
      /\ \A c \in DOMAIN launched.ports :
           ~HasReference(launched.ports[c]) /\ Missing \notin launched.ports[c]

(* What one gate passed, the next refuses only for what it alone asks,     *)
(* nothing having changed between: a start the guardian refuses, of a      *)
(* record made or set through the gate (instances.go), lacks a secret, a   *)
(* certificate or the authentication service; and a Core the guardian      *)
(* executed refuses the document and the values it was handed only for the *)
(* engine (guardian.go, trunk.go), or for the range of Cores the document  *)
(* is written for, where the guardian could not read the Core's version.   *)
(* A Core handed a value whose key it reads for another, as it may where a *)
(* name the gate admits holds a dot or an equals sign, refuses what it     *)
(* does, and nothing is said of it.                                        *)
StartsAsGated ==
    /\ refusal.by = "guardian" /\ "recorded" \in refusal.passed =>
         refusal.codes \subseteq {"secret.missing", "channel.tls.missing", "auth.unavailable"}
    /\ refusal.by = "core" /\ "gated" \in refusal.passed /\ "misread" \notin refusal.passed =>
         refusal.codes \subseteq {"engine.unreachable"}
           \cup (IF "unread" \in refusal.passed THEN {"core.range"} ELSE {})
=================================================================================
