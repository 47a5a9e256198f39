---------------------------------- MODULE Gate ----------------------------------
(***************************************************************************)
(* internal/gate: the one validator.  Given a document, and the Manifests  *)
(* and the host it is joined against, what it finds: the codes of its      *)
(* findings, phase by phase, a phase after a refusal not being run.        *)
(*                                                                         *)
(* A scalar is how it is written: "none" where it is not, "good", "bad"    *)
(* where it is not of its format, "refers" where it holds a reference that *)
(* is not permitted there, "structure" where it is a list or a mapping.    *)
(* A text that may hold references is the set of its parts: <<"is", v>>,   *)
(* <<"bind", key>>, <<"param", name>>.  Where a finding is, and what it    *)
(* says, are left out; so are the order in which a phase finds, and the    *)
(* arrangements it only warns of, which refuse nothing.                    *)
(***************************************************************************)
EXTENDS Integers, FiniteSets

CONSTANTS
    Word,      \* how many values a figure's integer has: 2^64
    Second,    \* what a figure in seconds counts of a duration's unit: 10^9
    Kilobyte   \* what one in KB counts of a size's: 1000
ASSUME GateAssumption ==
    Second \in Nat \ {0} /\ Kilobyte \in Nat \ {0} /\ Word \in Nat \ {0, 1}

Where(condition, code) == IF condition THEN {code} ELSE {}
Each(S, Found(_)) == UNION {Found(x) : x \in S}

(* str, enum: a value that may not hold a reference, of a format or a set. *)
Scalar(w, bad) ==
    Where(w = "structure", "field.type") \cup Where(w = "refers", "substitution.place")
      \cup Where(w = "bad", bad)
Required(w, bad) == Where(w = "none", "field.required") \cup Scalar(w, bad)
Foreign(w) == Where(w # "none", "key.unknown")
NameOK(name) == Where(name \in {"", "a/b"}, "name.not_a_path_component")

Bindings(text) == {p[2] : p \in {p \in text : p[1] = "bind"}}
Parameters(text) == {p[2] : p \in {p \in text : p[1] = "param"}}
HasReference(text) == Bindings(text) \cup Parameters(text) # {}
IsNumber(text) == text = {<<"is", "8080">>}

-------------------------------------------------------------------------------
(* What a document is made of.                                             *)
NamedClasses == {"device", "storage", "secret"}
UnnamedClasses == {"display", "audio", "network"}
Key(need) == IF need.name # "" THEN need.name ELSE need.class
Materialised(need) == need.class \in {"secret", "storage"}

Durations == {"heartbeat.interval", "startup_window", "stop_window", "restart.backoff",
              "restart.ceiling", "restart.stability_window", "retention.age"}
Tallies == {"heartbeat.tolerance", "retention.entries"}
Figures == Durations \cup Tallies \cup {"retention.bytes"}

(* A figure is written as a count and what it counts, "none" where it says *)
(* nothing of that; one that is no number, or more than a count may be, is *)
(* a negative count.                                                       *)
Measure == [s |-> Second, m |-> 60 * Second, h |-> 3600 * Second, d |-> 86400 * Second,
            KB |-> Kilobyte, MB |-> 1000 * Kilobyte, GB |-> 1000000 * Kilobyte, none |-> 1]
Formats(f) ==
    CASE f \in Durations -> {"s", "m", "h", "d"}
      [] f = "retention.bytes" -> {"KB", "MB", "GB"}
      [] OTHER -> {"none"}
MayBeZero == {"retention.age", "retention.bytes"}
InFormat(f, w) == (w[1] >= 0 /\ w[2] \in Formats(f)) \/ (f \in MayBeZero /\ w = <<0, "none">>)

(* ParseDuration, ParseSize: a count past the largest the integer holds is *)
(* that largest one, and the product is what the integer keeps of it.      *)
Largest == (Word \div 2) - 1
Product(w) == (IF w[1] > Largest THEN Largest ELSE w[1]) * Measure[w[2]]
Fits(w) == Product(w) < Word \div 2
Parsed(w) == LET kept == Product(w) % Word IN IF kept < Word \div 2 THEN kept ELSE kept - Word

(* Defaults, in a duration's and a size's unit, and counts. *)
Defaults ==
    [f \in Figures |->
       CASE f = "heartbeat.interval" -> 10 * Second [] f = "heartbeat.tolerance" -> 3
         [] f = "startup_window" -> 30 * Second [] f = "stop_window" -> 10 * Second
         [] f = "restart.backoff" -> 5 * Second [] f = "restart.ceiling" -> 300 * Second
         [] f = "restart.stability_window" -> 60 * Second [] f = "retention.age" -> 604800 * Second
         [] f = "retention.bytes" -> 50000 * Kilobyte [] f = "retention.entries" -> 100000]

(* over: the figures one scope wrote, over those of the scope around it. *)
Overriding(scope, base) ==
    [f \in Figures |-> IF f \in DOMAIN scope THEN Parsed(scope[f]) ELSE base[f]]

NoHead == [id |-> "none", version |-> "none", arch |-> "none", core |-> "none", data |-> "none"]
NoAddress == [class |-> "none", host |-> "none", port |-> {}, transport |-> "none",
              caller |-> "none"]

(* A parameter resolves in the group of the unit or the channel, then in   *)
(* shared; a composition document has none.                                *)
Declared(d, group, name) ==
    d.kind = "descriptor" /\ {<<group, name>>, <<"shared", name>>} \cap DOMAIN d.parameters # {}
-------------------------------------------------------------------------------
(* Phase 0, reading: that it is there and parses, no key written twice; and *)
(* the model a descriptor is written against, before anything else.        *)
Reading(d) ==
    CASE d.read = "unreadable" -> {"document.unreadable"}
      [] d.read = "malformed"  -> {"document.malformed"}
      [] d.read \in {"parsed", "scalar"} ->
           IF d.kind # "descriptor" \/ d.read = "scalar" THEN {}
           ELSE Where(d.model = "none", "field.required") \cup Where(d.model = "bad", "field.type")
                  \cup Where(d.model = "other", "model.unknown")
-------------------------------------------------------------------------------
(* Phase 1, shape.                                                         *)
HeadShape(h) ==
    Required(h.id, "field.value") \cup Required(h.version, "version.not_semver")
      \cup Required(h.arch, "field.value") \cup Required(h.core, "field.value")
      \cup Scalar(h.data, "field.value")

(* policy: restart.on_failure is a oneshot's alone, in its own scope, a     *)
(* boolean and so a count of one or of none.                               *)
PolicyShape(scope, kind) ==
    LET known == Figures \cup (IF kind = "oneshot" THEN {"restart.on_failure"} ELSE {})
        Figure(f) ==
          IF f \notin known THEN {"key.unknown"}
          ELSE Where(f \in Durations /\ ~InFormat(f, scope[f]), "format.duration")
                 \cup Where(f = "retention.bytes" /\ ~InFormat(f, scope[f]), "format.size")
                 \cup Where(f \in Tallies /\ ~InFormat(f, scope[f]), "field.type")
                 \cup Where(f = "restart.on_failure" /\ scope[f] \notin {<<0, "none">>, <<1, "none">>},
                            "field.type")
                 \cup Where(f = "heartbeat.tolerance" /\ scope[f] = <<0, "none">>, "field.value")
    IN Each(DOMAIN scope, Figure)

(* need: a class of the closed set, with a name where it takes one. *)
NeedShape(need) ==
    Where(IF need.name = "" THEN need.class \notin UnnamedClasses
          ELSE need.class \notin NamedClasses \/ NameOK(need.name) # {}, "field.value")

(* unbindable: a device is the one class a document binds. *)
Unbindable(need) ==
    CASE need.class = "device" -> {}
      [] need.class = "secret" -> {"bind.secret"}
      [] OTHER -> {"bind.class"}

Kinds == {"plugin", "oneshot", "interface"}
ParameterTypes == {"string", "integer", "boolean", "enum", "path", "address"}

(* The program of a unit: a plugin's identity in a composition document,   *)
(* and otherwise an executable or an image pinned by its digest.           *)
ProgramShape(of, u) ==
    LET isNot(kind) == u.kind \in Kinds \ {kind} IN
    (IF u.plugin # "none" /\ isNot("plugin") THEN {"key.unknown"}
     ELSE Where(u.plugin = "none" /\ u.kind = "plugin", "field.required")
            \cup Scalar(IF u.plugin \in {"none", "refers", "bad", "structure"} THEN u.plugin
                        ELSE "good", "field.value"))
    \cup Where(of = "composition" /\ u.kind = "plugin" /\ (u.exec # "none" \/ u.image # "none"),
               "unit.program.on_plugin")
    \cup Scalar(IF u.exec = "relative" THEN "good" ELSE u.exec, "field.value")
    \cup Where(of = "composition" /\ u.kind # "plugin" /\ u.exec = "relative", "field.value")
    \cup Scalar(u.image, "unit.image.tagged")
    \cup Where(u.kind \in Kinds /\ (u.kind # "plugin" \/ of = "descriptor")
                 /\ (u.exec = "none" <=> u.image = "none"), "unit.program.ambiguous")

(* The digests, which a descriptor states and a composition does not. *)
DigestShape(of, u) ==
    IF of = "composition"
    THEN Where(u.digest # "none" \/ u.manifestDigest # "none", "digest.present")
    ELSE Scalar(u.digest, "format.digest")
           \cup Where(u.digest = "none" /\ u.exec # "none", "unit.exec.no_digest")
           \cup (IF u.kind \in Kinds \ {"plugin"} THEN Foreign(u.manifestDigest)
                 ELSE Scalar(u.manifestDigest, "format.digest"))

(* unit: what it says beside, and which kind and document may say it. *)
UnitShape(of, name, u) ==
    LET unbindable(need) == IF Key(need) \in DOMAIN u.bind THEN Unbindable(need) ELSE {} IN
    NameOK(name) \cup Foreign(u.other)
      \cup Where(u.kind = "none", "field.required")
      \cup Where(u.kind \notin Kinds \cup {"none"}, "field.value")
      \cup ProgramShape(of, u) \cup DigestShape(of, u)
      \cup Where(u.reserved, "unit.env.reserved")
      \cup (IF u.kind = "plugin" THEN Where(u.needs # {}, "unit.needs.on_plugin")
            ELSE Each(u.needs, NeedShape) \cup Each(u.needs, unbindable))
      \cup (CASE of = "composition" -> Where(u.migratesFrom # "none", "unit.migrates_from.present")
              [] of # "composition" /\ u.kind \in Kinds \ {"oneshot"} ->
                   Where(u.migratesFrom # "none", "unit.migrates_from.kind")
              [] OTHER -> Scalar(u.migratesFrom, "field.value"))
      \cup PolicyShape(u.policy, u.kind)

(* address: what each class carries, and must. *)
AddressShape(a) ==
    LET allowed == CASE a.class = "loopback" -> {"port"}
                     [] a.class = "routable" -> {"host", "port", "security"}
                     [] OTHER -> {}
        written == (IF a.host # "none" THEN {"host"} ELSE {})
                     \cup (IF a.port # {} THEN {"port"} ELSE {})
                     \cup (IF a.transport # "none" \/ a.caller # "none" THEN {"security"} ELSE {})
    IN IF a.class = "none" THEN {"field.required"}
       ELSE IF a.class \notin {"local", "loopback", "routable"} THEN {"field.value"}
       ELSE Where(~ written \subseteq allowed, "key.unknown")
              \cup Where(~ (allowed \ {"security"}) \subseteq written, "field.required")
              \cup Where(a.port # {} /\ ~HasReference(a.port) /\ ~IsNumber(a.port), "field.type")
              \cup Scalar(a.host, "field.value")
              \cup Scalar(a.transport, "field.value") \cup Scalar(a.caller, "field.value")

(* channel *)
ChannelShape(name, c) ==
    NameOK(name) \cup Foreign(c.other)
      \cup Where(c.transport = "none", "field.required")
      \cup Where(c.clients = "none", "field.required")
      \cup Where(c.clients \notin {"none", "single", "multiple"}, "field.value")
      \cup Where(c.onSuspend \notin {"none", "read-only", "dark"}, "field.value")
      \cup (IF c.address = NoAddress THEN {} ELSE AddressShape(c.address))

(* rule: which keys it has; what it prevails over may be no channel at all. *)
RuleShape(r) ==
    Where(~ {"prevails", "over"} \subseteq r.says, "field.required")
      \cup Where(~ r.says \subseteq {"prevails", "over"}, "key.unknown")

(* parameter: exactly one of required and a default, and the default one   *)
(* its own declaration takes; only a path's is looked for later.           *)
ParameterShape(p) ==
    LET restricts == [range |-> "integer", pattern |-> "string", values |-> "enum", none |-> p.type]
        faults ==
          Where("none" \in {p.type, p.label, p.required}, "field.required")
            \cup Where(p.type \notin {"none"} \cup ParameterTypes, "field.value")
            \cup Where(p.type # "none" /\ restricts[p.restricted] # p.type, "field.value")
            \cup Where(p.type = "enum" /\ p.restricted # "values", "field.required")
            \cup Where(p.required # "none" /\ (p.required = "true" <=> p.default # {}),
                       "parameter.arrangement")
    IN faults \cup Scalar(IF p.label = "none" THEN "good" ELSE p.label, "field.value")
         \cup Where(p.required \notin {"none", "true", "false"}, "field.type")
         \cup Where(faults = {} /\ p.type # "path" /\ ~ p.default \subseteq p.takes,
                    "field.value")

(* parameters: the groups are the units', the channels' and shared. *)
ParametersShape(d) ==
    LET groups == DOMAIN d.units \cup DOMAIN d.channels \cup {"shared"}
        declaration(k) == IF k[1] \notin groups THEN {"field.value"}
                          ELSE NameOK(k[2]) \cup ParameterShape(d.parameters[k])
    IN Each(DOMAIN d.parameters, declaration)

Shape(d) ==
    IF d.read = "scalar" THEN {"field.type"} ELSE
    LET unit(n) == UnitShape(d.kind, n, d.units[n])
        channel(n) == ChannelShape(n, d.channels[n]) IN
    Foreign(d.other)
      \cup (IF d.kind = "descriptor" THEN HeadShape(d.head) \cup ParametersShape(d)
            ELSE Where(d.head # NoHead \/ d.model # "none", "head.present")
                   \cup Where(DOMAIN d.parameters # {}, "parameters.present"))
      \cup PolicyShape(d.policy, "")
      \cup Where(DOMAIN d.units = {}, "field.required")
      \cup Each(DOMAIN d.units, unit) \cup Each(DOMAIN d.channels, channel)
      \cup Each(d.arbitration, RuleShape)

(* What a document that passed describes: every figure of the innermost    *)
(* scope that wrote it.                                                    *)
Deployment(d) ==
    [d EXCEPT !.policy = Overriding(d.policy, Defaults),
              !.units = [n \in DOMAIN d.units |->
                 [d.units[n] EXCEPT !.policy = Overriding(d.units[n].policy, Overriding(d.policy, Defaults))]]]
-------------------------------------------------------------------------------
(* Phase 2, the references inside one document.                            *)
Texts(u) == u.texts \cup UNION {u.bind[k] : k \in DOMAIN u.bind}

(* Mutant: to what the unit is given for any need it has. *)
ResolvesEveryNeed(d, n, needs, p) ==
    LET u == d.units[n] IN
    CASE p[1] = "bind"  -> p[2] \in DOMAIN u.bind \cup {Key(need) : need \in needs}
      [] p[1] = "param" -> Declared(d, n, p[2])
      [] OTHER          -> TRUE

(* resolve: a binding resolves against what the unit binds and the paths   *)
(* the Core derives for it; a plugin's needs are its Manifest's, joined in *)
(* the phase that reads it.                                                *)
Resolves(d, n, needs, p) ==
    LET u == d.units[n] IN
    CASE p[1] = "bind"  -> p[2] \in DOMAIN u.bind \cup {Key(need) : need \in {x \in needs : Materialised(x)}}
      [] p[1] = "param" -> Declared(d, n, p[2])
      [] OTHER          -> TRUE

Unbound(u, needs) ==
    Where(\E need \in needs : need.class = "device" /\ Key(need) \notin DOMAIN u.bind,
          "unit.needs.unbound")
Unresolved(d, n, needs, texts) ==
    Where(\E p \in texts : ~Resolves(d, n, needs, p), "substitution.unresolved")

UnitJoins(d, n) ==
    LET u == d.units[n]
        texts == IF u.kind = "plugin" THEN {p \in Texts(u) : p[1] # "bind"} ELSE Texts(u) IN
    Where(~ u.dependsOn \subseteq DOMAIN d.units, "depends_on.unknown")
      \cup Where(\E x \in u.dependsOn \cap DOMAIN d.units : d.units[x].kind = "interface",
                 "depends_on.interface")
      \cup Unbound(u, u.needs) \cup Unresolved(d, n, u.needs, texts)

ChannelJoins(d, name) ==
    LET c == d.channels[name] IN
    Where(c.unit # "none" /\ c.unit \notin DOMAIN d.units, "channel.unit.unknown")
      \cup Where(c.unit \in DOMAIN d.units /\ d.units[c.unit].kind # "interface", "channel.unit.kind")
      \cup Where(c.transport \notin {"local", "http+ws"}, "channel.transport.unknown")
      \cup Where(c.address.class = "routable" /\ "none" \in {c.address.transport, c.address.caller},
                 "channel.address.security")
      \cup Where(\/ Bindings(c.address.port) # {}
                 \/ \E x \in Parameters(c.address.port) : ~Declared(d, name, x),
                 "substitution.unresolved")

RuleJoins(d, r) == Where(~ ({r.prevails} \cup r.over) \ {""} \subseteq DOMAIN d.channels,
                         "arbitration.channel.unknown")

Joins(d) ==
    LET unit(n) == UnitJoins(d, n)
        channel(n) == ChannelJoins(d, n)
        rule(r) == RuleJoins(d, r) IN
    Each(DOMAIN d.units, unit) \cup Each(DOMAIN d.channels, channel) \cup Each(d.arbitration, rule)
-------------------------------------------------------------------------------
(* The phases of a Manifest, a claim its plugin makes.                     *)
Then(found, next) == IF found # {} THEN found ELSE next

ReadingManifest(m) ==
    CASE m.read = "unreadable" -> {"document.unreadable"}
      [] m.read = "malformed"  -> {"document.malformed"}
      [] m.read = "scalar"     -> {"field.type"}
      [] OTHER -> Where(m.model = "none", "field.required") \cup Where(m.model = "bad", "field.type")
                    \cup Where(m.model = "other", "plugin.manifest.model")

(* capability: named, and governing exactly one object. *)
CapabilityShape(c) ==
    LET objects == {o \in c.governs : o[1] \in {"stream", "command", "query", "occurrence", "surface"}} IN
    Where(c.said, "manifest.field.removed") \cup Foreign(c.other) \cup Required(c.name, "field.value")
      \cup (IF ~c.stated THEN {"field.required"}
            ELSE Where(c.governs # objects, "key.unknown")
                   \cup Where(Cardinality(objects) # 1, "capability.governs.count"))

(* The id is the one the path it was read from names. *)
ManifestShape(m) ==
    LET stream(s) == Where(s.id \in {"", "a/b", ".", ".."}, "name.not_a_path_component") IN
    Where(m.removed, "manifest.field.removed") \cup Foreign(m.other)
      \cup Required(IF m.id = "another" THEN "good" ELSE m.id, "field.value")
      \cup Where(m.id = "another", "plugin.manifest.id")
      \cup Required(IF m.protocol = "other" THEN "good" ELSE m.protocol, "field.type")
      \cup Where(m.protocol = "other", "plugin.protocol.unsupported")
      \cup Each(m.needs, NeedShape) \cup Each(m.streams, stream)
      \cup Each(m.capabilities, CapabilityShape)

ManifestJoins(m) ==
    LET declared == {<<"stream", s.id>> : s \in m.streams} \cup m.lists
        governed == UNION {c.governs : c \in m.capabilities} IN
    Where(\E o \in governed \ declared : o[1] # "surface", "capability.governs.undeclared")
      \cup Where(~ declared \subseteq governed, "capability.ungoverned")

CheckManifest(m) == Then(ReadingManifest(m), Then(ManifestShape(m), ManifestJoins(m)))
-------------------------------------------------------------------------------
(* Phase 3, each plugin unit against its Manifest: manifests is what the   *)
(* directory holds, by plugin.                                             *)
Plugins(d) == {n \in DOMAIN d.units : d.units[n].kind = "plugin"}

ManifestBindings(d, n, needs) ==
    LET u == d.units[n]
        unbindable(need) == IF Key(need) \in DOMAIN u.bind THEN Unbindable(need) ELSE {} IN
    Unbound(u, needs) \cup Where(~ DOMAIN u.bind \subseteq {Key(need) : need \in needs}, "bind.undeclared")
      \cup Each(needs, unbindable) \cup Unresolved(d, n, needs, Texts(u))

CrossDocument(d, manifests) ==
    LET unit(n) ==
          LET id == d.units[n].plugin IN
          IF id \notin DOMAIN manifests THEN {"plugin.manifest.missing"}
          ELSE Then(CheckManifest(manifests[id]), ManifestBindings(d, n, manifests[id].needs))
    IN Each(Plugins(d), unit)
-------------------------------------------------------------------------------
(* Phase 4, the host.  A host is what it lacks of what a deployment may    *)
(* name, each thing by what it is of; the characters its root leaves for a *)
(* path's names; and what it was asked about it at all.                    *)
Lacks(host, what, of) == <<what, of>> \in host.lacks
Length(name) == IF name = "long" THEN 60 ELSE 6

(* A plugin unit needs what its Manifest says. *)
NeedsOf(d, n, manifests) ==
    LET u == d.units[n] IN
    IF u.kind = "plugin" THEN (IF u.plugin \in DOMAIN manifests THEN manifests[u.plugin].needs ELSE {})
    ELSE u.needs
NamesProgram(d, n) == d.units[n].exec # "none" \/ (d.kind = "composition" /\ d.units[n].kind = "plugin")

Component(d, n, host) ==
    IF ~NamesProgram(d, n) THEN {}
    ELSE IF Lacks(host, "exec", n) THEN {"component.missing"}
    ELSE IF Lacks(host, "mode", n) THEN {"component.not_executable"}
    ELSE Where(d.units[n].digest # "none" /\ Lacks(host, "digest", n), "component.digest")

NeedFacts(d, n, need, moment, host) ==
    LET path == IF Key(need) \in DOMAIN d.units[n].bind THEN d.units[n].bind[Key(need)] ELSE {} IN
    Where(need.class = "device" /\ moment \in {"creating", "starting"} /\ ~HasReference(path)
            /\ \E p \in path : Lacks(host, "path", p[2]), "path.missing")
      \cup Where(need.class = "secret" /\ moment = "starting" /\ Lacks(host, "secret", need.name),
                 "secret.missing")

UnitFacts(d, n, manifests, moment, host) ==
    LET fact(need) == NeedFacts(d, n, need, moment, host) IN
    Component(d, n, host)
      \cup Where(d.units[n].manifestDigest # "none" /\ Lacks(host, "manifest", d.units[n].plugin),
                 "plugin.manifest.digest")
      \cup Each(NeedsOf(d, n, manifests), fact)

(* A routable channel's certificate, and the service that says who calls. *)
ChannelFacts(d, name, host) ==
    LET a == d.channels[name].address IN
    IF a.class # "routable" THEN {}
    ELSE Where(Lacks(host, "tls", name), "channel.tls.missing")
           \cup Where(a.caller = "good" /\ "authentication" \in host.asked
                        /\ Lacks(host, "authentication", ""), "auth.unavailable")

(* The longest socket: a unit's, and where a plugin says it streams, one   *)
(* with the stream's name as well; the Core's own are shorter.  And the    *)
(* label of a ring, which a stream that may lose is carried on.            *)
Ceilings(d, manifests, host) ==
    LET streams(n) == IF d.units[n].plugin \in DOMAIN manifests THEN manifests[d.units[n].plugin].streams ELSE {}
        socket == {Length(n) : n \in DOMAIN d.units}
                    \cup UNION {{Length(n) + Length(s.id) : s \in streams(n)} : n \in Plugins(d)}
        label == UNION {{Length(n) + Length(s.id) : s \in {x \in streams(n) : x.loss}} : n \in Plugins(d)}
    IN Where(\E l \in socket : l > host.room, "socket.path.ceiling")
         \cup Where(\E l \in label : l > host.labels, "object.name.ceiling")

HostFacts(d, manifests, moment, host) ==
    IF moment = "composing"
    THEN LET unit(n) == IF d.kind = "descriptor" /\ d.units[n].exec # "none" THEN Component(d, n, host) ELSE {}
         IN Each(DOMAIN d.units, unit)
    ELSE LET unit(n) == UnitFacts(d, n, manifests, moment, host)
             channel(n) == IF moment = "starting" THEN ChannelFacts(d, n, host) ELSE {}
             asked(what, code, kinds) ==
               Where(what \in host.asked /\ d.kind \in kinds /\ Lacks(host, what, ""), code)
             both == {"descriptor", "composition"} IN
         Each(DOMAIN d.units, unit) \cup Each(DOMAIN d.channels, channel)
           \cup (IF \E n \in DOMAIN d.units : d.units[n].image # "none"
                 THEN asked("engine", "engine.unreachable", both) ELSE {})
           \cup asked("arch", "arch.mismatch", {"descriptor"})
           \cup asked("core", "core.range", {"descriptor"})
           \cup (IF moment = "installing" THEN {} ELSE
                 asked("runtime", "runtime.dir.missing", both)
                   \cup asked("stamp", "data.range", {"descriptor"}))
           \cup (IF moment = "starting" THEN asked("pin", "descriptor.digest", {"descriptor"}) ELSE {})
           \cup Ceilings(d, manifests, host)
-------------------------------------------------------------------------------
(* Check: a phase after a refusal is not run, and neither is one whose     *)
(* inputs are not given.                                                   *)
Check(d, manifests, moment, host) ==
    Then(Reading(d), Then(Shape(d), Then(Joins(d),
      Then(CrossDocument(d, manifests), HostFacts(d, manifests, moment, host)))))

(* accepts: of a path, that it is there. *)
Accepts(p, v, host) == IF p.type = "path" THEN ~Lacks(host, "path", v) ELSE <<"is", v>> \in p.takes

(* Values: what was supplied, over the defaults; and what is refused of it. *)
Supplied(d, supplied, k) ==
    IF k \in DOMAIN supplied THEN {<<"is", supplied[k]>>} ELSE d.parameters[k].default
Taken(d, supplied, k, host) ==
    \E p \in Supplied(d, supplied, k) : Accepts(d.parameters[k], p[2], host)
Values(d, supplied, host) ==
    [k \in {k \in DOMAIN d.parameters : Taken(d, supplied, k, host)} |->
       (CHOOSE p \in Supplied(d, supplied, k) : TRUE)[2]]
ValuesRefused(d, supplied, host) ==
    Where(~ DOMAIN supplied \subseteq DOMAIN d.parameters, "key.unknown")
      \cup Where(\E k \in DOMAIN d.parameters : Supplied(d, supplied, k) = {}, "parameter.missing")
      \cup Where(\E k \in DOMAIN d.parameters :
                   Supplied(d, supplied, k) # {} /\ ~Taken(d, supplied, k, host), "parameter.value")
=================================================================================
