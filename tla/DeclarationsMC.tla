----------------------------- MODULE DeclarationsMC -----------------------------
(* Documents for TLC: a descriptor and a composition with a oneshot, a     *)
(* plugin on it and an interface on that, each with everything a document  *)
(* may say, and the same with one thing said wrong: of each kind of        *)
(* finding, one.                                                           *)
EXTENDS Declarations, TLC

Seconds(n) == <<n, "s">>
Nothings == [x \in {} |-> 0]
Program == [kind |-> "oneshot", plugin |-> "none", exec |-> "relative", image |-> "none",
            digest |-> "good", manifestDigest |-> "none", other |-> "none", reserved |-> FALSE,
            texts |-> {}, needs |-> {}, bind |-> Nothings, dependsOn |-> {}, autostart |-> TRUE,
            migratesFrom |-> "none", policy |-> Nothings]
Camera == [class |-> "device", name |-> "camera"]
Token == [class |-> "secret", name |-> "token"]
Data == [class |-> "storage", name |-> "data"]
Audio == [class |-> "audio", name |-> ""]

Migrate == [Program EXCEPT !.texts = {<<"is", "up">>, <<"param", "label">>}, !.migratesFrom = "good",
                           !.policy = [x \in {"stop_window", "restart.on_failure"} |->
                                         IF x = "stop_window" THEN Seconds(20) ELSE <<1, "none">>]]
Acquire == [Program EXCEPT !.kind = "plugin", !.plugin = "org.acquire", !.manifestDigest = "good",
                           !.bind = [x \in {"camera"} |-> {<<"param", "device">>}],
                           !.texts = {<<"bind", "camera">>, <<"bind", "token">>}, !.dependsOn = {"migrate"}]
Panel == [Program EXCEPT !.kind = "interface", !.exec = "none", !.image = "good", !.digest = "none",
                         !.needs = {Data, Camera, Audio}, !.bind = [x \in {"camera"} |-> {<<"is", "/dev/video0">>}],
                         !.texts = {<<"bind", "data">>, <<"bind", "camera">>}, !.dependsOn = {"acquire"}]
Routable == [class |-> "routable", host |-> "good", port |-> {<<"param", "port">>},
             transport |-> "good", caller |-> "good"]
Channel == [unit |-> "none", transport |-> "local", clients |-> "single", onSuspend |-> "none",
            address |-> NoAddress, other |-> "none"]
Parameter(type, required, default) ==
    [type |-> type, label |-> "good", required |-> required, restricted |-> "none",
     default |-> default, takes |-> {<<"is", "x">>, <<"is", "y">>, <<"is", "8080">>}]

Rule(prevails, over) == [says |-> {"prevails", "over"}, prevails |-> prevails, over |-> over]

Good ==
    [kind |-> "descriptor", read |-> "parsed", model |-> "good", other |-> "none",
     head |-> [x \in DOMAIN NoHead |-> "good"], policy |-> [x \in {"startup_window"} |-> Seconds(40)],
     units |-> [n \in {"migrate", "acquire", "panel"} |->
                  CASE n = "migrate" -> Migrate [] n = "acquire" -> Acquire [] n = "panel" -> Panel],
     channels |-> [c \in {"wall", "bench"} |->
                     IF c = "bench" THEN Channel
                     ELSE [Channel EXCEPT !.unit = "panel", !.transport = "http+ws", !.address = Routable]],
     arbitration |-> {Rule("bench", {"wall"})},
     parameters |-> [k \in {<<"shared", "label">>, <<"acquire", "device">>, <<"wall", "port">>} |->
                       CASE k[2] = "label"  -> Parameter("string", "false", {<<"is", "x">>})
                         [] k[2] = "device" -> Parameter("path", "true", {})
                         [] k[2] = "port"   -> Parameter("integer", "false", {<<"is", "8080">>})]]

Claims ==
    [read |-> "parsed", model |-> "good", removed |-> FALSE, other |-> "none", id |-> "good",
     protocol |-> "good", needs |-> {Camera, Token}, streams |-> {[id |-> "frames", loss |-> TRUE]},
     lists |-> {<<"command", "go">>},
     capabilities |-> {[name |-> "good", said |-> FALSE, other |-> "none", stated |-> TRUE, governs |-> {o}]
                         : o \in {<<"stream", "frames">>, <<"command", "go">>}}]
FoundIn(m) == [p \in {"org.acquire"} |-> m]
Bundle(d, m) == [document |-> d, manifests |-> FoundIn(m)]

(* One thing said wrong, of a unit, a channel, an address, a parameter, the *)
(* document, or a Manifest.                                                *)
SetUnit(d, n, x, v) == [d EXCEPT !.units[n] = [@ EXCEPT ![x] = v]]
SetChannel(d, x, v) == [d EXCEPT !.channels["wall"] = [@ EXCEPT ![x] = v]]
SetAddress(d, x, v) == [d EXCEPT !.channels["wall"].address = [@ EXCEPT ![x] = v]]
SetParameter(d, k, x, v) == [d EXCEPT !.parameters[k] = [@ EXCEPT ![x] = v]]
Named(f, old, new) == [x \in (DOMAIN f \ {old}) \cup {new} |-> IF x = new THEN f[old] ELSE f[x]]

DocumentFaults(d) ==
    {[d EXCEPT ![f[1]] = f[2]] : f \in {<<"read", "unreadable">>, <<"read", "malformed">>, <<"read", "scalar">>,
       <<"model", "none">>, <<"model", "bad">>, <<"model", "other">>, <<"other", "good">>}}
    \cup {[d EXCEPT !.head[x] = "bad"] : x \in {"id", "version"}}
    \cup {[d EXCEPT !.policy = f[1] :> f[2]] : f \in {<<"startup_window", <<0 - 1, "s">>>>,
            <<"retention.bytes", <<0 - 1, "KB">>>>, <<"restart.on_failure", <<1, "none">>>>,
            <<"heartbeat.tolerance", <<0, "none">>>>, <<"retention.age", <<3, "none">>>>}}
    \cup {[d EXCEPT !.units = Nothings],
          [d EXCEPT !.arbitration = {[Rule("", {"wall"}) EXCEPT !.says = {"over"}]}],
          [d EXCEPT !.arbitration = {Rule("bench", {"desk"})}]}
UnitFaults(d) ==
    {SetUnit(d, "acquire", f[1], f[2]) : f \in {<<"kind", "none">>, <<"kind", "service">>, <<"plugin", "none">>,
       <<"plugin", "bad">>, <<"other", "good">>, <<"reserved", TRUE>>, <<"needs", {Camera}>>,
       <<"bind", Nothings>>, <<"bind", [x \in {"camera", "token"} |-> {<<"is", "/dev/video0">>}]>>,
       <<"bind", [x \in {"camera", "lamp"} |-> {<<"is", "/dev/video0">>}]>>,
       <<"texts", {<<"bind", "lamp">>}>>, <<"texts", {<<"param", "lamp">>}>>,
       <<"dependsOn", {"archive"}>>, <<"dependsOn", {"panel"}>>, <<"migratesFrom", "good">>,
       <<"exec", "none">>, <<"digest", "none">>, <<"digest", "bad">>, <<"manifestDigest", "bad">>}}
    \cup {SetUnit(d, "panel", f[1], f[2]) : f \in {<<"plugin", "org.acquire">>, <<"image", "bad">>,
       <<"image", "none">>, <<"exec", "relative">>, <<"texts", {<<"bind", "audio">>}>>, <<"bind", Nothings>>,
       <<"needs", {[class |-> "device", name |-> ""]}>>, <<"manifestDigest", "good">>,
       <<"bind", [x \in {"camera", "data"} |-> {<<"is", "/dev/video0">>}]>>}}
    \cup {[d EXCEPT !.units = Named(@, "panel", "a/b")]}
    \cup {[SetUnit(d, "panel", "dependsOn", {"long"}) EXCEPT !.units = Named(@, "acquire", "long")]}
ChannelFaults(d) ==
    {SetChannel(d, f[1], f[2]) : f \in {<<"other", "good">>, <<"transport", "none">>, <<"transport", "smtp">>,
       <<"clients", "none">>, <<"clients", "three">>, <<"onSuspend", "blink">>, <<"unit", "archive">>,
       <<"unit", "migrate">>}}
    \cup {SetAddress(d, f[1], f[2]) : f \in {<<"class", "none">>, <<"class", "local">>, <<"class", "loopback">>,
       <<"host", "none">>, <<"host", "refers">>, <<"caller", "none">>, <<"port", {<<"is", "http">>}>>,
       <<"port", {<<"param", "lamp">>}>>, <<"port", {<<"bind", "camera">>}>>}}
ParameterFaults(d) ==
    {SetParameter(d, <<"shared", "label">>, f[1], f[2]) : f \in {<<"type", "none">>, <<"type", "enum">>,
       <<"type", "colour">>, <<"label", "none">>, <<"required", "none">>, <<"required", "maybe">>,
       <<"required", "true">>, <<"restricted", "range">>, <<"default", {}>>, <<"default", {<<"is", "z">>}>>}}
    \cup {[d EXCEPT !.parameters = Named(@, <<"acquire", "device">>, <<"archive", "device">>)]}
ManifestFaults ==
    {[Claims EXCEPT ![f[1]] = f[2]] : f \in {<<"read", "malformed">>, <<"read", "unreadable">>, <<"read", "scalar">>,
       <<"model", "none">>, <<"model", "other">>, <<"removed", TRUE>>, <<"other", "good">>, <<"id", "another">>,
       <<"id", "bad">>, <<"protocol", "other">>, <<"protocol", "none">>, <<"streams", {}>>,
       <<"streams", {[id |-> "..", loss |-> FALSE]}>>, <<"lists", {<<"command", "go">>, <<"command", "stop">>}>>,
       <<"needs", {Camera, [class |-> "lamp", name |-> "lamp"]}>>}}
    \cup {[Claims EXCEPT !.capabilities = {[c EXCEPT ![f[1]] = f[2]] : c \in @}] : f \in {<<"name", "none">>,
       <<"said", TRUE>>, <<"stated", FALSE>>, <<"governs", {}>>}}

(* A second version: it drops a parameter, and requires another. *)
Successor == [Good EXCEPT !.units["migrate"].texts = {<<"param", "site">>},
                       !.parameters = Named([@ EXCEPT ![<<"shared", "label">>] = Parameter("string", "true", {})],
                                            <<"shared", "label">>, <<"shared", "site">>)]
(* A binding that refers to another, and one to itself. *)
Chain == SetUnit(Good, "panel", "bind", [x \in {"camera", "lamp"} |->
                   IF x = "lamp" THEN {<<"bind", "camera">>} ELSE {<<"is", "/dev/video0">>}])
Circle == [SetUnit(Good, "panel", "texts", {<<"bind", "lamp">>}) EXCEPT
             !.units["panel"].bind = [x \in {"camera", "lamp"} |->
                IF x = "lamp" THEN {<<"bind", "lamp">>} ELSE {<<"is", "/dev/video0">>}]]

(* Every parameter has a default, and a unit is left for an operator. *)
Defaulted == [Good EXCEPT !.parameters[<<"acquire", "device">>] = Parameter("path", "false", {<<"is", "/dev/video0">>}),
                          !.units["migrate"].autostart = FALSE]
(* Two texts read as other keys by the Core: a group with a dot, a name with *)
(* an equals sign; and a group with one, which no invocation can name.     *)
ReadFor == (<<"a.b", "device">> :> <<"a", "b.device">>)
CutShort == (<<"shared", "label=x">> :> <<"shared", "label">>) @@ (<<"wall=x", "port">> :> <<"wall", "">>)
Respelt(d, old, new) == [d EXCEPT !.parameters = Named(@, old, new)]
OddlyNamed ==
    LET dotted == [Named(Good.units, "acquire", "a.b") EXCEPT !["panel"].dependsOn = {"a.b"}] IN
    {Respelt([Good EXCEPT !.units = dotted], <<"acquire", "device">>, <<"a.b", "device">>),
     Respelt([Defaulted EXCEPT !.units["migrate"].texts = {<<"param", "label=x">>}],
             <<"shared", "label">>, <<"shared", "label=x">>),
     Respelt([Defaulted EXCEPT !.channels = Named(@, "wall", "wall=x"),
                               !.arbitration = {Rule("bench", {"wall=x"})}],
             <<"wall", "port">>, <<"wall=x", "port">>)}

(* Written well, and not what it says: figures their integers do not hold, *)
(* and a rule that prevails over nothing.                                  *)
Beyond(d) ==
    {[d EXCEPT !.policy = f[1] :> f[2]] : f \in {<<"startup_window", <<20000, "m">>>>,
       <<"retention.bytes", <<Word \div 2, "KB">>>>, <<"retention.bytes", <<0, "none">>>>}}
    \cup {[d EXCEPT !.arbitration = {Rule("bench", {}), Rule("", {"wall"})}]}

(* The same in the service form: no parameters, no digests, no head. *)
Composition ==
    LET plain(u) == [u EXCEPT !.exec = IF u.kind = "oneshot" THEN "good" ELSE "none", !.digest = "none",
                              !.manifestDigest = "none", !.migratesFrom = "none"] IN
    [Good EXCEPT !.kind = "composition", !.head = NoHead, !.parameters = Nothings, !.model = "none",
                 !.units = [n \in DOMAIN @ |->
                    [plain(@[n]) EXCEPT
                       !.texts = IF n = "migrate" THEN {<<"is", "up">>} ELSE @,
                       !.bind = [x \in DOMAIN @ |-> {<<"is", "/dev/video0">>}]]],
                 !.channels["wall"].address.port = {<<"is", "8080">>}]

(* The plugin needs another device, as an edit of its Manifest has it. *)
Lamp == [Claims EXCEPT !.needs = {[class |-> "device", name |-> "lamp"], Token}]
Parts(d) == DocumentFaults(d) \cup UnitFaults(d) \cup ChannelFaults(d)
Descriptors == {Bundle(d, Claims) : d \in {Good, Defaulted, Chain, Circle} \cup Parts(Good)
                                                \cup ParameterFaults(Good) \cup OddlyNamed \cup Beyond(Good)}
                 \cup {Bundle(Good, m) : m \in ManifestFaults}
                 \cup {[Bundle(Good, Claims) EXCEPT !.manifests = Nothings]}
Compositions == {Bundle(d, Claims) : d \in {Composition} \cup Parts(Composition) \cup Beyond(Composition)
                   \cup {[Composition EXCEPT !.parameters = Good.parameters],
                         [Composition EXCEPT !.head = Good.head],
                         SetUnit(Composition, "migrate", "exec", "relative")}}
Drafts2 == {Bundle(Successor, Claims), Bundle(Defaulted, Lamp), Bundle(Chain, Claims),
            Bundle(Composition, Claims), Bundle(Composition, Lamp)}
HostStates2 ==
    {{}} \cup {{<<"exec", "migrate">>, <<"secret", "token">>}, {<<"mode", "acquire">>}, {<<"digest", "acquire">>},
               {<<"manifest", "org.acquire">>, <<"path", "/dev/video0">>}, {<<"tls", "wall">>},
               {<<"authentication", "">>}, {<<"engine", "">>}, {<<"arch", "">>, <<"core", "">>},
               {<<"runtime", "">>}, {<<"stamp", "">>}, {<<"path", "/dev/video0">>},
               {<<"readable", "">>, <<"core", "">>}, {<<"readable", "">>}}

Right == {Bundle(d, Claims) : d \in {Good, Defaulted, Chain, Composition}}
FilesOf(b) == [p \in {"v1", "v2", "work", "site"} |->
                 IF p = "v2" /\ b \in Right /\ b.document.kind = "descriptor" THEN Bundle(Successor, Claims) ELSE b]

(* What is said wrong, or lacking as it begins, is gated as it stands; what *)
(* is right may be edited meanwhile, and the host may change.              *)
Starts2 ==
    {[form |-> fb[1], files |-> FilesOf(fb[2]), lacks |-> {},
      changes |-> IF fb[2] \in Right THEN MaxChanges ELSE 0]
       : fb \in ({"application"} \X Descriptors) \cup ({"service"} \X Compositions)}
    \cup {[form |-> f[1], files |-> FilesOf(Bundle(f[2], Claims)), lacks |-> l, changes |-> 0]
            : f \in {<<"application", Good>>, <<"service", Composition>>}, l \in HostStates2}
Settings2 == {NoValues, <<"a.b", "device">> :> "/dev/video0", [k \in {<<"acquire", "device">>} |-> "/dev/video0"],
              [k \in {<<"acquire", "device">>, <<"shared", "label">>} |-> IF k[1] = "shared" THEN "y" ELSE "/dev/video0"],
              [k \in {<<"shared", "label">>} |-> "z"], [k \in {<<"shared", "site">>} |-> "x"]}

(* Where another part of a run is checked: nothing written, nothing read. *)
NothingDeclared ==
    /\ form = "none" /\ files = Nothings /\ lacks = {} /\ record = NoRecord /\ core = NoCore
    /\ launched = NothingLaunched /\ passed = {} /\ refusal = NoRefusal /\ changes = 0
=================================================================================
