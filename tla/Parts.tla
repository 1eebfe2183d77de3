-------------------------------- MODULE Parts --------------------------------
(***************************************************************************)
(* The parts of the system that share no state with one another: a node of *)
(* a subscription (SubCatalog, over ShareLinks and JsonProfile) and an     *)
(* AmneziaWG profile (AwgMenu, over AwgProfile), which become the          *)
(* configuration of a core; the key pairs; the health check of a service;  *)
(* and the choice of a new version. A behaviour is of one of them.         *)
(***************************************************************************)
EXTENDS SubCatalog, AwgMenu, KeyStore, HealthCheck, SelfUpdate

VARIABLE part
vars == <<part, subVars, awgVars, keyVars, healthVars, updateVars>>

NoBody == [format |-> "garbage", rows |-> <<>>]

\* A part that nothing happens to.
SubRests == body = NoBody /\ file = None /\ listed = None /\ chosen = None /\ config = None
AwgRests == /\ dir = <<>> /\ shown = Unpicked /\ map = Unpicked /\ number = 0
            /\ selected = Unpicked /\ endpoint = Unpicked /\ changes = MaxChanges
KeysRest == /\ keys = <<>> /\ stage = "idle" /\ caller = "rebuild" /\ before = <<>>
            /\ ended = "none" /\ known = [p \in KeyPairs |-> NoKey] /\ made = {} /\ calls = 0
HealthRests == boot = 0 /\ life = 0 /\ age = 0 /\ polls = 0 /\ stable = 0 /\ verdict = "none"
UpdateRests == /\ line = <<>> /\ have = 0 /\ step = "idle" /\ mode = "menu" /\ at = 0
               /\ looked = 0 /\ offer = 0 /\ cores = "old" /\ record = "none" /\ updates = 0

Init ==
    \/ part = "subscription" /\ SubInit /\ AwgRests /\ KeysRest /\ HealthRests /\ UpdateRests
    \/ part = "awg" /\ SubRests /\ AwgInit /\ KeysRest /\ HealthRests /\ UpdateRests
    \/ part = "keys" /\ SubRests /\ AwgRests /\ KeyInit /\ HealthRests /\ UpdateRests
    \/ part = "health" /\ SubRests /\ AwgRests /\ KeysRest /\ HealthInit /\ UpdateRests
    \/ part = "update" /\ SubRests /\ AwgRests /\ KeysRest /\ HealthRests /\ UpdateInit

SubStep == /\ part = "subscription" /\ SubNext
           /\ UNCHANGED <<part, awgVars, keyVars, healthVars, updateVars>>
AwgStep == /\ part = "awg" /\ AwgNext
           /\ UNCHANGED <<part, subVars, keyVars, healthVars, updateVars>>
KeyStep == /\ part = "keys" /\ KeyNext
           /\ UNCHANGED <<part, subVars, awgVars, healthVars, updateVars>>
HealthStep == /\ part = "health" /\ HealthNext
              /\ UNCHANGED <<part, subVars, awgVars, keyVars, updateVars>>
UpdateStep == /\ part = "update" /\ UpdateNext
              /\ UNCHANGED <<part, subVars, awgVars, keyVars, healthVars>>

Next == SubStep \/ AwgStep \/ KeyStep \/ HealthStep \/ UpdateStep

Spec == Init /\ [][Next]_vars

--------------------------------------------------------------------------
(* Type *)

\* What each step leaves has the shape that the next one reads: a catalog has at
\* least one node, not more than the limit, and no id twice; one that ended in an
\* error has no list, and a node that is chosen is one of the list.
TypeOK ==
    /\ part \in {"subscription", "awg", "keys", "health", "update"}
    /\ file # None => /\ Len(file.nodes) \in 1..MaxNodes
                      /\ \A m, n \in DOMAIN file.nodes : file.nodes[m].id = file.nodes[n].id => m = n
    /\ listed # None => file # None /\ DOMAIN listed = DOMAIN file.nodes
    /\ chosen # None => \E n \in DOMAIN listed : listed[n] = chosen
    /\ DOMAIN dir \subseteq Ids
    /\ map # Unpicked => {map[n] : n \in DOMAIN map} = DOMAIN shown
    /\ number \in 0..Cardinality(Ids) /\ changes \in 0..MaxChanges
    /\ made \subseteq AllPairs /\ stable \in 0..Stable /\ polls \in 0..MaxPolls
    /\ have \in 0..Len(line) /\ at \in 0..Len(line) /\ looked \in 0..MaxLookups

--------------------------------------------------------------------------
(* Share links *)

Booleans == {"tfo", "fastopen", "uot", "permit_without_stream", "disable_sni", "udp_over_stream",
             "zero_rtt_handshake", "reduce_rtt"} \cup Insecure

\* The transport and the security layer that a link asks for.
LayersOf(link) == LET q == Query(link.query)
                  IN IF link.form = "json"
                     THEN [net |-> LegacyNet(q), security |-> LegacySecurity(q)]
                     ELSE [net |-> Net(q), security |-> Get(q, {"security"}, "none")]

\* Options that say what holds without them.
SaysDefault(link, o) ==
    \/ o[2] = ""
    \/ o \in {<<"headerType", "none">>, <<"spx", "/">>, <<"spiderX", "/">>, <<"obfs", "none">>,
             <<"type", "none">>, <<"tls", "none">>, <<"type", "tcp">>, <<"net", "tcp">>, <<"aid", "0">>,
             <<"sni", link.host>>, <<"peer", link.host>>,
             <<"security", IF link.scheme = "trojan" THEN "tls" ELSE "none">>}
    \/ o \in {"encryption", "scy"} \X {IF link.scheme = "vmess" THEN "auto" ELSE "none"}
    \/ o \in {"fp", "fingerprint"} \X {"chrome"} /\ LayersOf(link).security = "reality"
    \/ o = <<"path", "/">> /\ LayersOf(link).net # "grpc"
    \/ o = <<"host", link.host>> /\ LayersOf(link).net = "tcp"
    \/ o = <<"alpn", "h3">> /\ link.scheme \in QuicSchemes
    \/ o \in Booleans \X False

\* What the generators are known to drop. TCP Fast Open and uTLS over QUIC are
\* documented (mksingbox.py:29, README.md:124); not the packetEncoding of Trojan,
\* the members of a VMess object other than v2rayN's, what its "tls" says but tls,
\* xtls and reality, and plugin options without a plugin.
KnownDrop(link, o) ==
    \/ link.scheme \in QuicSchemes /\ o[1] \in TfoQuery \cup {"fp", "fingerprint"}
    \/ link.scheme = "trojan" /\ o[1] = "packetEncoding"
    \/ link.form = "json" /\ o[1] = "other"
    \/ link.form = "json" /\ o[1] = "tls" /\ LayersOf(link).security = "none"
    \/ link.scheme = "ss" /\ o[1] = "plugin" /\ Plugin[o[2]].name = ""

\* Two names of one option, with one value.
Aliases == {{"type", "net"}, {"sni", "peer"}, {"fp", "fingerprint"}, {"pbk", "publicKey"},
            {"sid", "shortId"}, {"spx", "spiderX"}, {"serviceName", "path"}, {"tfo", "fastopen"},
            {"scy", "encryption"}, {"congestion", "congestion_control"}, Insecure, Hop, HopInterval,
            ObfsPassword, {"zero_rtt_handshake", "reduce_rtt"}}
SameOption(o, p) == o[2] = p[2] /\ \E names \in Aliases : {o[1], p[1]} \subseteq names

Without(link, i) ==
    [link EXCEPT !.query = SubSeq(@, 1, i - 1) \o SubSeq(@, i + 1, Len(@))]

\* Every option of a link that is built makes a difference: without it, the link is
\* refused or the outbound is another one, unless the link says the same twice.
\* (mkxray.py:111: "Accepting and then dropping them would make the generated config
\* differ silently from the provider's link".)
NothingDropped ==
    config # None /\ config.kind \in {"xray", "singbox"} =>
        \A i \in DOMAIN chosen.link.query :
            LET link == chosen.link
                o == link.query[i]
                less == Without(link, i)
            IN \/ SaysDefault(link, o) \/ KnownDrop(link, o)
               \/ \E j \in DOMAIN link.query \ {i} : SameOption(link.query[j], o)
               \/ Accepts(config.kind, less) => Outbound(config.kind, less) # config.out

--------------------------------------------------------------------------
(* The catalog *)

Usable(row) == row.kind = "link" /\ Recognized(row.link)
Tunnel(link) == <<link.label, EngineForLink(link), Outbound(EngineForLink(link), link)>>

\* Rows that have one id are one tunnel, with one name: what process_body drops as a
\* duplicate is in the list under another number, and a selection that is kept over a
\* refresh by its id is still the same tunnel.
OffersEveryTunnel ==
    listed # None /\ Cardinality(Firsts(body)) <= MaxNodes =>
        \A i \in Rows(body) : Usable(body.rows[i]) =>
            \E n \in DOMAIN listed :
                /\ listed[n].kind = "link" /\ listed[n].recognized
                /\ Tunnel(listed[n].link) = Tunnel(body.rows[i].link)

\* "The list never offers a node that selecting it would then refuse" (mksub.py:195):
\* neither the generator, nor the engine that the CLI takes from the link, nor, after
\* an update of the program, the rules for profiles decide differently.
OfferedBuilds == chosen # None /\ config # None => config.kind # "refused"

\* "what fetch emits must fit the reader (_load), or the saved catalog could never be
\* opened again" (mksub.py:958). It does but for a text of exactly the limit, to
\* which cmd_fetch adds the end of its line.
ExactlyFull == Text(body) = MaxText
SavedOpens == file # None /\ ~ExactlyFull => listed # None \/ config = None

--------------------------------------------------------------------------
(* JSON profiles *)

IsPool == config # None /\ config.kind = "pool"

\* Traffic that enters by the WireGuard inbound is routed as the profile routes what
\* enters by the inbound it replaces, by the rule that comes first, and so is the
\* traffic of a ping; and no rule that is kept names an outbound that is not there.
RoutesKept ==
    IsPool => /\ Json!SameRoutes(chosen.profile, config.out)
              /\ Json!SameRoutes(chosen.profile, Json!Probed(chosen.profile))
              /\ ~Json!Dangling(config.out)

\* No profile makes the core dial or ask a host that is not public, in whatever place or
\* spelling it names it, open another inbound, or start a control block.
NothingSmuggled ==
    IsPool => /\ Json!Dialled(config.out) \cap Private = {}
              /\ \A i \in DOMAIN config.out.inbounds : config.out.inbounds[i].protocol = "wireguard"
              /\ \A m \in config.out.strays : m.field # "inbounds"
              /\ config.out.services \cap Json!ControlBlocks = {}

--------------------------------------------------------------------------
(* AmneziaWG *)

\* The number that was typed activates the profile that the list showed under it, or
\* none: not the one that has come to that place since.
PickedIsShown == selected # Unpicked => selected = Awg!Listed(shown)[number]

\* Left out on purpose: ListenPort, DNS, and what awg showconf says of each peer.
LeftOut == {"listen_port", "dns", "advanced_security"}

\* Values that stand for a setting that is not there.
SaysZero(setting) ==
    \/ setting.value = ""
    \/ setting.value \in DOMAIN NumberOf /\ NumberOf[setting.value] = 0
    \/ setting.key \in Awg!Awg31Flags /\ ~FlagOf[setting.value]
    \/ Awg!Canonical(setting.key) = "persistent_keepalive" /\ RangeOf[setting.value][1] = 0
    \/ setting.key = "mtu" /\ NumberOf[setting.value] = 1408

WithoutLine(lines, i) == SubSeq(lines, 1, i - 1) \o SubSeq(lines, i + 1, Len(lines))

\* Every setting of the profile that is built reaches the core: without it the profile
\* is refused or the endpoint is another one.
SettingsKept ==
    endpoint # Unpicked =>
        \A i \in DOMAIN endpoint.lines :
            LET setting == endpoint.lines[i]
                less == WithoutLine(endpoint.lines, i)
            IN setting.kind = "setting" =>
                 \/ setting.key \in LeftOut \/ SaysZero(setting)
                 \/ Awg!ProfileOk(less) => Awg!Endpoint(less) # endpoint.json

\* A header tells the four kinds of packets apart whatever value the core draws from
\* each range, and the count of a range's values, taken in a word, is not zero.
HeadersApart ==
    endpoint # Unpicked =>
        LET s == Awg!Interface(endpoint.lines)
            range(h) == RangeOf[s[h]]
            given == {h \in Awg!H : Awg!Given(s, h)}
        IN /\ \A g, h \in given : g # h => (range(g)[1]..range(g)[2]) \cap (range(h)[1]..range(h)[2]) = {}
           /\ \A h \in given : (range(h)[2] - range(h)[1] + 1) % (MaxWord + 1) # 0

--------------------------------------------------------------------------
(* What each part promises *)

\* A list that is shown has every tunnel of the answer, can be read again, and each of
\* its nodes can be selected; and it has the shape that its readers expect.
CatalogIsHonest == TypeOK /\ OffersEveryTunnel /\ OfferedBuilds /\ SavedOpens

\* A profile of a provider routes what it says, and does nothing else.
ProfileIsContained == RoutesKept /\ NothingSmuggled

\* The AmneziaWG profile that was picked is the one in use, whole and unambiguous.
AwgIsFaithful == PickedIsShown /\ SettingsKept /\ HeadersApart
=============================================================================
