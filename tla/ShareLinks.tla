----------------------------- MODULE ShareLinks -----------------------------
(***************************************************************************)
(* What src/src/mkxray.py and src/src/mksingbox.py make of a share link:   *)
(* which links they accept (every other one ends in proxylib's die) and    *)
(* the outbound each becomes.                                              *)
(*                                                                         *)
(* A link is a record [scheme, form, user, pass, host, port, query, label]: *)
(* its parts after percent-decoding, the query a sequence of <<name,       *)
(* value>>. Its form is "uri", or "json" for a VMess object in base64,     *)
(* whose members are then the query, or "opaque" for a Shadowsocks         *)
(* authority in base64. An outbound is a set of <<field, value>>, where a  *)
(* value is the text it was made from. A value that has a structure is a   *)
(* text, too; the constants below say what it decodes to. Upper and lower  *)
(* case are not told apart.                                                *)
(***************************************************************************)
EXTENDS Integers, Sequences, FiniteSets, TLC

CONSTANTS Number,     \* the integer each numeric text stands for
          Amount,     \* for each unit, the number in each text that may end with it
          PortList,   \* the <<low, high>> ranges of each port or list of ports
          Object,     \* each JSON object's [members, depth, width], see OptionOk
          KeyChain,   \* the lengths of the keys in each SS2022 password, 0 if not base64
          Plugin,     \* the [name, opts] in each plugin option
          NotHost,    \* texts that valid_host refuses
          Private,    \* hosts that are local names or addresses not globally routable
          LongText    \* texts that are too long or hold control characters

True == {"1", "true", "yes"}
False == {"0", "false", "no"}

--------------------------------------------------------------------------
(* Options *)

\* flat_query refuses a name that comes twice.
Flat(pairs) == \A i, j \in DOMAIN pairs : pairs[i][1] = pairs[j][1] => i = j
Query(pairs) ==
    [n \in {pairs[i][1] : i \in DOMAIN pairs} |->
        pairs[CHOOSE i \in DOMAIN pairs : pairs[i][1] = n][2]]

\* What the model holds of a link. An object has each member once; those that nothing
\* reads are "other".
LegacyMembers == {"net", "tls", "type", "host", "path", "sni", "fp", "alpn", "pbk", "sid", "spx",
                  "aid", "scy", "other"}
IsLink(link) ==
    /\ DOMAIN link = {"scheme", "form", "user", "pass", "host", "port", "query", "label"}
    /\ Len(link.query) \in Nat /\ DOMAIN link.query = 1..Len(link.query)
    /\ \A i \in DOMAIN link.query : link.query[i] = <<link.query[i][1], link.query[i][2]>>
    /\ link.form = "json" => /\ link.scheme = "vmess" /\ Flat(link.query)
                             /\ \A i \in DOMAIN link.query : link.query[i][1] \in LegacyMembers

Known(q, allowed) == DOMAIN q \subseteq allowed

Given(q, n) == n \in DOMAIN q /\ q[n] # ""
Values(q, names) == {q[n] : n \in {m \in names : Given(q, m)}}
\* qg refuses aliases that disagree.
Agree(q, names) == Cardinality(Values(q, names)) <= 1
Get(q, names, default) ==
    IF Values(q, names) = {} THEN default ELSE CHOOSE v \in Values(q, names) : TRUE

\* The outbound's field for an option, if the link has it.
Field(q, names, field) == {<<field, v>> : v \in Values(q, names)}

IsInt(q, n, low, high) == Given(q, n) => q[n] \in DOMAIN Number /\ Number[q[n]] \in low..high
IsBool(q, names) == Agree(q, names) /\ Values(q, names) \subseteq True \cup False
Yes(q, names) == Values(q, names) \cap True # {}
Switch(q, names, field) == IF Yes(q, names) THEN {<<field, "true">>} ELSE {}

ValidHost(h) == h # "" /\ h \notin NotHost
ValidPort(n) == n \in 1..65535

\* validate_xhttp_download_settings: the address may be absent, not private.
DownloadOk(h) == h = "" \/ (ValidHost(h) /\ h \notin Private)

LocalField == {"certificateFile", "keyFile", "masterKeyLog", "socketPath", "unixSocket",
               "unixSocketPath", "someFile"}

\* A member, at any depth of the object, is a <<key, value>>.
OptionOk(object) ==
    /\ object.depth <= 32
    /\ object.width <= 256
    /\ \A m \in object.members :
         /\ m[1] \in LocalField \cup {"unixSettings", "dsSettings"} => m[2] = ""
         /\ m[1] = "downloadSettings.address" => DownloadOk(m[2])

IsObject(q, n) == Given(q, n) => q[n] \in DOMAIN Object /\ OptionOk(Object[q[n]])

--------------------------------------------------------------------------
(* mkxray: the stream *)

CommonQuery ==
    {"type", "net", "security", "sni", "peer", "host", "fp", "fingerprint", "alpn", "allowInsecure",
     "insecure", "ech", "pcs", "vcn", "pqv", "pbk", "publicKey", "sid", "shortId", "spx", "spiderX",
     "headerType", "path", "serviceName", "mode", "authority", "extra", "fm", "seed", "mtu", "tti",
     "user_agent", "idle_timeout", "health_check_timeout", "permit_without_stream",
     "initial_windows_size", "ed", "eh", "packetEncoding", "tfo", "fastopen"}

SharedSecurity == {"sni", "peer", "fp", "fingerprint"}
SecurityFields ==
    [tls |-> SharedSecurity \cup {"alpn", "allowInsecure", "insecure", "ech", "pcs", "vcn"},
     reality |-> SharedSecurity \cup {"pbk", "publicKey", "sid", "shortId", "spx", "spiderX", "pqv"},
     none |-> {}]

GrpcFields == {"path", "serviceName", "mode", "authority", "user_agent", "idle_timeout",
               "health_check_timeout", "permit_without_stream", "initial_windows_size"}
TransportFields ==
    [tcp |-> {"headerType"}, ws |-> {"host", "path", "ed", "eh"},
     httpupgrade |-> {"host", "path", "ed", "eh"}, grpc |-> GrpcFields,
     xhttp |-> {"host", "path", "mode", "extra"}, splithttp |-> {"host", "path", "mode", "extra"},
     kcp |-> {"headerType", "seed", "mtu", "tti"}]

Net(q) == Get(q, {"type", "net"}, "tcp")
HeaderType(q) == Get(q, {"headerType"}, "none")
HttpHeader(q, net) == net = "tcp" /\ HeaderType(q) = "http"

\* A slip of Relevant: it looks at the security layer only.
RelevantSecurity(q, security, net) ==
    \A n \in DOMAIN q : n \in UNION {SecurityFields[s] : s \in DOMAIN SecurityFields} /\ Given(q, n)
                          => n \in SecurityFields[security]

\* _validate_option_relevance: an option is refused where it would be dropped.
Relevant(q, security, net) ==
    LET offered == TransportFields[net] \cup IF HttpHeader(q, net) THEN {"host", "path"} ELSE {}
    IN \A n \in {m \in DOMAIN q : Given(q, m)} :
         /\ n \in UNION {SecurityFields[s] : s \in DOMAIN SecurityFields} => n \in SecurityFields[security]
         /\ n \in UNION {TransportFields[t] : t \in DOMAIN TransportFields}
              => n \in offered \/ <<n, q[n]>> = <<"headerType", "none">>

SecurityOk(q, security) ==
    /\ Agree(q, {"sni", "peer"}) /\ Agree(q, {"fp", "fingerprint"})
    /\ Agree(q, {"allowInsecure", "insecure"})
    /\ Values(q, {"allowInsecure", "insecure"}) \subseteq False
    /\ security = "reality" => /\ Agree(q, {"pbk", "publicKey"}) /\ Agree(q, {"sid", "shortId"})
                               /\ Agree(q, {"spx", "spiderX"})

Security(q, security, host) ==
    {<<"security", security>>}
    \cup IF security = "none" THEN {}
         ELSE {<<"serverName", Get(q, {"sni", "peer"}, host)>>}
    \cup CASE security = "tls" ->
                Field(q, {"fp", "fingerprint"}, "fingerprint") \cup Field(q, {"alpn"}, "alpn")
                \cup Field(q, {"ech"}, "echConfigList") \cup Field(q, {"pcs"}, "pinnedPeerCertSha256")
                \cup Field(q, {"vcn"}, "verifyPeerCertByName")
           [] security = "reality" ->
                {<<"fingerprint", Get(q, {"fp", "fingerprint"}, "chrome")>>,
                 <<"publicKey", Get(q, {"pbk", "publicKey"}, "")>>,
                 <<"shortId", Get(q, {"sid", "shortId"}, "")>>,
                 <<"spiderX", Get(q, {"spx", "spiderX"}, "/")>>}
                \cup Field(q, {"pqv"}, "mldsa65Verify")
           [] OTHER -> {}

TransportOk(q, net) ==
    /\ net = "tcp" => HeaderType(q) \in {"none", "http"}
    /\ net \in {"ws", "httpupgrade"} => IsInt(q, "ed", 0, 1048576)
    /\ net = "grpc" => /\ Agree(q, {"serviceName", "path"})
                       /\ Values(q, {"mode"}) \subseteq {"gun", "multi"}
                       /\ Values(q, {"user_agent"}) \cap LongText = {}
                       /\ IsInt(q, "idle_timeout", 0, 86400)
                       /\ IsInt(q, "health_check_timeout", 0, 86400)
                       /\ IsInt(q, "initial_windows_size", 0, 16777216)
                       /\ IsBool(q, {"permit_without_stream"})
    /\ net \in {"xhttp", "splithttp"} => IsObject(q, "extra")
    /\ net = "kcp" => /\ ~Given(q, "seed") /\ HeaderType(q) = "none"
                      /\ IsInt(q, "mtu", 576, 65535) /\ IsInt(q, "tti", 1, 1000)

Path(q) == {<<"path", Get(q, {"path"}, "/")>>}
Fields(q, names) == UNION {Field(q, {n}, n) : n \in names}

Transport(q, net, host) ==
    CASE net = "tcp" -> IF HttpHeader(q, net)
                        THEN Path(q) \cup {<<"type", "http">>, <<"host", Get(q, {"host"}, host)>>}
                        ELSE {}
      [] net \in {"ws", "httpupgrade"} -> Path(q) \cup Fields(q, {"host", "ed", "eh"})
      [] net = "grpc" ->
            {<<"serviceName", Get(q, {"serviceName", "path"}, "")>>}
            \cup Fields(q, GrpcFields \ {"path", "serviceName"})
      [] net \in {"xhttp", "splithttp"} -> Path(q) \cup Fields(q, {"host", "mode", "extra"})
      [] net = "kcp" -> Fields(q, {"mtu", "tti"})

\* build_stream
StreamOk(q, security, net) ==
    /\ net \in DOMAIN TransportFields /\ security \in DOMAIN SecurityFields
    /\ Relevant(q, security, net)
    /\ SecurityOk(q, security) /\ TransportOk(q, net)
    /\ IsObject(q, "fm") /\ IsBool(q, {"tfo", "fastopen"})
Stream(q, security, net, host) ==
    {<<"network", IF net = "splithttp" THEN "xhttp" ELSE net>>}
    \cup Security(q, security, host) \cup Transport(q, net, host)
    \cup Field(q, {"fm"}, "finalmask") \cup Switch(q, {"tfo", "fastopen"}, "tcpFastOpen")

--------------------------------------------------------------------------
(* mkxray: the protocols *)

\* The port of a link, 0 if it has none, a list of them or no number.
OnePort(link) ==
    /\ link.port \in DOMAIN PortList /\ Len(PortList[link.port]) = 1
    /\ PortList[link.port][1][1] = PortList[link.port][1][2]
Port(link) == IF OnePort(link) THEN PortList[link.port][1][1] ELSE 0

Server(link) == {<<"protocol", link.scheme>>, <<"address", link.host>>, <<"port", link.port>>}
ServerOk(link) == ValidHost(link.host) /\ ValidPort(Port(link))

PacketEncodingOk(q) == Values(q, {"packetEncoding"}) \subseteq {"none", "packet", "xudp"}

VlessOk(link, q) ==
    /\ link.user # "" /\ ServerOk(link)
    /\ Known(q, CommonQuery \cup {"encryption", "flow"})
    /\ Agree(q, {"type", "net"}) /\ StreamOk(q, Get(q, {"security"}, "none"), Net(q))
    /\ PacketEncodingOk(q)
Vless(link, q) ==
    Server(link) \cup {<<"id", link.user>>, <<"encryption", Get(q, {"encryption"}, "none")>>}
    \cup Fields(q, {"flow", "packetEncoding"})
    \cup Stream(q, Get(q, {"security"}, "none"), Net(q), link.host)

TrojanOk(link, q) ==
    /\ link.user # "" /\ ServerOk(link)
    /\ Known(q, CommonQuery \cup {"flow"}) /\ ~Given(q, "flow")
    /\ Agree(q, {"type", "net"}) /\ StreamOk(q, Get(q, {"security"}, "tls"), Net(q))
Trojan(link, q) ==
    Server(link) \cup {<<"password", link.user>>}
    \cup Stream(q, Get(q, {"security"}, "tls"), Net(q), link.host)

\* Where a VMess object, as v2rayN writes it, has what a URI has in an option.
LegacySource(grpc) ==
    [n \in {"sni", "fp", "alpn", "pbk", "sid", "spx", "path"}
            \cup IF grpc THEN {"authority", "mode", "serviceName"} ELSE {"host", "headerType"} |->
        CASE n \in {"authority", "host"} -> "host"
          [] n \in {"mode", "headerType"} -> "type"
          [] n = "serviceName" -> "path"
          [] OTHER -> n]
LegacyNet(v) == Get(v, {"net"}, "tcp")
LegacyQuery(v) ==
    LET source == LegacySource(LegacyNet(v) = "grpc")
    IN [n \in {m \in DOMAIN source : /\ Given(v, source[m])
                                    /\ <<m, v[source[m]]>> # <<"mode", "none">>} |-> v[source[n]]]
LegacySecurity(v) == LET tls == Get(v, {"tls"}, "none")
                     IN CASE tls = "reality" -> "reality"
                          [] tls \in {"tls", "xtls"} -> "tls"
                          [] OTHER -> "none"

\* What both forms of VMess have in common: _vmess_outbound.
VmessOutOk(link, q, security, net) ==
    link.user # "" /\ ServerOk(link) /\ StreamOk(q, security, net) /\ PacketEncodingOk(q)
VmessOut(link, q, security, net, aid, scy) ==
    Server(link) \cup {<<"id", link.user>>, <<"alterId", aid>>, <<"cipher", scy>>}
    \cup Fields(q, {"packetEncoding"}) \cup Stream(q, security, net, link.host)

VmessUriOk(link, q) ==
    /\ Known(q, CommonQuery \cup {"aid", "scy", "encryption"})
    /\ Agree(q, {"type", "net"}) /\ Agree(q, {"scy", "encryption"})
    /\ Values(q, {"aid"}) \subseteq DOMAIN Number
    /\ VmessOutOk(link, q, Get(q, {"security"}, "none"), Net(q))
VmessUri(link, q) ==
    VmessOut(link, q, Get(q, {"security"}, "none"), Net(q),
             Get(q, {"aid"}, "0"), Get(q, {"scy", "encryption"}, "auto"))

VmessJsonOk(link, v) ==
    /\ Values(v, {"aid"}) \subseteq DOMAIN Number
    /\ VmessOutOk(link, LegacyQuery(v), LegacySecurity(v), LegacyNet(v))
VmessJson(link, v) ==
    VmessOut(link, LegacyQuery(v), LegacySecurity(v), LegacyNet(v),
             Get(v, {"aid"}, "0"), Get(v, {"scy"}, "auto"))

--------------------------------------------------------------------------
(* Shadowsocks: which engine, and its outbound there *)

Ss2022Bytes == ("2022-blake3-aes-128-gcm" :> 16) @@ ("2022-blake3-aes-256-gcm" :> 32)
               @@ ("2022-blake3-chacha20-poly1305" :> 32)
MaxKeys == 16
Is2022(method) == method \in DOMAIN Ss2022Bytes \cup {"2022-other"}

\* Xray takes a key of 32 bytes with the AES-128 method, too.
Compatible(method, length) == method = "2022-blake3-aes-128-gcm" /\ length = 32
KeysOk(method, pass) ==
    /\ method \in DOMAIN Ss2022Bytes
    /\ pass \in DOMAIN KeyChain
    /\ LET keys == KeyChain[pass]
       IN /\ Len(keys) \in 1..MaxKeys
          /\ Len(keys) > 1 => method # "2022-blake3-chacha20-poly1305"
          /\ \A i \in DOMAIN keys : keys[i] = Ss2022Bytes[method] \/ Compatible(method, keys[i])
XrayKeys(method, pass) ==
    \E i \in DOMAIN KeyChain[pass] : KeyChain[pass][i] # Ss2022Bytes[method]

SingboxPlugins == {"obfs-local", "simple-obfs", "v2ray-plugin"}
NoPlugin == [name |-> "", opts |-> ""]
PluginOf(q) == IF Given(q, "plugin") THEN Plugin[q.plugin] ELSE NoPlugin

\* shadowsocks_engine: "" is a refusal.
SsEngine(method, pass, plugin) ==
    IF (Is2022(method) /\ ~KeysOk(method, pass)) \/ plugin \notin SingboxPlugins \cup {""} THEN ""
    ELSE IF Is2022(method) /\ XrayKeys(method, pass) THEN IF plugin = "" THEN "xray" ELSE ""
    ELSE IF Is2022(method) \/ plugin # "" THEN "singbox" ELSE "xray"

CredentialsOk(link) ==
    /\ link.user # "" /\ link.pass # "" /\ ServerOk(link)
    /\ Is2022(link.user) => KeysOk(link.user, link.pass)
Credentials(link) == Server(link) \cup {<<"method", link.user>>, <<"password", link.pass>>}

SsQuery == {"plugin", "uot", "tfo", "fastopen"}
SsEngineOf(link, q) == SsEngine(link.user, link.pass, PluginOf(q).name)

XraySsOk(link, q) ==
    /\ CredentialsOk(link) /\ Known(q, SsQuery) /\ PluginOf(q).name = ""
    /\ IsBool(q, {"uot"}) /\ IsBool(q, {"tfo", "fastopen"})
SingboxSsOk(link, q) ==
    /\ CredentialsOk(link) /\ Known(q, SsQuery) /\ SsEngineOf(link, q) = "singbox"
    /\ IsBool(q, {"uot"}) /\ IsBool(q, {"tfo", "fastopen"})
SsSwitches(q) == Switch(q, {"uot"}, "uot") \cup Switch(q, {"tfo", "fastopen"}, "tcpFastOpen")
XraySs(link, q) == Credentials(link) \cup SsSwitches(q)
\* The two names of one plugin: plugin_alias.
Alias(plugin) == IF plugin = "simple-obfs" THEN "obfs-local" ELSE plugin
SingboxSs(link, q) ==
    Credentials(link) \cup SsSwitches(q)
    \cup IF PluginOf(q).name = "" THEN {}
         ELSE {<<"plugin", Alias(PluginOf(q).name)>>, <<"plugin_opts", PluginOf(q).opts>>}

--------------------------------------------------------------------------
(* mksingbox: the protocols over QUIC *)

Insecure == {"insecure", "allowInsecure", "allow_insecure"}
TlsQuery == {"sni", "peer", "alpn", "fp", "fingerprint"} \cup Insecure
TfoQuery == {"tfo", "fastopen"}
QuicOk(q) ==
    /\ Agree(q, {"sni", "peer"}) /\ IsBool(q, Insecure) /\ ~Yes(q, Insecure)
    /\ IsBool(q, TfoQuery)
QuicTls(q, host) ==
    {<<"server_name", Get(q, {"sni", "peer"}, host)>>, <<"alpn", Get(q, {"alpn"}, "h3")>>}

\* _port_ranges
RangesOk(text) ==
    /\ text \in DOMAIN PortList
    /\ Len(PortList[text]) <= 16
    /\ \A i \in DOMAIN PortList[text] :
         LET r == PortList[text][i] IN ValidPort(r[1]) /\ ValidPort(r[2]) /\ r[1] <= r[2]
IsAmount(q, names, unit, low, high) ==
    Agree(q, names) /\ \A v \in Values(q, names) :
                         v \in DOMAIN Amount[unit] /\ Amount[unit][v] \in low..high

Hop == {"mport", "ports"}
HopInterval == {"hop-interval", "hop_interval"}
ObfsPassword == {"obfs-password", "obfs_password"}
\* split_port_list: the ports of an authority that lists them.
Listed(link) == IF link.port \in DOMAIN PortList /\ ~OnePort(link) THEN link.port ELSE ""
HopPorts(link, q) == IF Listed(link) # "" THEN Listed(link) ELSE Get(q, Hop, "")
Obfs(q) == IF Get(q, {"obfs"}, "") = "none" /\ Values(q, ObfsPassword) = {}
           THEN "" ELSE Get(q, {"obfs"}, "")

\* The user and the password, of which either may be missing.
Auth(link) == SelectSeq(<<link.user, link.pass>>, LAMBDA t : t # "")

RatesOk(q) == \A n \in {"upmbps", "downmbps"} : IsAmount(q, {n}, "mbps", 1, 100000)
IntervalOk(q) == IsAmount(q, HopInterval, "s", 5, 3600)
HopOk(link, q) ==
    /\ Agree(q, Hop) /\ ~(Listed(link) # "" /\ Values(q, Hop) # {})
    /\ HopPorts(link, q) # "" => RangesOk(HopPorts(link, q))
    /\ Values(q, HopInterval) # {} => HopPorts(link, q) # ""
ObfsOk(q) ==
    /\ Agree(q, ObfsPassword) /\ Obfs(q) \in {"", "salamander"}
    /\ (Obfs(q) = "") = (Values(q, ObfsPassword) = {})
Hysteria2Ok(link, q) ==
    /\ ValidHost(link.host)
    /\ link.port # "" /\ Listed(link) = "" => ValidPort(Port(link))
    /\ Known(q, TlsQuery \cup TfoQuery \cup Hop \cup HopInterval \cup ObfsPassword
                \cup {"obfs", "pinSHA256", "pinsha256", "upmbps", "downmbps"})
    /\ QuicOk(q) /\ Values(q, {"pinSHA256", "pinsha256"}) = {}
    /\ HopOk(link, q) /\ IntervalOk(q) /\ RatesOk(q) /\ ObfsOk(q)
Hysteria2(link, q) ==
    {<<"protocol", link.scheme>>, <<"address", link.host>>,
     <<"password", Auth(link)>>, <<"port", IF link.port = "" THEN "443" ELSE link.port>>,
     <<"server_ports", HopPorts(link, q)>>, <<"obfs", Obfs(q)>>}
    \cup QuicTls(q, link.host) \cup Field(q, HopInterval, "hop_interval")
    \cup Field(q, ObfsPassword, "obfs_password") \cup Fields(q, {"upmbps", "downmbps"})

TuicOk(link, q) ==
    /\ link.user # "" /\ ServerOk(link)
    /\ Known(q, TlsQuery \cup TfoQuery \cup
                {"congestion_control", "congestion", "udp_relay_mode", "udp_over_stream",
                 "zero_rtt_handshake", "reduce_rtt", "heartbeat", "network", "disable_sni"})
    /\ QuicOk(q) /\ Agree(q, {"congestion_control", "congestion"})
    /\ IsBool(q, {"disable_sni"}) /\ IsBool(q, {"udp_over_stream"})
    /\ IsBool(q, {"zero_rtt_handshake", "reduce_rtt"})
    /\ ~(Yes(q, {"udp_over_stream"}) /\ Given(q, "udp_relay_mode"))
    /\ Values(q, {"network"}) \subseteq {"tcp", "udp"}
Tuic(link, q) ==
    Server(link) \cup {<<"uuid", link.user>>, <<"password", link.pass>>} \cup QuicTls(q, link.host)
    \cup Switch(q, {"disable_sni"}, "disable_sni") \cup Switch(q, {"udp_over_stream"}, "udp_over_stream")
    \cup Switch(q, {"zero_rtt_handshake", "reduce_rtt"}, "zero_rtt_handshake")
    \cup Field(q, {"congestion_control", "congestion"}, "congestion_control")
    \cup Fields(q, {"udp_relay_mode", "heartbeat", "network"})

--------------------------------------------------------------------------
(* The two generators, and which of them the CLI calls *)

XraySchemes == {"vless", "vmess", "trojan", "ss"}
QuicSchemes == {"hysteria2", "hy2", "tuic"}

Readable(link) == link.form # "broken" /\ (link.form = "json" \/ Flat(link.query))

XrayOk(link) ==
    LET q == Query(link.query)
    IN Readable(link) /\
       CASE link.scheme = "vless" -> VlessOk(link, q)
         [] link.scheme = "trojan" -> TrojanOk(link, q)
         [] link.scheme = "ss" -> XraySsOk(link, q)
         [] link.scheme = "vmess" -> IF link.form = "json" THEN VmessJsonOk(link, q)
                                     ELSE VmessUriOk(link, q)
         [] OTHER -> FALSE
Xray(link) ==
    LET q == Query(link.query)
    IN CASE link.scheme = "vless" -> Vless(link, q)
         [] link.scheme = "trojan" -> Trojan(link, q)
         [] link.scheme = "ss" -> XraySs(link, q)
         [] OTHER -> IF link.form = "json" THEN VmessJson(link, q) ELSE VmessUri(link, q)

SingboxOk(link) ==
    LET q == Query(link.query)
    IN Readable(link) /\
       CASE link.scheme \in {"hysteria2", "hy2"} -> Hysteria2Ok(link, q)
         [] link.scheme = "tuic" -> TuicOk(link, q)
         [] link.scheme = "ss" -> SingboxSsOk(link, q)
         [] OTHER -> FALSE
Singbox(link) ==
    LET q == Query(link.query)
    IN CASE link.scheme = "tuic" -> Tuic(link, q)
         [] link.scheme = "ss" -> SingboxSs(link, q)
         [] OTHER -> Hysteria2(link, q)

Accepts(engine, link) == IF engine = "xray" THEN XrayOk(link) ELSE SingboxOk(link)
Outbound(engine, link) == IF engine = "xray" THEN Xray(link) ELSE Singbox(link)

\* engine_for_link_file of the CLI; --print-ss-engine for Shadowsocks.
EngineForLink(link) ==
    CASE link.scheme \in QuicSchemes -> "singbox"
      [] link.scheme \in XraySchemes \ {"ss"} -> "xray"
      [] link.scheme = "ss" -> LET q == Query(link.query)
                               IN IF Readable(link) /\ CredentialsOk(link) /\ Known(q, SsQuery)
                                  THEN SsEngineOf(link, q) ELSE ""
      [] OTHER -> ""
=============================================================================
