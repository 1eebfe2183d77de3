------------------------------ MODULE MCParts -------------------------------
(***************************************************************************)
(* A small instance of Parts. Links: every scheme, transport and security  *)
(* layer with each option alone, and every pair of the options that have   *)
(* to do with each other, in both orders. Feeds of two and three rows, of  *)
(* which two fit. Profiles: one that is accepted, each with one or two     *)
(* changes. AmneziaWG profiles: the same, and a menu during which another  *)
(* session changes the directory twice. Keys: each file missing, right or  *)
(* wrong, and three calls. Health checks: the program's own numbers, and   *)
(* every core that listens for some time after some time.                  *)
(***************************************************************************)
EXTENDS Parts

--------------------------------------------------------------------------
(* What the texts decode to *)

MCNumber == ("0" :> 0) @@ ("1" :> 1) @@ ("-1" :> -1) @@ ("3" :> 3) @@ ("8" :> 8) @@ ("12" :> 12)
            @@ ("20" :> 20) @@ ("64" :> 64) @@ ("1408" :> 1408) @@ ("1500" :> 1500) @@ ("2048" :> 2048)
            @@ ("9001" :> 9001) @@ ("65359" :> 65359) @@ ("65360" :> 65360) @@ ("99999" :> 99999)
MCAmount == [s |-> ("30s" :> 30) @@ ("20" :> 20) @@ ("1" :> 1), mbps |-> ("20" :> 20) @@ ("50mbps" :> 50)]
MCPortList == ("443" :> <<<<443, 443>>>>) @@ ("0" :> <<<<0, 0>>>>)
              @@ ("443,5000-6000" :> <<<<443, 443>>, <<5000, 6000>>>>)
              @@ ("6000-5000" :> <<<<6000, 5000>>>>) @@ ("7000-7001" :> <<<<7000, 7001>>>>)
Obj(members) == [members |-> members, depth |-> 2, width |-> 1]
MCObject == ("{plain}" :> Obj({})) @@ ("{deep}" :> [Obj({}) EXCEPT !.depth = 33])
            @@ ("{file}" :> Obj({<<"keyFile", "/etc/key">>}))
            @@ ("{download}" :> Obj({<<"downloadSettings.address", "cdn">>}))
            @@ ("{lan}" :> Obj({<<"downloadSettings.address", "lan">>}))
MCKeyChain == ("k16" :> <<16>>) @@ ("k32" :> <<32>>) @@ ("k16:k16" :> <<16, 16>>)
              @@ ("k16:k32" :> <<16, 32>>) @@ ("k0" :> <<0>>)
MCPlugin == ("obfs-local;obfs=http" :> [name |-> "obfs-local", opts |-> "obfs=http"])
            @@ ("obfs-local" :> [name |-> "obfs-local", opts |-> ""])
            @@ ("v2ray-plugin;tls" :> [name |-> "v2ray-plugin", opts |-> "tls"])
            @@ ("other" :> [name |-> "other", opts |-> ""]) @@ (";tls" :> [name |-> "", opts |-> "tls"])
MCNotHost == {"-h", "a b"}
MCPrivate == {"lan", "10.0.0.1", "0x7f.1"}

--------------------------------------------------------------------------
(* Links *)

Link(scheme, query) ==
    [scheme |-> scheme, form |-> "uri", user |-> "u", pass |-> "", host |-> "h", port |-> "443",
     query |-> query, label |-> "a"]

StreamOptions ==
    {<<"sni", "s">>, <<"peer", "s2">>, <<"sni", "">>, <<"peer", "h">>, <<"fp", "f">>, <<"fp", "chrome">>,
     <<"fingerprint", "f2">>, <<"alpn", "al">>,
     <<"allowInsecure", "1">>, <<"insecure", "0">>, <<"insecure", "maybe">>, <<"ech", "e">>, <<"pcs", "pc">>,
     <<"vcn", "vc">>, <<"pqv", "pq">>, <<"pbk", "pk">>, <<"publicKey", "pk2">>, <<"sid", "si">>,
     <<"shortId", "si2">>, <<"spx", "sp">>, <<"spiderX", "sp2">>, <<"headerType", "http">>,
     <<"headerType", "none">>, <<"headerType", "srtp">>, <<"host", "hh">>, <<"path", "pa">>, <<"path", "/">>,
     <<"serviceName", "sn">>, <<"mode", "gun">>, <<"mode", "auto">>, <<"authority", "au">>,
     <<"extra", "{plain}">>, <<"extra", "{lan}">>, <<"extra", "{download}">>, <<"extra", "{file}">>,
     <<"extra", "text">>, <<"fm", "{plain}">>, <<"fm", "{deep}">>, <<"seed", "se">>, <<"mtu", "1500">>,
     <<"mtu", "99999">>, <<"tti", "20">>, <<"tti", "x">>, <<"user_agent", "ua">>, <<"user_agent", "long">>,
     <<"idle_timeout", "20">>, <<"health_check_timeout", "64">>, <<"health_check_timeout", "99999">>,
     <<"permit_without_stream", "1">>, <<"permit_without_stream", "no">>, <<"initial_windows_size", "2048">>,
     <<"ed", "2048">>, <<"ed", "-1">>, <<"eh", "eh">>, <<"packetEncoding", "xudp">>, <<"packetEncoding", "pe">>,
     <<"tfo", "1">>, <<"fastopen", "0">>, <<"flow", "fl">>, <<"encryption", "en">>, <<"aid", "64">>,
     <<"aid", "x">>, <<"scy", "sc">>, <<"other", "o">>}
Nets == {"tcp", "ws", "httpupgrade", "grpc", "xhttp", "splithttp", "kcp", "quic"}
Securities == {"tls", "reality", "none", "xtls"}

Over(scheme, net, security, query) == Link(scheme, <<<<"type", net>>, <<"security", security>>>> \o query)
Pairs(options) == {<<a, b>> : a \in options, b \in options}
Twos(options) == {<<o>> : o \in options} \cup Pairs(options)

UriLinks ==
    {Over("vless", n, s, <<o>>) : n \in Nets, s \in Securities, o \in StreamOptions}
    \cup {Over(p, n, "tls", <<o>>) : p \in {"trojan", "vmess"}, n \in {"ws", "grpc"}, o \in StreamOptions}
    \cup {Link(p, q) : p \in {"vless", "trojan", "vmess"},
                       q \in Twos({<<"headerType", "http">>, <<"host", "h">>, <<"path", "pa">>, <<"tfo", "1">>,
                                   <<"net", "ws">>, <<"type", "kcp">>, <<"sni", "s">>})}
    \cup {Over("vless", "grpc", "reality", q) :
             q \in Pairs({<<"serviceName", "sn">>, <<"path", "sn">>, <<"path", "pa">>, <<"pbk", "pk">>,
                          <<"publicKey", "pk">>, <<"publicKey", "pk2">>, <<"mode", "multi">>, <<"sid", "si">>})}
    \cup {Link("vmess", q) : q \in Pairs({<<"aid", "0">>, <<"scy", "auto">>, <<"scy", "sc">>, <<"encryption", "sc">>,
                                          <<"encryption", "en">>, <<"packetEncoding", "none">>})}

JsonLinks ==
    {[Link("vmess", q) EXCEPT !.form = "json"] :
        q \in {<<<<"net", n>>, <<"tls", t>>, o, p>> :
                 n \in {"tcp", "ws", "grpc", "kcp"}, t \in {"tls", "reality", "none", "maybe"},
                 o \in {<<"type", "none">>, <<"type", "http">>, <<"type", "gun">>, <<"other", "o">>},
                 p \in {<<"host", "hh">>, <<"path", "pa">>, <<"sni", "s">>, <<"alpn", "al">>, <<"fp", "f">>,
                        <<"pbk", "pk">>, <<"sid", "si">>, <<"spx", "/">>, <<"scy", "sc">>, <<"aid", "x">>,
                        <<"aid", "64">>}}}

SsLinks ==
    {[Link("ss", q) EXCEPT !.user = m, !.pass = k, !.form = f] :
        m \in {"aes-256-gcm", "2022-blake3-aes-128-gcm", "2022-blake3-aes-256-gcm",
               "2022-blake3-chacha20-poly1305", "2022-other"},
        k \in {"k16", "k32", "k16:k16", "k16:k32", "k0"}, f \in {"uri", "opaque"},
        q \in {<<>>, <<<<"uot", "1">>>>, <<<<"tfo", "1">>>>, <<<<"other", "o">>>>, <<<<"plugin", "obfs-local">>>>,
               <<<<"plugin", "obfs-local;obfs=http">>, <<"uot", "0">>>>, <<<<"plugin", "other">>>>,
               <<<<"plugin", ";tls">>>>, <<<<"plugin", "obfs-local">>, <<"plugin", "v2ray-plugin;tls">>>>,
               <<<<"tfo", "1">>, <<"plugin", "v2ray-plugin;tls">>>>}}

QuicOptions ==
    {<<"sni", "s">>, <<"peer", "s">>, <<"alpn", "al">>, <<"alpn", "h3">>, <<"insecure", "1">>,
     <<"allowInsecure", "0">>,
     <<"fp", "f">>, <<"tfo", "1">>, <<"other", "o">>}
QuicLinks ==
    {[Link(p, q) EXCEPT !.pass = "pw", !.port = port] :
        p \in {"hysteria2", "hy2"}, port \in {"443", "", "443,5000-6000", "6000-5000", "0", "x"},
        q \in {<<>>} \cup Twos(QuicOptions \cup
                {<<"obfs", "salamander">>, <<"obfs", "none">>, <<"obfs", "xor">>, <<"obfs-password", "op">>,
                 <<"pinSHA256", "pi">>, <<"mport", "7000-7001">>, <<"mport", "6000-5000">>, <<"ports", "7000-7001">>,
                 <<"hop-interval", "30s">>, <<"hop_interval", "1">>, <<"upmbps", "50mbps">>, <<"downmbps", "20">>})}
    \cup {[Link("tuic", q) EXCEPT !.pass = "pw"] :
        q \in {<<>>} \cup Twos(QuicOptions \cup
                {<<"congestion_control", "bbr">>, <<"congestion", "cubic">>, <<"udp_relay_mode", "native">>,
                 <<"udp_over_stream", "1">>, <<"udp_over_stream", "0">>, <<"reduce_rtt", "1">>,
                 <<"zero_rtt_handshake", "no">>, <<"heartbeat", "10s">>, <<"network", "udp">>, <<"network", "both">>,
                 <<"disable_sni", "1">>})}

Odd == {[Link("vless", <<>>) EXCEPT !.user = ""], [Link("trojan", <<>>) EXCEPT !.port = ""],
        [Link("vless", <<>>) EXCEPT !.host = ""], [Link("vless", <<>>) EXCEPT !.host = "-h"],
        [Link("vless", <<>>) EXCEPT !.host = "lan"], [Link("trojan", <<>>) EXCEPT !.host = "0x7f.1"],
        [Link("ss", <<>>) EXCEPT !.form = "broken"], [Link("vmess", <<>>) EXCEPT !.form = "broken"]}

--------------------------------------------------------------------------
(* Profiles *)

Out(tag, protocol, host) ==
    [tag |-> tag, protocol |-> protocol, vnext |-> IF host = "" THEN {} ELSE {<<host, 443>>}, servers |-> {},
     direct |-> {}, peers |-> {}, top |-> {}, redirect |-> "", pinned |-> FALSE]
In(tag, protocol) == [tag |-> tag, protocol |-> protocol, accounts |-> FALSE]
Rule(tags, dests, outbound) ==
    [any |-> tags = {"*"}, tags |-> tags \ {"*"}, dests |-> dests, outbound |-> outbound, balancer |-> "",
     identity |-> FALSE]
Via(rule, balancer) == [rule EXCEPT !.outbound = "", !.balancer = balancer]
NoTime == -1

Base ==
    [outbounds |-> <<Out("proxy", "vless", "h"), Out("second", "vless", "cdn"), Out("direct", "freedom", "")>>,
     inbounds |-> <<In("http-in", "http"), In("socks-in", "socks")>>,
     rules |-> <<Rule({"http-in"}, {"video", "mail"}, "gone"), Rule({"http-in", "socks-in"}, {"mail"}, "direct"),
                 Via(Rule({"*"}, {"video"}, ""), "auto")>>,
     balancers |-> <<[tag |-> "auto", fallback |-> "direct", strategy |-> "leastPing"]>>,
     dns |-> [servers |-> {<<"", "cdn">>, <<"https", "cdn">>, <<"", "fakedns">>}, hosts |-> {"cdn"}],
     probes |-> {[url |-> <<"https", "cdn">>, interval |-> 5000, timeout |-> NoTime, sampling |-> 3]},
     services |-> {"api", "stats", "fakedns"}, logs |-> {"access", "loglevel"}, strays |-> {}]

WithOut(f(_)) == [Base EXCEPT !.outbounds[1] = f(@)]
LanEverywhere ==
    {WithOut(LAMBDA o : [o EXCEPT !.vnext = {<<"lan", 443>>}]),
     WithOut(LAMBDA o : [o EXCEPT !.servers = {<<"lan", 443>>}]),
     WithOut(LAMBDA o : [o EXCEPT !.direct = {<<"lan", 443>>}]),
     WithOut(LAMBDA o : [o EXCEPT !.peers = {<<"lan", 443>>}]),
     WithOut(LAMBDA o : [o EXCEPT !.top = {<<"10.0.0.1", 443>>}]),
     [Base EXCEPT !.outbounds[3].redirect = "lan"], [Base EXCEPT !.outbounds[3].redirect = "cdn"],
     [Base EXCEPT !.dns.servers = {<<"tcp", "lan">>}], [Base EXCEPT !.dns.servers = {<<"", "lan">>}],
     [Base EXCEPT !.dns.servers = {<<"ftp", "cdn">>}], [Base EXCEPT !.dns.hosts = {"10.0.0.1"}],
     [Base EXCEPT !.probes = {[url |-> <<"http", "lan">>, interval |-> NoTime, timeout |-> NoTime,
                               sampling |-> NoTime]}]}
Stray(path, key, field, value) == [path |-> path, key |-> key, field |-> field, value |-> value]
Strays ==
    {[Base EXCEPT !.strays = s] :
        s \in {{Stray("profile", "Inbounds", "inbounds", "listener")}, {Stray("freedom", "Redirect", "redirect", "lan")},
               {Stray("stream", "keyFile", "keyfile", "/etc/key")}, {Stray("stream", "unixSettings", "unixsettings", "s")},
               {Stray("routing", "domain", "domain", "ext:file")}, {Stray("stream", "remark", "remark", "r")},
               {Stray("observatory", "probeURL", "probeurl", "cdn"), Stray("observatory", "probeUrl", "probeurl", "lan")},
               {Stray("stream", "downloadSettings.address", "downloadsettings.address", "lan")}}}
RuleLists ==
    {<<r, s, Via(Rule({"*"}, {"video"}, ""), "auto")>> :
        r, s \in {Rule(t, d, o) : t \in {{"*"}, {"socks-in"}, {"socks", "http-in"}, {"socks-in", "http-in"}, {}},
                                  d \in {{"mail"}, {"video", "mail"}}, o \in {"direct", "second", "gone"}}}
InboundLists ==
    {<<In("http-in", "http"), In("", "socks")>>, <<In("socks-in", "socks"), In("socks", "socks")>>,
     <<In("http-in", "http")>>, <<[In("socks-in", "socks") EXCEPT !.accounts = TRUE]>>, <<In("long", "socks")>>}

JsonProfiles ==
    {Base} \cup LanEverywhere \cup Strays
    \cup {[Base EXCEPT !.rules = r] : r \in RuleLists}
    \cup {[Base EXCEPT !.rules = <<Rule(t, {"mail"}, "direct")>>, !.inbounds = i] :
             t \in {{"socks"}, {"socks-in"}, {"*"}}, i \in InboundLists}
    \cup {[Base EXCEPT !.rules[2].identity = TRUE], [Base EXCEPT !.rules[1].identity = TRUE],
          [Base EXCEPT !.rules[2].balancer = "auto"], [Base EXCEPT !.rules[3].balancer = "gone"],
          [Base EXCEPT !.balancers[1].fallback = "gone"], [Base EXCEPT !.balancers = @ \o @],
          [Base EXCEPT !.outbounds[2].tag = "proxy"], [Base EXCEPT !.outbounds = <<>>],
          [Base EXCEPT !.outbounds = @ \o <<Out("4", "vless", "h"), Out("5", "vless", "h")>>],
          [Base EXCEPT !.outbounds[2].protocol = ""], [Base EXCEPT !.outbounds[2].vnext = {}],
          [Base EXCEPT !.outbounds[2].vnext = {<<"cdn", 0>>}], [Base EXCEPT !.outbounds[2].tag = "long"],
          [Base EXCEPT !.outbounds[2].pinned = TRUE],
          [Base EXCEPT !.outbounds[2].pinned = TRUE, !.outbounds[2].vnext = {<<"8.8.8.8", 443>>}]}
    \cup {[Base EXCEPT !.probes = {[url |-> <<"https", "cdn">>, interval |-> i, timeout |-> t, sampling |-> s]}] :
             i \in {4999, NoTime}, t \in {99, 60000}, s \in {1, 101}}

--------------------------------------------------------------------------
(* Feeds *)

Row(link) == [kind |-> "link", link |-> link, profile |-> NoProfile, size |-> 1]
ProfileRow(p) == [kind |-> "profile", link |-> NoLink, profile |-> p, size |-> 1]
Junk == [kind |-> "junk", link |-> NoLink, profile |-> NoProfile, size |-> 1]
Feed(rows) == [format |-> "links", rows |-> rows]

One == Over("vless", "ws", "tls", <<<<"sni", "s">>, <<"path", "pa">>>>)
Reversed == [One EXCEPT !.query = <<@[4], @[3], @[2], @[1]>>]
Like == {One, Reversed, [One EXCEPT !.label = "b"], [One EXCEPT !.query[3] = <<"sni", "t">>],
         [One EXCEPT !.user = "v"], [One EXCEPT !.scheme = "trojan"], [One EXCEPT !.host = "lan"],
         [One EXCEPT !.query = @ \o <<<<"path", "pb">>>>],
         Link("hysteria2", <<>>), [Link("hysteria2", <<>>) EXCEPT !.port = "443,5000-6000"]}
Wrapped == [kind |-> "wrapped", link |-> Link("ss", <<<<"profile", "p">>>>), profile |-> Base, size |-> 2]
RowsLike == {Row(l) : l \in Like} \cup {Junk, Wrapped}

MCBodies ==
    {Feed(<<Row(l)>>) : l \in UriLinks \cup JsonLinks \cup SsLinks \cup QuicLinks \cup Odd}
    \cup {[format |-> "json", rows |-> <<ProfileRow(p)>>] : p \in JsonProfiles}
    \cup {Feed(<<Junk, Junk, Row(One), Row([One EXCEPT !.label = "b"])>>)}
    \cup {Feed(<<r, s>>) : r, s \in RowsLike} \cup {Feed(<<r, s, t>>) : r, s, t \in RowsLike}
    \cup {[format |-> "json", rows |-> <<r, s, ProfileRow([Base EXCEPT !.outbounds = <<>>])>>] :
             r, s \in {Junk, ProfileRow(Base), ProfileRow([Base EXCEPT !.dns.hosts = {}])}}
    \cup {[format |-> f, rows |-> <<>>] : f \in {"html", "garbage", "links"}}
    \cup {Feed(<<[Row(One) EXCEPT !.size = z], Row([One EXCEPT !.label = "b"])>>) : z \in 1..4}

--------------------------------------------------------------------------
(* AmneziaWG profiles *)

MCRangeOf == ("0" :> <<0, 0>>) @@ ("1" :> <<1, 1>>) @@ ("3" :> <<3, 3>>) @@ ("1-3" :> <<1, 3>>)
             @@ ("3-5" :> <<3, 5>>) @@ ("4-5" :> <<4, 5>>) @@ ("6" :> <<6, 6>>) @@ ("7-15" :> <<7, 15>>)
             @@ ("8" :> <<8, 8>>) @@ ("0-15" :> <<0, 15>>) @@ ("5-4" :> <<5, 4>>) @@ ("16" :> <<16, 16>>)
             @@ ("0-3" :> <<0, 3>>)
MCFlagOf == ("on" :> TRUE) @@ ("off" :> FALSE) @@ ("0" :> FALSE) @@ ("3" :> TRUE)
MCTagsOf == ("<b 8><t>" :> <<<<"b", 8>>, <<"t", 0>>>>) @@ ("<r 65359>" :> <<<<"r", 65359>>>>)
            @@ ("<r 65360><d>" :> <<<<"r", 65360>>, <<"d", 0>>>>) @@ ("<dz 9>" :> <<<<"dz", 9>>>>)
            @@ ("<d><r 65359>" :> <<<<"d", 0>>, <<"r", 65359>>>>) @@ ("<q>" :> <<<<"q", 0>>>>)

Sec(name) == [kind |-> "section", name |-> name]
Set(key, value) == [kind |-> "setting", key |-> key, value |-> value]
Plain == <<Sec("interface"), Set("private_key", "k1"), Set("address", "net")>>
Peer(key, more) == <<Sec("peer"), Set("public_key", key), Set("endpoint", "h:1"), Set("allowed_ips", "net")>> \o more
Conf(interface, more) == Plain \o interface \o Peer("k2", more)

Headers == <<Set("h1", "1-3"), Set("h2", "4-5"), Set("h3", "6"), Set("h4", "7-15")>>
Paddings == <<Set("s1", "12"), Set("s2", "12"), Set("s3", "64"), Set("s4", "20")>>
AwgValues ==
    [mtu |-> {"1408", "1500", "64", "9001"}, listen_port |-> {"64", "99999"}, dns |-> {"8.8.8.8"},
     jc |-> {"0", "3"}, jmin |-> {"8"}, s1 |-> {"65359", "65360", "0"}, s2 |-> {"12", "-1"}, s4 |-> {"64", "65359"},
     h1 |-> {"1"}, i1 |-> {"<b 8><t>", "<r 65359>", "<r 65360><d>", "<dz 9>", "<q>", "text"}, i2 |-> {"<d><r 65359>"},
     rekey_timeout |-> {"3", "1-3", "5-4", "16"}, random_trailers |-> {"on", "off", "maybe"},
     disable_cookies |-> {"3"}, header_protection_key |-> {"k3", "k0", "short"}, table |-> {"off"},
     private_key |-> {"k1"}]
Alone == {<<Set(k, v)>> : k \in DOMAIN AwgValues, v \in UNION {AwgValues[j] : j \in DOMAIN AwgValues}}
Fitting == {q \in Alone : q[1].value \in AwgValues[q[1].key]}
HeaderLists == {<<Set("h1", a), Set("h2", b), Set("h3", c), Set("h4", "7-15")>> :
                   a, b, c \in {"1-3", "3-5", "4-5", "6", "8", "0-15", "5-4", ""}}
PeerOptions == {<<>>, <<Set("preshared_key", "k0")>>, <<Set("preshared_key", "short")>>,
                <<Set("persistent_keepalive", "3")>>, <<Set("persistent_keepalive_interval", "1-3")>>,
                <<Set("persistent_keepalive", "0-3")>>, <<Set("persistent_keepalive_interval", "0-3")>>,
                <<Set("persistent_keepalive", "")>>,
                <<Set("persistent_keepalive", "3"), Set("persistent_keepalive_interval", "3")>>,
                <<Set("advanced_security", "on")>>, <<Set("advanced_security", "off")>>}

AwgProfiles ==
    {Conf(q, p) : q \in {<<>>} \cup Fitting, p \in PeerOptions}
    \cup {Conf(q, <<>>) : q \in HeaderLists \cup {Headers}}
    \cup {Conf(a \o b, <<>>) : a, b \in {<<Set("jc", "3")>>, <<Set("jmin", "8")>>, <<Set("jmax", "64")>>,
                                         <<Set("jmax", "3"), Set("jmin", "8")>>, <<Set("jmax", "64"), Set("jmin", "8")>>}}
    \cup {Conf(Paddings \o <<Set("header_protection_key", "k3")>> \o q, <<>>) : q \in {<<>>, Headers}}
    \cup {Conf(<<>>, Peer("k3", <<>>)), Conf(<<>>, Peer("k2", <<>>)), Conf(<<>>, <<Sec("other")>>),
          Conf(<<>>, Plain), Plain, Peer("k2", <<>>), <<Set("mtu", "1500")>> \o Conf(<<>>, <<>>),
          Conf(<<>>, Peer("k3", Peer("k4", <<>>)))}

Good == Conf(<<Set("mtu", "1500")>>, <<>>)
Bad == Conf(<<Set("mtu", "64")>>, <<>>)
MCEdits == {Good, Bad}
Entry(name, lines) == [name |-> name, lines |-> lines]
MCQuiet == {<<Entry(1, p)>> : p \in AwgProfiles}
MCDirectories == {<<Entry(m, Good), Entry(n, p)>> : m, n \in 1..2, p \in MCEdits}

--------------------------------------------------------------------------
(* Keys and the health check *)

\* The pairs 1, 2 and 3 are those of wg, unifi and the first versions' xray.
Right(f) == CASE f[1] = "wg" -> 1 [] f[1] = "unifi" -> 2 [] f[1] = "xray" -> 3
MCAllPairs == 1..9
MCFirstPairs == 1..3
MCKeyStores ==
    {s \in [KeyFiles -> FirstPairs \cup {NoKey, NotAKey}] :
        \A f \in KeyFiles : s[f] \in {Right(f), NoKey} \cup (IF f[1] = "xray" THEN {} ELSE {NotAKey})}

MCBoots == 0..40
MCLives == 0..9 \cup {100, Forever}
=============================================================================
