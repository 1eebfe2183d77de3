---------------------------- MODULE JsonProfile -----------------------------
(***************************************************************************)
(* What src/src/mkjson.py does with a provider's Xray profile: which it    *)
(* accepts, and the configuration the core runs instead, in which our      *)
(* WireGuard inbound takes the place of the profile's SOCKS inbound.       *)
(*                                                                         *)
(* A profile is a record:                                                  *)
(*   outbounds  a sequence of [tag, protocol, vnext, servers, direct,      *)
(*              peers, top, redirect, pinned]: the <<host, port>> pairs in *)
(*              each place that may hold one, and whether its stream pins  *)
(*              a certificate over gRPC or Hysteria without a serverName;  *)
(*   inbounds   a sequence of [tag, protocol, accounts];                   *)
(*   rules      a sequence of [any, tags, dests, outbound, balancer,       *)
(*              identity]: any if it has no inboundTag, identity if it     *)
(*              looks at the user or the source;                           *)
(*   balancers  a sequence of [tag, fallback, strategy];                   *)
(*   dns        [servers, hosts]; a server is a <<scheme, host>>;          *)
(*   probes     a set of [url, interval, timeout, sampling], one for each  *)
(*              observatory: url a <<scheme, host>>, times in ms;          *)
(*   services   the control blocks it has; logs its log's file fields;     *)
(*   strays     its other members, [path, key, field, value]: field is     *)
(*              what the core, which ignores case, takes key for.          *)
(* A tag or a host that is absent is "", a number that is absent Unset.    *)
(***************************************************************************)
EXTENDS Integers, Sequences, FiniteSets

CONSTANTS NotHost,      \* texts that valid_host refuses
          Private,      \* hosts that are local names or addresses not globally routable
          Literal,      \* hosts that are IP addresses
          NotTag,       \* tags too long or with control characters
          Destinations, \* what the traffic may be going to
          MaxOutbounds, MaxBalancers

Unset == -1
Elements(s) == {s[i] : i \in DOMAIN s}
TagsUnique(s) == \A i, j \in DOMAIN s : s[i].tag = s[j].tag /\ s[i].tag # "" => i = j
Tags(s) == {e.tag : e \in Elements(s)} \ {""}

PublicHost(h) == h # "" /\ h \notin NotHost \cup Private

--------------------------------------------------------------------------
(* validate_profile *)

RemoteOk(url, schemes) == url[1] \in schemes /\ PublicHost(url[2])

\* Fields that the validation reads or the overlay replaces (_CHECKED_FIELDS), as they
\* are spelled: one for each thing that another spelling could smuggle.
Spelled == [inbounds |-> {"inbounds"}, redirect |-> {"redirect"}, address |-> {"address"},
            probeurl |-> {"probeURL", "probeUrl"}]
PathFields == {"certificateFile", "keyFile", "masterKeyLog", "socketPath", "unixSocket",
               "unixSocketPath", "someFile"}

\* A slip of TreeOk: a field's name is compared as it is written.
TreeOkExact(p) == \A m \in p.strays : m.key \in PathFields => m.value = ""

\* _validate_untrusted_tree
TreeOk(p) ==
    /\ \A m \in p.strays :
         /\ m.field \in DOMAIN Spelled => m.key \in Spelled[m.field]
         /\ m.key \in PathFields \cup {"unixSettings", "dsSettings"} => m.value = ""
         /\ m.key = "downloadSettings.address" => m.value = "" \/ PublicHost(m.value)
         /\ m.path \in {"routing", "domain"} => m.value # "ext:file"
    \* No field twice, in two of its spellings.
    /\ \A m, n \in p.strays : m.path = n.path /\ m.field = n.field /\ m.field \in DOMAIN Spelled => m = n

\* The first SOCKS inbound, whose place ours takes; 0 if there is none.
PrimaryInbound(p) ==
    LET socks == {i \in DOMAIN p.inbounds : p.inbounds[i].protocol = "socks"}
    IN IF socks = {} THEN 0 ELSE CHOOSE i \in socks : \A j \in socks : i <= j
PrimaryTag(p) == LET tag == p.inbounds[PrimaryInbound(p)].tag IN IF tag = "" THEN "socks" ELSE tag

\* A slip of RuleApplies: a rule for several inbounds is not for ours.
RuleAppliesAlone(rule, tag) == rule.any \/ rule.tags = {tag}

RuleApplies(rule, tag) == rule.any \/ tag \in rule.tags
\* The rules that stay, under the numbers that they have in the profile.
Applying(p) == [i \in {n \in DOMAIN p.rules : RuleApplies(p.rules[n], PrimaryTag(p))} |-> p.rules[i]]

InboundsOk(p) ==
    /\ PrimaryInbound(p) # 0
    /\ ~p.inbounds[PrimaryInbound(p)].accounts
    /\ Tags(p.inbounds) \cap NotTag = {}

BalancersOk(p) ==
    /\ Len(p.balancers) <= MaxBalancers
    /\ TagsUnique(p.balancers)
    /\ Tags(p.balancers) \cap NotTag = {}
    /\ \A b \in Elements(p.balancers) : b.fallback \in Tags(p.outbounds) \cup {""}

\* The rules that go are not looked at.
RulesOk(p) ==
    \A r \in Elements(Applying(p)) :
        /\ ~r.identity
        /\ r.outbound \in Tags(p.outbounds) \cup {""}
        /\ r.balancer \in Tags(p.balancers) \cup {""}
        /\ r.outbound = "" \/ r.balancer = ""

\* A slip of Targets: the peers of a WireGuard outbound are forgotten.
TargetsNoPeers(ob) == ob.vnext \cup ob.servers \cup ob.direct \cup ob.top

\* xray_outbound_servers
Targets(ob) == ob.vnext \cup ob.servers \cup ob.direct \cup ob.peers \cup ob.top
LocalProtocols == {"blackhole", "freedom", "dns", "loopback"}

\* The shape of GHSA-5wf9-h793-w73c.
PinOk(ob) == ob.pinned => {t[1] : t \in Targets(ob)} \cap Literal = {}

PortOk(n) == n \in 1..65535 \cup {Unset}
OutboundOk(ob) ==
    /\ ob.protocol # "" /\ ob.tag \notin NotTag
    /\ ob.protocol \in LocalProtocols \/ Targets(ob) # {}
    /\ \A t \in Targets(ob) : PublicHost(t[1]) /\ PortOk(t[2])
    /\ PinOk(ob)
    /\ ob.protocol = "freedom" /\ ob.redirect # "" => PublicHost(ob.redirect)
OutboundsOk(p) ==
    /\ Len(p.outbounds) \in 1..MaxOutbounds
    /\ TagsUnique(p.outbounds)
    /\ \A ob \in Elements(p.outbounds) : OutboundOk(ob)

DnsSchemes == {"tcp", "tcp+local", "https", "https+local", "quic+local", "h2c"}
DnsOk(p) ==
    /\ \A s \in p.dns.servers : \/ s[1] = "" /\ (s[2] = "fakedns" \/ PublicHost(s[2]))
                                \/ RemoteOk(s, DnsSchemes)
    /\ \A h \in p.dns.hosts : PublicHost(h)

ProbeTimesOk(probe) ==
    /\ probe.interval = Unset \/ probe.interval >= 5000
    /\ probe.timeout \in 100..60000 \cup {Unset}
    /\ probe.sampling \in 1..100 \cup {Unset}
ProbeOk(probe) == /\ probe.url[2] # "" => RemoteOk(probe.url, {"http", "https"})
                  /\ ProbeTimesOk(probe)

ProfileOk(p) ==
    /\ TreeOk(p) /\ InboundsOk(p)
    /\ BalancersOk(p) /\ RulesOk(p) /\ OutboundsOk(p)
    /\ DnsOk(p) /\ \A probe \in p.probes : ProbeOk(probe)

\* What the model holds of a profile. A member that is spelled as the validation reads
\* it is in the other components, unless another spelling of it is next to it.
IsProfile(p) ==
    /\ DOMAIN p = {"outbounds", "inbounds", "rules", "balancers", "dns", "probes", "services", "logs",
                   "strays"}
    /\ \A field \in {"outbounds", "inbounds", "rules", "balancers"} :
         Len(p[field]) \in Nat /\ DOMAIN p[field] = 1..Len(p[field])
    /\ \A m \in p.strays :
         m.field \in DOMAIN Spelled /\ m.key \in Spelled[m.field]
             => \E n \in p.strays \ {m} : n.path = m.path /\ n.field = m.field

--------------------------------------------------------------------------
(* What the core runs *)

ControlBlocks == {"api", "stats", "metrics", "policy", "reverse", "geodata"}

\* sanitize_provider
Sanitized(p) ==
    [p EXCEPT !.rules = Applying(p), !.inbounds = <<>>,
              !.services = @ \ ControlBlocks, !.logs = @ \ {"access", "error", "dnsLog"}]

\* cmd_overlay: 01-provider.json and 99-overlay.json, as the core merges them.
Overlaid(p) ==
    [Sanitized(p) EXCEPT !.inbounds =
        <<[tag |-> PrimaryTag(p), protocol |-> "wireguard", accounts |-> FALSE]>>]

\* cmd_socksconfig: what "ping" runs for a moment, each balancer choosing at random.
Probed(p) ==
    [Sanitized(p) EXCEPT
        !.inbounds = <<[tag |-> PrimaryTag(p), protocol |-> "socks", accounts |-> FALSE]>>,
        !.balancers = [i \in DOMAIN p.balancers |-> [p.balancers[i] EXCEPT !.strategy = "random"]]]

--------------------------------------------------------------------------
(* How the core reads a profile *)

\* The rule that decides where an inbound's traffic to a destination goes, 0 if none
\* does and it goes to the first outbound. An empty list of tags is no condition.
Decides(p, tag, dest) ==
    LET matching == {i \in DOMAIN p.rules :
                        /\ p.rules[i].any \/ p.rules[i].tags = {} \/ tag \in p.rules[i].tags
                        /\ dest \in p.rules[i].dests}
    IN IF matching = {} THEN 0 ELSE CHOOSE i \in matching : \A j \in matching : i <= j
Route(p, tag, dest) ==
    LET i == Decides(p, tag, dest)
    IN IF i = 0 THEN [outbound |-> p.outbounds[1].tag, balancer |-> ""]
       ELSE [outbound |-> p.rules[i].outbound, balancer |-> p.rules[i].balancer]

\* Where mkjson and the core are known to read a profile differently: an inbound
\* without a tag gets one, and an empty list of tags is no condition to the core.
ReadDifferently(p) ==
    \/ /\ p.inbounds[PrimaryInbound(p)].tag = ""
       /\ \E r \in Elements(p.rules) : {"socks", ""} \cap r.tags # {}
    \/ \E r \in Elements(p.rules) : ~r.any /\ r.tags = {}

\* Traffic that enters the configuration goes where the profile would have sent it.
SameRoutes(p, config) ==
    ReadDifferently(p) \/
    \A dest \in Destinations :
        Route(config, config.inbounds[1].tag, dest)
            = Route(p, p.inbounds[PrimaryInbound(p)].tag, dest)

\* Every host that the core would dial or ask: those of the outbounds, those of DNS and
\* probes, and those in members that are spelled in another way.
DialledBy(ob) ==
    {t[1] : t \in ob.vnext \cup ob.servers \cup ob.direct \cup ob.peers \cup ob.top}
    \cup IF ob.protocol = "freedom" THEN {ob.redirect} ELSE {}
Asked(p) == {s[2] : s \in p.dns.servers} \cup p.dns.hosts \cup {probe.url[2] : probe \in p.probes}
Smuggled(p) ==
    {m.value : m \in {n \in p.strays : n.field \in {"redirect", "address", "probeurl"}}}
Dialled(p) ==
    (UNION {DialledBy(ob) : ob \in Elements(p.outbounds)}) \cup Asked(p) \cup Smuggled(p)

\* All that the core would refuse to start with: a reference to nothing.
Dangling(p) ==
    \E r \in Elements(p.rules) : \/ r.outbound \notin Tags(p.outbounds) \cup {""}
                                 \/ r.balancer \notin Tags(p.balancers) \cup {""}
=============================================================================
