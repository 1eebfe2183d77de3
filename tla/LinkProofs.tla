------------------------------ MODULE LinkProofs ------------------------------
(***************************************************************************)
(* Proofs about Parts' share links: no option of a link that is built is   *)
(* dropped, whatever the tables of texts hold. The proof takes an option   *)
(* away (WithoutOption), follows its value from the names that have it to  *)
(* a field of the outbound, protocol by protocol, and ends with the whole  *)
(* link.                                                                   *)
(***************************************************************************)
EXTENDS PartsProofs

\* A link without one of its options.
LEMMA WithoutOption ==
  ASSUME NEW link, IsLink(link), Readable(link), NEW i \in DOMAIN link.query,
         \A j \in DOMAIN link.query \ {i} : ~SameOption(link.query[j], link.query[i])
  PROVE  LET q == Query(link.query)
             n == link.query[i][1]
             less == Without(link, i)
         IN /\ n \in DOMAIN q /\ q[n] = link.query[i][2] /\ link.query[i] = <<n, q[n]>>
            /\ Query(less.query) = [m \in DOMAIN q \ {n} |-> q[m]]
            /\ less = [link EXCEPT !.query = less.query]
            /\ \A m \in DOMAIN q \ {n} : q[m] = q[n] =>
                  \A names \in Aliases : ~({m, n} \subseteq names)
<1> DEFINE pairs == link.query
           q == Query(pairs)
           n == pairs[i][1]
           less == Without(link, i)
           rest == less.query
<1>1. Len(pairs) \in Nat /\ DOMAIN pairs = 1..Len(pairs) /\ Flat(pairs)
  BY DEF IsLink, Readable
<1>2. rest = WithoutLine(pairs, i) /\ less = [link EXCEPT !.query = rest]
  BY DEF IsLink, Without, WithoutLine
<1>3. /\ Len(rest) = Len(pairs) - 1 /\ DOMAIN rest = 1..Len(pairs) - 1
      /\ \A j \in DOMAIN rest : rest[j] = IF j < i THEN pairs[j] ELSE pairs[j + 1]
  BY <1>1, <1>2, WithoutIs
<1>4. n \in DOMAIN q /\ q[n] = pairs[i][2] /\ pairs[i] = <<n, q[n]>>
  BY <1>1, QueryIs DEF IsLink
<1> HIDE DEF pairs, rest, less
<1>5. \A j \in DOMAIN rest : /\ Old(i, j) \in DOMAIN pairs \ {i} /\ rest[j] = pairs[Old(i, j)]
                            /\ \A k \in DOMAIN rest : Old(i, j) = Old(i, k) => j = k
  BY <1>1, <1>3 DEF Old, pairs
<1>6. Flat(rest)
  BY <1>1, <1>5 DEF Flat
<1>7. \A j \in DOMAIN pairs \ {i} : \E k \in DOMAIN rest : rest[k] = pairs[j]
  <2> SUFFICES ASSUME NEW j \in DOMAIN pairs \ {i} PROVE \E k \in DOMAIN rest : rest[k] = pairs[j]
    OBVIOUS
  <2>0. i \in 1..Len(pairs) /\ j \in 1..Len(pairs)
    BY <1>1 DEF pairs
  <2>1. CASE j < i
    <3>1. j \in DOMAIN rest
      BY <1>1, <1>3, <2>0, <2>1
    <3> QED
      BY <1>3, <2>1, <3>1
  <2>2. CASE i < j
    <3>1. j - 1 \in DOMAIN rest /\ ~(j - 1 < i) /\ j - 1 + 1 = j
      BY <1>1, <1>3, <2>0, <2>2
    <3> QED
      BY <1>3, <3>1
  <2> QED
    BY <2>0, <2>1, <2>2
<1>8. /\ DOMAIN q = {pairs[j][1] : j \in DOMAIN pairs}
      /\ DOMAIN Query(rest) = {rest[j][1] : j \in DOMAIN rest}
  BY DEF Query
<1>9. DOMAIN Query(rest) = DOMAIN q \ {n}
  <2>1. ASSUME NEW m \in DOMAIN Query(rest) PROVE m \in DOMAIN q \ {n}
    <3>1. PICK j \in DOMAIN rest : rest[j][1] = m
      BY <1>8
    <3>2. Old(i, j) \in DOMAIN pairs \ {i} /\ pairs[Old(i, j)][1] = m
      BY <1>5, <3>1
    <3> QED
      BY <1>1, <1>8, <3>2 DEF Flat, pairs
  <2>2. ASSUME NEW m \in DOMAIN q \ {n} PROVE m \in DOMAIN Query(rest)
    <3>1. PICK j \in DOMAIN pairs \ {i} : pairs[j][1] = m
      BY <1>8
    <3> QED
      BY <1>7, <1>8, <3>1
  <2> QED
    BY <2>1, <2>2
<1>10. ASSUME NEW m \in DOMAIN q \ {n}
       PROVE  \E j \in DOMAIN pairs \ {i} : pairs[j] = <<m, q[m]>> /\ Query(rest)[m] = q[m]
  <2>1. PICK j \in DOMAIN pairs \ {i} : pairs[j][1] = m
    BY <1>8
  <2>2. pairs[j] = <<m, q[m]>>
    BY <1>1, <2>1, QueryIs DEF IsLink, pairs
  <2>3. PICK k \in DOMAIN rest : rest[k] = pairs[j]
    BY <1>7
  <2>4. Query(rest)[rest[k][1]] = rest[k][2]
    BY <1>6, QueryIs
  <2> QED
    BY <2>2, <2>3, <2>4
<1>11. Query(rest) = [m \in DOMAIN q \ {n} |-> q[m]]
  <2>1. Query(rest) = [m \in DOMAIN Query(rest) |-> Query(rest)[m]]
    BY DEF Query
  <2> QED
    BY <1>9, <1>10, <2>1
<1>12. ASSUME NEW m \in DOMAIN q \ {n}, q[m] = q[n], NEW names \in Aliases, {m, n} \subseteq names
       PROVE  FALSE
  <2>1. PICK j \in DOMAIN pairs \ {i} : pairs[j] = <<m, q[m]>>
    BY <1>10
  <2>2. ~SameOption(pairs[j], pairs[i])
    BY <2>1 DEF pairs
  <2> QED
    BY <1>4, <1>12, <2>1, <2>2 DEF SameOption
<1> QED
  BY <1>2, <1>4, <1>11, <1>12 DEF pairs, less, rest

\* No option has more than three names.
LEMMA FewNames == ASSUME NEW a, NEW b, NEW c PROVE IsFiniteSet({a, b, c})
<1>1. IsFiniteSet({a}) /\ IsFiniteSet({a} \cup {b}) /\ IsFiniteSet(({a} \cup {b}) \cup {c})
  BY FS_Singleton, FS_AddElement
<1>2. {a, b, c} = ({a} \cup {b}) \cup {c}
  OBVIOUS
<1> QED
  BY <1>1, <1>2

\* qg: aliases that agree have one value.
LEMMA AgreeMeans ==
  ASSUME NEW q, NEW names, IsFiniteSet(names), Agree(q, names),
         NEW x \in Values(q, names), NEW y \in Values(q, names)
  PROVE  x = y
<1> SUFFICES ASSUME x # y PROVE FALSE
  OBVIOUS
<1> DEFINE V == Values(q, names)
           given == {m \in names : Given(q, m)}
<1>1. IsFiniteSet(given)
  BY FS_Subset
<1>2. V = {q[m] : m \in given}
  BY DEF Values
<1>3. IsFiniteSet(V)
  <2> DEFINE f == [m \in given |-> q[m]]
  <2>1. f \in Surjection(given, V)
    BY <1>2 DEF Surjection
  <2> HIDE DEF given, V, f
  <2> QED
    BY <1>1, <2>1, FS_Surjection
<1>4. Cardinality({x} \cup {y}) = 2
  <2>1. IsFiniteSet({x}) /\ Cardinality({x}) = 1
    BY FS_Singleton
  <2>2. Cardinality({x} \cup {y}) = Cardinality({x}) + 1
    BY <2>1, FS_AddElement
  <2> QED
    BY <2>1, <2>2
<1>5. {x} \cup {y} \subseteq V
  OBVIOUS
<1> HIDE DEF V
<1>6. Cardinality({x} \cup {y}) <= Cardinality(V)
  BY <1>3, <1>5, FS_Subset
<1>7. Cardinality(V) \in Nat /\ Cardinality(V) <= 1
  BY <1>3, FS_CardinalityType DEF Agree, V
<1> QED
  BY <1>4, <1>6, <1>7

\* The options without n.
But(q, n) == [m \in DOMAIN q \ {n} |-> q[m]]

\* The other options say what they said.
LEMMA OthersStay ==
  ASSUME NEW q, NEW n, NEW names, n \notin names
  PROVE  Values(But(q, n), names) = Values(q, names)
BY DEF Values, Given, But

\* A value that only one of the names has is the only one, and gone without it.
Gone(q, less, names, x) == Values(q, names) = {x} /\ Values(less, names) = {}

\* An option under one name only goes with that name.
LEMMA ValueGoes ==
  ASSUME NEW q, NEW n, Given(q, n), NEW names, IsFiniteSet(names), n \in names, Agree(q, names),
         \A m \in names \ {n} : Given(q, m) => q[m] # q[n]
  PROVE  Gone(q, But(q, n), names, q[n])
<1>1. q[n] \in Values(q, names)
  BY DEF Values
<1>2. Values(q, names) = {q[n]}
  BY <1>1, AgreeMeans
<1>3. \A m \in names \ {n} : ~Given(q, m)
  BY <1>2 DEF Values
<1> QED
  BY <1>2, <1>3 DEF Gone, Values, Given, But

LEMMA OneValueGoes ==
  ASSUME NEW q, NEW n, Given(q, n)
  PROVE  Gone(q, But(q, n), {n}, q[n])
BY DEF Gone, Values, Given, But

\* What a field, a default and a switch make of it.
LEMMA GoneMeans ==
  ASSUME NEW q, NEW less, NEW names, NEW x, Gone(q, less, names, x)
  PROVE  /\ \A f : Field(q, names, f) = {<<f, x>>} /\ Field(less, names, f) = {}
         /\ \A d : Get(q, names, d) = x /\ Get(less, names, d) = d
         /\ ~Yes(less, names) /\ (Yes(q, names) <=> x \in True)
BY DEF Gone, Field, Get, Yes

\* Names of an option, for the provers a term like others.
One(a) == {a}
Two(a, b) == {a, b}

\* The fields that have the names of their options.
LEMMA FieldsAre ==
  ASSUME NEW q, NEW names
  PROVE  \A f, x : <<f, x>> \in Fields(q, names) <=> f \in names /\ x \in Values(q, One(f))
<1>1. \A g, f, x : <<f, x>> \in Field(q, {g}, g) <=> f = g /\ x \in Values(q, One(g))
  BY DEF Field, One
<1>2. \A e : e \in Fields(q, names) <=> \E g \in names : e \in Field(q, {g}, g)
  BY Zenon DEF Fields
<1> SUFFICES ASSUME NEW f, NEW x
             PROVE  <<f, x>> \in Fields(q, names) <=> f \in names /\ x \in Values(q, One(f))
  OBVIOUS
<1>3. <<f, x>> \in Fields(q, names) <=> \E g \in names : <<f, x>> \in Field(q, {g}, g)
  BY <1>2
<1>4. \A g : <<f, x>> \in Field(q, {g}, g) <=> f = g /\ x \in Values(q, One(g))
  BY <1>1
<1> QED
  BY <1>3, <1>4, Zenon

\* The fields of a security layer.
LEMMA ServerNameIs ==
  ASSUME NEW q, NEW security, NEW host, NEW x
  PROVE  <<"serverName", x>> \in Security(q, security, host) <=>
           security # "none" /\ x = Get(q, Two("sni", "peer"), host)
BY DEF Security, Field, Two

LEMMA FingerprintIs ==
  ASSUME NEW q, NEW security, NEW host, NEW x
  PROVE  <<"fingerprint", x>> \in Security(q, security, host) <=>
           \/ security = "tls" /\ x \in Values(q, Two("fp", "fingerprint"))
           \/ security = "reality" /\ x = Get(q, Two("fp", "fingerprint"), "chrome")
BY DEF Security, Field, Two

LEMMA AlpnIs ==
  ASSUME NEW q, NEW security, NEW host, NEW x
  PROVE  <<"alpn", x>> \in Security(q, security, host) <=>
           security = "tls" /\ x \in Values(q, {"alpn"})
BY DEF Security, Field, Two

LEMMA EchIs ==
  ASSUME NEW q, NEW security, NEW host, NEW x
  PROVE  <<"echConfigList", x>> \in Security(q, security, host) <=>
           security = "tls" /\ x \in Values(q, {"ech"})
BY DEF Security, Field, Two

LEMMA PinnedIs ==
  ASSUME NEW q, NEW security, NEW host, NEW x
  PROVE  <<"pinnedPeerCertSha256", x>> \in Security(q, security, host) <=>
           security = "tls" /\ x \in Values(q, {"pcs"})
BY DEF Security, Field, Two

LEMMA VerifiedIs ==
  ASSUME NEW q, NEW security, NEW host, NEW x
  PROVE  <<"verifyPeerCertByName", x>> \in Security(q, security, host) <=>
           security = "tls" /\ x \in Values(q, {"vcn"})
BY DEF Security, Field, Two

LEMMA PublicKeyIs ==
  ASSUME NEW q, NEW security, NEW host, NEW x
  PROVE  <<"publicKey", x>> \in Security(q, security, host) <=>
           security = "reality" /\ x = Get(q, Two("pbk", "publicKey"), "")
BY DEF Security, Field, Two

LEMMA ShortIdIs ==
  ASSUME NEW q, NEW security, NEW host, NEW x
  PROVE  <<"shortId", x>> \in Security(q, security, host) <=>
           security = "reality" /\ x = Get(q, Two("sid", "shortId"), "")
BY DEF Security, Field, Two

LEMMA SpiderIs ==
  ASSUME NEW q, NEW security, NEW host, NEW x
  PROVE  <<"spiderX", x>> \in Security(q, security, host) <=>
           security = "reality" /\ x = Get(q, Two("spx", "spiderX"), "/")
BY DEF Security, Field, Two

LEMMA SignatureIs ==
  ASSUME NEW q, NEW security, NEW host, NEW x
  PROVE  <<"mldsa65Verify", x>> \in Security(q, security, host) <=>
           security = "reality" /\ x \in Values(q, {"pqv"})
BY DEF Security, Field, Two

LEMMA SecurityNamed ==
  ASSUME NEW q, NEW security, NEW host, NEW x
  PROVE  <<"security", x>> \in Security(q, security, host) <=> x = security
BY DEF Security, Field

\* The fields of each transport.
LEMMA TcpHas ==
  ASSUME NEW q, NEW host, NEW x
  PROVE  LET out == Transport(q, "tcp", host)
         IN IF HeaderType(q) = "http"
            THEN /\ <<"type", "http">> \in out
                 /\ <<"path", x>> \in out <=> x = Get(q, {"path"}, "/")
                 /\ <<"host", x>> \in out <=> x = Get(q, {"host"}, host)
            ELSE out = {}
BY DEF Transport, Path, HttpHeader

LEMMA WsHas ==
  ASSUME NEW q, NEW net \in {"ws", "httpupgrade"}, NEW host, NEW x, NEW f \in {"host", "ed", "eh"}
  PROVE  LET out == Transport(q, net, host)
         IN /\ <<"path", x>> \in out <=> x = Get(q, {"path"}, "/")
            /\ <<f, x>> \in out <=> x \in Values(q, {f})
<1> DEFINE rest == Fields(q, {"host", "ed", "eh"})
<1>1. Transport(q, net, host) = Path(q) \cup rest
  BY DEF Transport
<1>2. /\ <<"path", x>> \notin rest
      /\ <<f, x>> \in rest <=> x \in Values(q, {f})
  <2>1. \A g : <<g, x>> \in rest <=> g \in {"host", "ed", "eh"} /\ x \in Values(q, {g})
    BY FieldsAre DEF One
  <2> QED
    BY <2>1
<1>3. <<f, x>> \notin Path(q) /\ (<<"path", x>> \in Path(q) <=> x = Get(q, {"path"}, "/"))
  BY DEF Path
<1> HIDE DEF rest
<1> QED
  BY <1>1, <1>2, <1>3, Zenon

LEMMA XhttpHas ==
  ASSUME NEW q, NEW net \in {"xhttp", "splithttp"}, NEW host, NEW x,
         NEW f \in {"host", "mode", "extra"}
  PROVE  LET out == Transport(q, net, host)
         IN /\ <<"path", x>> \in out <=> x = Get(q, {"path"}, "/")
            /\ <<f, x>> \in out <=> x \in Values(q, {f})
<1> DEFINE rest == Fields(q, {"host", "mode", "extra"})
<1>1. Transport(q, net, host) = Path(q) \cup rest
  BY DEF Transport
<1>2. /\ <<"path", x>> \notin rest
      /\ <<f, x>> \in rest <=> x \in Values(q, {f})
  <2>1. \A g : <<g, x>> \in rest <=> g \in {"host", "mode", "extra"} /\ x \in Values(q, {g})
    BY FieldsAre DEF One
  <2> QED
    BY <2>1
<1>3. <<f, x>> \notin Path(q) /\ (<<"path", x>> \in Path(q) <=> x = Get(q, {"path"}, "/"))
  BY DEF Path
<1> HIDE DEF rest
<1> QED
  BY <1>1, <1>2, <1>3, Zenon

LEMMA GrpcHas ==
  ASSUME NEW q, NEW host, NEW x, NEW f \in GrpcFields \ {"path", "serviceName"}
  PROVE  LET out == Transport(q, "grpc", host)
         IN /\ <<"serviceName", x>> \in out <=> x = Get(q, Two("serviceName", "path"), "")
            /\ <<f, x>> \in out <=> x \in Values(q, {f})
<1> DEFINE names == GrpcFields \ {"path", "serviceName"}
           rest == Fields(q, names)
           first == {<<"serviceName", Get(q, {"serviceName", "path"}, "")>>}
<1>1. Transport(q, "grpc", host) = first \cup rest
  BY DEF Transport
<1>2. /\ <<"serviceName", x>> \notin rest
      /\ <<f, x>> \in rest <=> x \in Values(q, {f})
  <2>1. \A g : <<g, x>> \in rest <=> g \in names /\ x \in Values(q, {g})
    BY FieldsAre DEF One
  <2> QED
    BY <2>1
<1>3. /\ <<f, x>> \notin first
      /\ <<"serviceName", x>> \in first <=> x = Get(q, Two("serviceName", "path"), "")
  BY DEF Two
<1> QED
  BY <1>1, <1>2, <1>3

LEMMA ServiceNameIs ==
  ASSUME NEW q, NEW host, NEW x
  PROVE  <<"serviceName", x>> \in Transport(q, "grpc", host) <=>
           x = Get(q, Two("serviceName", "path"), "")
<1>1. "mode" \in GrpcFields \ {"path", "serviceName"}
  BY DEF GrpcFields
<1> QED
  BY <1>1, GrpcHas

LEMMA KcpHas ==
  ASSUME NEW q, NEW host, NEW x, NEW f \in {"mtu", "tti"}
  PROVE  <<f, x>> \in Transport(q, "kcp", host) <=> x \in Values(q, {f})
<1>1. Transport(q, "kcp", host) = Fields(q, {"mtu", "tti"})
  BY DEF Transport
<1> QED
  BY <1>1, FieldsAre DEF One

SecurityOuts ==
    {"security", "serverName", "fingerprint", "alpn", "echConfigList", "pinnedPeerCertSha256",
     "verifyPeerCertByName", "publicKey", "shortId", "spiderX", "mldsa65Verify"}
TransportOuts ==
    {"path", "type", "host", "ed", "eh", "extra", "mtu", "tti"} \cup GrpcFields
StreamOuts == SecurityOuts \cup TransportOuts \cup {"network", "finalmask", "tcpFastOpen"}

\* An outbound has one of these fields that another has not.
Tells(out, less, fields) == \E f \in fields : \E x : <<f, x>> \in out /\ <<f, x>> \notin less

\* The options of a stream that have two names.
StreamPairs == {Two("sni", "peer"), Two("fp", "fingerprint"), Two("pbk", "publicKey"),
                Two("sid", "shortId"), Two("spx", "spiderX"), Two("serviceName", "path"),
                Two("tfo", "fastopen")}

\* The value x of an option leaves with it, under each of its names.
Leaves(q, less, n, x) ==
    /\ Given(q, n) /\ x = q[n]
    /\ Gone(q, less, {n}, x)
    /\ \A names \in StreamPairs : n \in names /\ Agree(q, names) => Gone(q, less, names, x)
    /\ n # "headerType" => HeaderType(less) = HeaderType(q)
\* It is not what holds without it.
Differs(n, x, security, net, host) ==
    /\ n \in {"sni", "peer"} => x # host
    /\ n = "headerType" => x # "none"
    /\ n \in {"spx", "spiderX"} => x # "/"
    /\ n \in {"fp", "fingerprint"} /\ security = "reality" => x # "chrome"
    /\ n = "path" /\ net # "grpc" => x # "/"
    /\ n = "host" /\ net = "tcp" => x # host
    /\ n \in {"tfo", "fastopen", "allowInsecure", "insecure"} => x \notin False

\* What that means for an option of two names, and for one of a single name.
LEMMA PairLeaves ==
  ASSUME NEW q, NEW less, NEW n, NEW x, Leaves(q, less, n, x),
         NEW names \in StreamPairs, n \in names, Agree(q, names)
  PROVE  /\ x \in Values(q, names) /\ Values(less, names) = {}
         /\ \A d : Get(q, names, d) = x /\ Get(less, names, d) = d
<1>1. Gone(q, less, names, x)
  BY DEF Leaves
<1>2. \A d : Get(q, names, d) = x /\ Get(less, names, d) = d
  BY <1>1, GoneMeans
<1>3. x \in Values(q, names) /\ Values(less, names) = {}
  BY <1>1 DEF Gone
<1> QED
  BY <1>2, <1>3

LEMMA OptionLeaves ==
  ASSUME NEW q, NEW less, NEW n, NEW x, Leaves(q, less, n, x)
  PROVE  /\ x \in Values(q, {n}) /\ Values(less, {n}) = {}
         /\ \A d : Get(q, {n}, d) = x /\ Get(less, {n}, d) = d
<1>1. Gone(q, less, {n}, x)
  BY DEF Leaves
<1>2. \A d : Get(q, {n}, d) = x /\ Get(less, {n}, d) = d
  BY <1>1, GoneMeans
<1>3. x \in Values(q, {n}) /\ Values(less, {n}) = {}
  BY <1>1 DEF Gone
<1> QED
  BY <1>2, <1>3

\* The options of a layer.
SecurityNames == UNION {SecurityFields[s] : s \in DOMAIN SecurityFields}
TransportNames == UNION {TransportFields[t] : t \in DOMAIN TransportFields}

LEMMA LayerNames ==
  /\ DOMAIN SecurityFields = {"tls", "reality", "none"}
  /\ SecurityFields["tls"] = {"sni", "peer", "fp", "fingerprint", "alpn", "allowInsecure",
                              "insecure", "ech", "pcs", "vcn"}
  /\ SecurityFields["reality"] = {"sni", "peer", "fp", "fingerprint", "pbk", "publicKey", "sid",
                                  "shortId", "spx", "spiderX", "pqv"}
  /\ SecurityFields["none"] = {}
BY DEF SecurityFields, SharedSecurity

\* An option of the security layer that leaves changes a field of the layer.
LEMMA SecurityTells ==
  ASSUME NEW q, NEW less, NEW security, NEW net, NEW host, NEW n \in SecurityNames, NEW x,
         StreamOk(q, security, net), Leaves(q, less, n, x), Differs(n, x, security, net, host)
  PROVE  Tells(Security(q, security, host), Security(less, security, host), SecurityOuts)
<1> DEFINE out == Security(q, security, host)
           rest == Security(less, security, host)
<1>0. x # "" /\ n \in DOMAIN q
  BY DEF Leaves, Given
<1>1. security \in {"tls", "reality"} /\ n \in SecurityFields[security]
  BY LayerNames DEF StreamOk, Relevant, SecurityNames, Leaves, Given
<1>2. /\ Agree(q, Two("sni", "peer")) /\ Agree(q, Two("fp", "fingerprint"))
      /\ Values(q, Two("allowInsecure", "insecure")) \subseteq False
      /\ security = "reality" => /\ Agree(q, Two("pbk", "publicKey"))
                                 /\ Agree(q, Two("sid", "shortId"))
                                 /\ Agree(q, Two("spx", "spiderX"))
  BY DEF StreamOk, SecurityOk, Two
<1>3. SUFFICES \E f \in SecurityOuts : <<f, x>> \in out /\ <<f, x>> \notin rest
  BY DEF Tells
<1> HIDE DEF out, rest
<1>5. CASE n \in {"sni", "peer"}
  <2>1. Get(q, Two("sni", "peer"), host) = x /\ Get(less, Two("sni", "peer"), host) = host
    BY <1>2, <1>5, PairLeaves DEF StreamPairs, Two
  <2>2. x # host
    BY <1>5 DEF Differs
  <2>3. <<"serverName", x>> \in out /\ <<"serverName", x>> \notin rest
    BY <1>1, <2>1, <2>2, ServerNameIs DEF out, rest
  <2> QED
    BY <2>3 DEF SecurityOuts
<1>6. CASE n \in {"fp", "fingerprint"}
  <2>1. /\ x \in Values(q, Two("fp", "fingerprint")) /\ Values(less, Two("fp", "fingerprint")) = {}
        /\ Get(q, Two("fp", "fingerprint"), "chrome") = x
        /\ Get(less, Two("fp", "fingerprint"), "chrome") = "chrome"
    BY <1>2, <1>6, PairLeaves DEF StreamPairs, Two
  <2>2. security = "reality" => x # "chrome"
    BY <1>6 DEF Differs
  <2>3. <<"fingerprint", x>> \in out /\ <<"fingerprint", x>> \notin rest
    BY <1>1, <2>1, <2>2, FingerprintIs DEF out, rest
  <2> QED
    BY <2>3 DEF SecurityOuts
<1>7. CASE n \in {"allowInsecure", "insecure"}
  <2>1. x \in False
    BY <1>2, <1>7 DEF Leaves, Values, Two
  <2> QED
    BY <1>7, <2>1 DEF Differs
<1>8. CASE n \in {"alpn", "ech", "pcs", "vcn"}
  <2>1. security = "tls"
    BY <1>1, <1>8, LayerNames
  <2>2. x \in Values(q, {n}) /\ x \notin Values(less, {n})
    BY OptionLeaves
  <2>3. CASE n = "alpn"
    <3>1. <<"alpn", x>> \in out /\ <<"alpn", x>> \notin rest
      BY <2>1, <2>2, <2>3, AlpnIs DEF out, rest
    <3> QED
      BY <3>1 DEF SecurityOuts
  <2>4. CASE n = "ech"
    <3>1. <<"echConfigList", x>> \in out /\ <<"echConfigList", x>> \notin rest
      BY <2>1, <2>2, <2>4, EchIs DEF out, rest
    <3> QED
      BY <3>1 DEF SecurityOuts
  <2>5. CASE n = "pcs"
    <3>1. <<"pinnedPeerCertSha256", x>> \in out /\ <<"pinnedPeerCertSha256", x>> \notin rest
      BY <2>1, <2>2, <2>5, PinnedIs DEF out, rest
    <3> QED
      BY <3>1 DEF SecurityOuts
  <2>6. CASE n = "vcn"
    <3>1. <<"verifyPeerCertByName", x>> \in out /\ <<"verifyPeerCertByName", x>> \notin rest
      BY <2>1, <2>2, <2>6, VerifiedIs DEF out, rest
    <3> QED
      BY <3>1 DEF SecurityOuts
  <2> QED
    BY <1>8, <2>3, <2>4, <2>5, <2>6
<1>9. CASE n \in {"pbk", "publicKey", "sid", "shortId", "spx", "spiderX", "pqv"}
  <2>1. security = "reality"
    BY <1>1, <1>9, LayerNames
  <2>2. CASE n \in {"pbk", "publicKey"}
    <3>0. /\ Two("pbk", "publicKey") \in StreamPairs /\ n \in Two("pbk", "publicKey")
          /\ Agree(q, Two("pbk", "publicKey"))
      BY <1>2, <2>1, <2>2 DEF StreamPairs, Two
    <3>1. Get(q, Two("pbk", "publicKey"), "") = x /\ Get(less, Two("pbk", "publicKey"), "") = ""
      <4>1. \A d : /\ Get(q, Two("pbk", "publicKey"), d) = x
                  /\ Get(less, Two("pbk", "publicKey"), d) = d
        BY <3>0, PairLeaves
      <4> QED
        BY <4>1
    <3>2. <<"publicKey", x>> \in out /\ <<"publicKey", x>> \notin rest
      BY <1>0, <2>1, <3>1, PublicKeyIs DEF out, rest
    <3> QED
      BY <3>2 DEF SecurityOuts
  <2>3. CASE n \in {"sid", "shortId"}
    <3>0. /\ Two("sid", "shortId") \in StreamPairs /\ n \in Two("sid", "shortId")
          /\ Agree(q, Two("sid", "shortId"))
      BY <1>2, <2>1, <2>3 DEF StreamPairs, Two
    <3>1. Get(q, Two("sid", "shortId"), "") = x /\ Get(less, Two("sid", "shortId"), "") = ""
      <4>1. \A d : Get(q, Two("sid", "shortId"), d) = x /\ Get(less, Two("sid", "shortId"), d) = d
        BY <3>0, PairLeaves
      <4> QED
        BY <4>1
    <3>2. <<"shortId", x>> \in out /\ <<"shortId", x>> \notin rest
      BY <1>0, <2>1, <3>1, ShortIdIs DEF out, rest
    <3> QED
      BY <3>2 DEF SecurityOuts
  <2>4. CASE n \in {"spx", "spiderX"}
    <3>1. Get(q, Two("spx", "spiderX"), "/") = x /\ Get(less, Two("spx", "spiderX"), "/") = "/"
      BY <1>2, <2>1, <2>4, PairLeaves DEF StreamPairs, Two
    <3>2. x # "/"
      BY <2>4 DEF Differs
    <3>3. <<"spiderX", x>> \in out /\ <<"spiderX", x>> \notin rest
      BY <2>1, <3>1, <3>2, SpiderIs DEF out, rest
    <3> QED
      BY <3>3 DEF SecurityOuts
  <2>5. CASE n = "pqv"
    <3>1. x \in Values(q, {"pqv"}) /\ x \notin Values(less, {"pqv"})
      BY <2>5, OptionLeaves
    <3>2. <<"mldsa65Verify", x>> \in out /\ <<"mldsa65Verify", x>> \notin rest
      BY <2>1, <3>1, SignatureIs DEF out, rest
    <3> QED
      BY <3>2 DEF SecurityOuts
  <2> QED
    BY <1>9, <2>2, <2>3, <2>4, <2>5
<1> QED
  BY <1>1, <1>5, <1>6, <1>7, <1>8, <1>9, LayerNames

\* The options of each transport.
LEMMA TransportsAre ==
  /\ DOMAIN TransportFields = {"tcp", "ws", "httpupgrade", "grpc", "xhttp", "splithttp", "kcp"}
  /\ TransportFields["tcp"] = {"headerType"}
  /\ \A t \in {"ws", "httpupgrade"} : TransportFields[t] = {"host", "path", "ed", "eh"}
  /\ TransportFields["grpc"] = GrpcFields
  /\ \A t \in {"xhttp", "splithttp"} : TransportFields[t] = {"host", "path", "mode", "extra"}
  /\ TransportFields["kcp"] = {"headerType", "seed", "mtu", "tti"}
BY DEF TransportFields

\* An option of the transport that leaves changes a field of it, or the header that its host
\* and its path go with: build_stream.
LEMMA TransportTells ==
  ASSUME NEW q, NEW less, NEW security, NEW net, NEW host, NEW n \in TransportNames, NEW x,
         StreamOk(q, security, net), Leaves(q, less, n, x), Differs(n, x, security, net, host)
  PROVE  Tells(Transport(q, net, host), Transport(less, net, host), TransportOuts)
<1> DEFINE out == Transport(q, net, host)
           rest == Transport(less, net, host)
<1>0. /\ x # "" /\ n \in DOMAIN q
      /\ x \in Values(q, {n}) /\ x \notin Values(less, {n})
  BY OptionLeaves DEF Leaves, Given
<1>1. net \in DOMAIN TransportFields /\ TransportOk(q, net)
  BY DEF StreamOk
<1>2. n \in TransportFields[net] \/ (HttpHeader(q, net) /\ n \in {"host", "path"})
  <2>1. \/ n \in TransportFields[net] \cup IF HttpHeader(q, net) THEN {"host", "path"} ELSE {}
        \/ <<n, x>> = <<"headerType", "none">>
    BY <1>0 DEF StreamOk, Relevant, TransportNames, Leaves
  <2>2. <<n, x>> # <<"headerType", "none">>
    BY DEF Differs
  <2> QED
    BY <2>1, <2>2
<1>3. SUFFICES \E f \in TransportOuts : \E y : <<f, y>> \in out /\ <<f, y>> \notin rest
  BY DEF Tells
<1>4. ASSUME n = "path", net # "grpc", \A d : Get(q, {"path"}, d) = x /\ Get(less, {"path"}, d) = d
      PROVE  x # "/" /\ Get(q, {"path"}, "/") = x /\ Get(less, {"path"}, "/") = "/"
  <2>1. Get(q, {"path"}, "/") = x /\ Get(less, {"path"}, "/") = "/"
    BY <1>4
  <2> QED
    BY <1>4, <2>1 DEF Differs
<1>5. n = "path" => \A d : Get(q, {"path"}, d) = x /\ Get(less, {"path"}, d) = d
  <2>1. ASSUME n = "path" PROVE \A d : Get(q, {"path"}, d) = x /\ Get(less, {"path"}, d) = d
    <3>1. Leaves(q, less, "path", x)
      BY <2>1
    <3> QED
      BY <3>1, OptionLeaves
  <2> QED
    BY <2>1
<1> HIDE DEF out, rest
<1>6. CASE net = "tcp"
  <2>1. CASE n = "headerType"
    <3>1. HeaderType(q) = x /\ HeaderType(less) = "none"
      <4>1. Gone(q, less, {"headerType"}, x)
        BY <2>1 DEF Leaves
      <4>2. \A d : Get(q, {"headerType"}, d) = x /\ Get(less, {"headerType"}, d) = d
        BY <4>1, GoneMeans
      <4>3. Get(q, {"headerType"}, "none") = x /\ Get(less, {"headerType"}, "none") = "none"
        BY <4>2
      <4> QED
        BY <4>3 DEF HeaderType
    <3>2. HeaderType(q) = "http"
      BY <1>1, <1>6, <2>1, <3>1 DEF TransportOk, Differs
    <3>3. <<"type", "http">> \in out /\ rest = {}
      BY <1>6, <3>1, <3>2, TcpHas DEF out, rest
    <3> QED
      BY <3>3 DEF TransportOuts
  <2>2. CASE n # "headerType"
    <3>1. HeaderType(q) = "http" /\ HeaderType(less) = "http" /\ n \in {"host", "path"}
      BY <1>2, <1>6, <2>2, TransportsAre DEF HttpHeader, Leaves
    <3>2. CASE n = "host"
      <4>1. \A d : Get(q, {"host"}, d) = x /\ Get(less, {"host"}, d) = d
        <5>1. Leaves(q, less, "host", x)
          BY <3>2
        <5> QED
          BY <5>1, OptionLeaves
      <4>2. x # host
        BY <1>6, <3>2 DEF Differs
      <4>3. <<"host", x>> \in out /\ <<"host", x>> \notin rest
        BY <1>6, <3>1, <4>1, <4>2, TcpHas DEF out, rest
      <4> QED
        BY <4>3 DEF TransportOuts
    <3>3. CASE n = "path"
      <4>1. <<"path", x>> \in out /\ <<"path", x>> \notin rest
        BY <1>4, <1>5, <1>6, <3>1, <3>3, TcpHas DEF out, rest
      <4> QED
        BY <4>1 DEF TransportOuts
    <3> QED
      BY <3>1, <3>2, <3>3
  <2> QED
    BY <2>1, <2>2
<1>7. CASE net \in {"ws", "httpupgrade"}
  <2>1. n \in {"host", "path", "ed", "eh"}
    BY <1>2, <1>7, TransportsAre DEF HttpHeader
  <2>2. CASE n = "path"
    <3>1. <<"path", x>> \in out /\ <<"path", x>> \notin rest
      BY <1>4, <1>5, <1>7, <2>2, WsHas DEF out, rest
    <3> QED
      BY <3>1 DEF TransportOuts
  <2>3. CASE n \in {"host", "ed", "eh"}
    <3>1. <<n, x>> \in out /\ <<n, x>> \notin rest
      BY <1>0, <1>7, <2>3, WsHas DEF out, rest
    <3> QED
      BY <2>3, <3>1 DEF TransportOuts
  <2> QED
    BY <2>1, <2>2, <2>3
<1>8. CASE net = "grpc"
  <2>1. n \in GrpcFields
    BY <1>2, <1>8, TransportsAre DEF HttpHeader
  <2>2. CASE n \in {"path", "serviceName"}
    <3>1. Two("serviceName", "path") \in StreamPairs /\ n \in Two("serviceName", "path")
          /\ Agree(q, Two("serviceName", "path"))
      BY <1>1, <1>8, <2>2 DEF StreamPairs, Two, TransportOk
    <3>2. \A d : /\ Get(q, Two("serviceName", "path"), d) = x
                /\ Get(less, Two("serviceName", "path"), d) = d
      BY <3>1, PairLeaves
    <3>3. /\ Get(q, Two("serviceName", "path"), "") = x
          /\ Get(less, Two("serviceName", "path"), "") = ""
      BY <3>2
    <3>4. <<"serviceName", x>> \in out /\ <<"serviceName", x>> \notin rest
      BY <1>0, <1>8, <3>3, ServiceNameIs DEF out, rest
    <3> QED
      BY <3>4 DEF TransportOuts, GrpcFields
  <2>3. CASE n \in GrpcFields \ {"path", "serviceName"}
    <3>1. <<n, x>> \in out /\ <<n, x>> \notin rest
      BY <1>0, <1>8, <2>3, GrpcHas DEF out, rest
    <3> QED
      BY <2>3, <3>1 DEF TransportOuts
  <2> QED
    BY <2>1, <2>2, <2>3
<1>9. CASE net \in {"xhttp", "splithttp"}
  <2>1. n \in {"host", "path", "mode", "extra"}
    BY <1>2, <1>9, TransportsAre DEF HttpHeader
  <2>2. CASE n = "path"
    <3>1. <<"path", x>> \in out /\ <<"path", x>> \notin rest
      BY <1>4, <1>5, <1>9, <2>2, XhttpHas DEF out, rest
    <3> QED
      BY <3>1 DEF TransportOuts
  <2>3. CASE n \in {"host", "mode", "extra"}
    <3>1. <<n, x>> \in out /\ <<n, x>> \notin rest
      BY <1>0, <1>9, <2>3, XhttpHas DEF out, rest
    <3> QED
      BY <2>3, <3>1 DEF TransportOuts, GrpcFields
  <2> QED
    BY <2>1, <2>2, <2>3
<1>10. CASE net = "kcp"
  <2>1. n \in {"headerType", "seed", "mtu", "tti"}
    BY <1>2, <1>10, TransportsAre DEF HttpHeader
  <2>2. n # "seed"
    BY <1>1, <1>10 DEF TransportOk, Leaves
  <2>3. n # "headerType"
    <3>1. SUFFICES ASSUME n = "headerType" PROVE FALSE
      OBVIOUS
    <3>2. HeaderType(q) = x
      <4>1. Leaves(q, less, "headerType", x)
        BY <3>1
      <4>2. \A d : Get(q, {"headerType"}, d) = x
        BY <4>1, OptionLeaves
      <4> QED
        BY <4>2 DEF HeaderType
    <3> QED
      BY <1>1, <1>10, <3>1, <3>2 DEF TransportOk, Differs
  <2>4. <<n, x>> \in out /\ <<n, x>> \notin rest
    BY <1>0, <1>10, <2>1, <2>2, <2>3, KcpHas DEF out, rest
  <2> QED
    BY <2>1, <2>2, <2>3, <2>4 DEF TransportOuts
<1> QED
  BY <1>1, <1>6, <1>7, <1>8, <1>9, <1>10, TransportsAre

\* The fields of the layers have names of their own.
LEMMA SecurityFieldsAre ==
  ASSUME NEW q, NEW security, NEW host, NEW f, NEW x, <<f, x>> \in Security(q, security, host)
  PROVE  f \in SecurityOuts
BY DEF Security, Field, SecurityOuts

LEMMA TransportFieldsAre ==
  ASSUME NEW q, NEW net \in DOMAIN TransportFields, NEW host, NEW f, NEW x,
         <<f, x>> \in Transport(q, net, host)
  PROVE  f \in TransportOuts
<1>0. \A names : <<f, x>> \in Fields(q, names) => f \in names
  BY FieldsAre
<1>1. <<f, x>> \in Path(q) => f = "path"
  BY DEF Path
<1>2. net \in {"tcp", "ws", "httpupgrade", "grpc", "xhttp", "splithttp", "kcp"}
  BY TransportsAre
<1> USE DEF Transport, TransportOuts
<1>3. CASE net = "tcp"
  BY <1>1, <1>3
<1>4. CASE net \in {"ws", "httpupgrade"}
  BY <1>0, <1>1, <1>4
<1>5. CASE net = "grpc"
  BY <1>0, <1>5 DEF GrpcFields
<1>6. CASE net \in {"xhttp", "splithttp"}
  BY <1>0, <1>1, <1>6 DEF GrpcFields
<1>7. CASE net = "kcp"
  BY <1>0, <1>7
<1> QED
  BY <1>2, <1>3, <1>4, <1>5, <1>6, <1>7

LEMMA OutsAreApart ==
  /\ SecurityOuts \cap TransportOuts = {}
  /\ {"network", "finalmask", "tcpFastOpen"} \cap (SecurityOuts \cup TransportOuts) = {}
BY DEF SecurityOuts, TransportOuts, GrpcFields

\* A stream has the fields of its layers and of nothing else under their names.
LEMMA StreamHas ==
  ASSUME NEW q, NEW security, NEW net \in DOMAIN TransportFields, NEW host, NEW x
  PROVE  LET out == Stream(q, security, net, host)
         IN /\ \A f \in SecurityOuts : <<f, x>> \in out <=> <<f, x>> \in Security(q, security, host)
            /\ \A f \in TransportOuts : <<f, x>> \in out <=> <<f, x>> \in Transport(q, net, host)
            /\ <<"finalmask", x>> \in out <=> x \in Values(q, {"fm"})
            /\ <<"tcpFastOpen", "true">> \in out <=> Yes(q, {"tfo", "fastopen"})
<1> DEFINE first == {<<"network", IF net = "splithttp" THEN "xhttp" ELSE net>>}
           security_ == Security(q, security, host)
           transport_ == Transport(q, net, host)
           mask == Field(q, {"fm"}, "finalmask")
           open == Switch(q, {"tfo", "fastopen"}, "tcpFastOpen")
<1>1. Stream(q, security, net, host) = first \cup security_ \cup transport_ \cup mask \cup open
  BY DEF Stream
<1>2. \A f, y : <<f, y>> \in first <=>
        f = "network" /\ y = IF net = "splithttp" THEN "xhttp" ELSE net
  OBVIOUS
<1>3. \A f, y : <<f, y>> \in security_ => f \in SecurityOuts
  BY SecurityFieldsAre
<1>4. \A f, y : <<f, y>> \in transport_ => f \in TransportOuts
  BY TransportFieldsAre
<1>5. \A f, y : <<f, y>> \in mask <=> f = "finalmask" /\ y \in Values(q, {"fm"})
  BY DEF Field
<1>6. \A f, y : <<f, y>> \in open <=> f = "tcpFastOpen" /\ y = "true" /\ Yes(q, {"tfo", "fastopen"})
  BY DEF Switch
<1> HIDE DEF first, security_, transport_, mask, open
<1>7. ASSUME NEW f \in SecurityOuts
      PROVE  <<f, x>> \in Stream(q, security, net, host) <=> <<f, x>> \in security_
  <2>1. f \notin TransportOuts /\ f # "network" /\ f # "finalmask" /\ f # "tcpFastOpen"
    BY OutsAreApart
  <2>2. /\ <<f, x>> \notin first /\ <<f, x>> \notin transport_ /\ <<f, x>> \notin mask
        /\ <<f, x>> \notin open
    BY <1>2, <1>4, <1>5, <1>6, <2>1
  <2> QED
    BY <1>1, <2>2
<1>8. ASSUME NEW f \in TransportOuts
      PROVE  <<f, x>> \in Stream(q, security, net, host) <=> <<f, x>> \in transport_
  <2>1. f \notin SecurityOuts /\ f # "network" /\ f # "finalmask" /\ f # "tcpFastOpen"
    BY OutsAreApart
  <2>2. /\ <<f, x>> \notin first /\ <<f, x>> \notin security_ /\ <<f, x>> \notin mask
        /\ <<f, x>> \notin open
    BY <1>2, <1>3, <1>5, <1>6, <2>1
  <2> QED
    BY <1>1, <2>2
<1>9. \A f \in {"network", "finalmask", "tcpFastOpen"} : \A y : /\ <<f, y>> \notin security_
                                                              /\ <<f, y>> \notin transport_
  BY <1>3, <1>4, OutsAreApart
<1>10. <<"finalmask", x>> \in Stream(q, security, net, host) <=> <<"finalmask", x>> \in mask
  BY <1>1, <1>2, <1>6, <1>9
<1>11. <<"tcpFastOpen", "true">> \in Stream(q, security, net, host) <=>
         <<"tcpFastOpen", "true">> \in open
  BY <1>1, <1>2, <1>5, <1>9
<1> QED
  BY <1>5, <1>6, <1>7, <1>8, <1>10, <1>11 DEF security_, transport_

LEMMA NetworkNamed ==
  ASSUME NEW q, NEW security, NEW net \in DOMAIN TransportFields, NEW host, NEW x
  PROVE  <<"network", x>> \in Stream(q, security, net, host) <=>
           x = IF net = "splithttp" THEN "xhttp" ELSE net
<1>1. /\ <<"network", x>> \notin Security(q, security, host)
      /\ <<"network", x>> \notin Transport(q, net, host)
  BY SecurityFieldsAre, TransportFieldsAre, OutsAreApart
<1>2. /\ <<"network", x>> \notin Field(q, {"fm"}, "finalmask")
      /\ <<"network", x>> \notin Switch(q, {"tfo", "fastopen"}, "tcpFastOpen")
  BY DEF Field, Switch
<1> QED
  BY <1>1, <1>2 DEF Stream

StreamNames == SecurityNames \cup TransportNames \cup {"fm", "tfo", "fastopen"}

\* Either layer shows in the stream, and so do its own two options: build_stream.
LEMMA StreamTells ==
  ASSUME NEW q, NEW less, NEW security, NEW net, NEW host, NEW n \in StreamNames, NEW x,
         StreamOk(q, security, net), Leaves(q, less, n, x), Differs(n, x, security, net, host)
  PROVE  Tells(Stream(q, security, net, host), Stream(less, security, net, host), StreamOuts)
<1> DEFINE out == Stream(q, security, net, host)
           rest == Stream(less, security, net, host)
<1>1. net \in DOMAIN TransportFields
  BY DEF StreamOk
<1>2. CASE n \in SecurityNames
  <2>1. PICK f \in SecurityOuts : \E y : /\ <<f, y>> \in Security(q, security, host)
                                         /\ <<f, y>> \notin Security(less, security, host)
    BY <1>2, SecurityTells DEF Tells
  <2>2. \E y : <<f, y>> \in out /\ <<f, y>> \notin rest
    BY <1>1, <2>1, StreamHas
  <2> QED
    BY <2>2 DEF Tells, StreamOuts
<1>3. CASE n \in TransportNames
  <2>1. PICK f \in TransportOuts : \E y : /\ <<f, y>> \in Transport(q, net, host)
                                          /\ <<f, y>> \notin Transport(less, net, host)
    BY <1>3, TransportTells DEF Tells
  <2>2. \E y : <<f, y>> \in out /\ <<f, y>> \notin rest
    BY <1>1, <2>1, StreamHas
  <2> QED
    BY <2>2 DEF Tells, StreamOuts
<1>4. CASE n = "fm"
  <2>1. Leaves(q, less, "fm", x)
    BY <1>4
  <2>2. x \in Values(q, {"fm"}) /\ Values(less, {"fm"}) = {}
    BY <2>1, OptionLeaves
  <2>3. <<"finalmask", x>> \in out /\ <<"finalmask", x>> \notin rest
    BY <1>1, <2>2, StreamHas
  <2> QED
    BY <2>3 DEF Tells, StreamOuts
<1>5. CASE n \in {"tfo", "fastopen"}
  <2> DEFINE names == Two("tfo", "fastopen")
  <2>1. IsBool(q, names)
    BY DEF StreamOk, Two
  <2>2. names \in StreamPairs /\ n \in names /\ Agree(q, names)
    BY <1>5, <2>1 DEF StreamPairs, Two, IsBool
  <2>3. Gone(q, less, names, x)
    BY <2>2 DEF Leaves
  <2>4. x \in True
    BY <1>5, <2>1, <2>3 DEF Gone, IsBool, Differs
  <2>5. Yes(q, {"tfo", "fastopen"}) /\ ~Yes(less, {"tfo", "fastopen"})
    BY <2>3, <2>4, GoneMeans DEF Two
  <2>6. <<"tcpFastOpen", "true">> \in out /\ <<"tcpFastOpen", "true">> \notin rest
    BY <1>1, <2>5, StreamHas
  <2> QED
    BY <2>6 DEF Tells, StreamOuts
<1> QED
  BY <1>2, <1>3, <1>4, <1>5 DEF StreamNames

\* Streams of different transports or security layers.
LEMMA LayersTell ==
  ASSUME NEW q, NEW less, NEW security, NEW net \in DOMAIN TransportFields, NEW host,
         NEW security2, NEW net2 \in DOMAIN TransportFields,
         security # security2 \/ (net # net2 /\ net2 = "tcp")
  PROVE  Tells(Stream(q, security, net, host), Stream(less, security2, net2, host), StreamOuts)
<1> DEFINE out == Stream(q, security, net, host)
           rest == Stream(less, security2, net2, host)
<1>1. CASE security # security2
  <2>1. "security" \in SecurityOuts
    BY DEF SecurityOuts
  <2>2. <<"security", security>> \in out
    BY <2>1, StreamHas, SecurityNamed
  <2>3. <<"security", security>> \notin rest
    <3>1. <<"security", security>> \in rest <=>
            <<"security", security>> \in Security(less, security2, host)
      BY <2>1, StreamHas
    <3>2. <<"security", security>> \notin Security(less, security2, host)
      BY <1>1, SecurityNamed
    <3> QED
      BY <3>1, <3>2
  <2> QED
    BY <2>1, <2>2, <2>3 DEF Tells, StreamOuts
<1>2. CASE net # net2 /\ net2 = "tcp"
  <2> DEFINE name == IF net = "splithttp" THEN "xhttp" ELSE net
  <2>1. name # "tcp"
    BY <1>2
  <2>2. <<"network", name>> \in out /\ <<"network", name>> \notin rest
    BY <1>2, <2>1, NetworkNamed
  <2> QED
    BY <2>2 DEF Tells, StreamOuts
<1> QED
  BY <1>1, <1>2

\* An option that has a value, and no other name with the same.
Alone(q, n) == /\ Given(q, n)
               /\ \A m \in DOMAIN q \ {n} :
                     q[m] = q[n] => \A names \in Aliases : ~({m, n} \subseteq names)

LEMMA AliasesAreFinite == \A names \in Aliases : IsFiniteSet(names)
<1>1. \A a, b, c : IsFiniteSet({a, b, c})
  BY FewNames
<1>2. \A a, b : IsFiniteSet({a, b})
  <2> SUFFICES ASSUME NEW a, NEW b PROVE IsFiniteSet({a, b})
    OBVIOUS
  <2>1. {a, b} = {a, b, b}
    OBVIOUS
  <2>2. IsFiniteSet({a, b, b})
    BY FewNames
  <2> QED
    BY <2>1, <2>2
<1> SUFFICES ASSUME NEW names \in Aliases PROVE IsFiniteSet(names)
  OBVIOUS
<1>3. (\E a, b : names = {a, b}) \/ (\E a, b, c : names = {a, b, c})
  BY Zenon DEF Aliases, Insecure, Hop, HopInterval, ObfsPassword
<1>4. CASE \E a, b : names = {a, b}
  <2>1. PICK a, b : names = {a, b}
    BY <1>4
  <2>2. IsFiniteSet({a, b})
    BY <1>2
  <2> QED
    BY <2>1, <2>2
<1>5. CASE \E a, b, c : names = {a, b, c}
  <2>1. PICK a, b, c : names = {a, b, c}
    BY <1>5
  <2>2. IsFiniteSet({a, b, c})
    BY FewNames
  <2> QED
    BY <2>1, <2>2
<1> QED
  BY <1>3, <1>4, <1>5

\* An option that no other says again goes with its name.
LEMMA AloneGoes ==
  ASSUME NEW q, NEW n, Alone(q, n), NEW names \in Aliases, n \in names, Agree(q, names)
  PROVE  Gone(q, But(q, n), names, q[n])
<1>1. IsFiniteSet(names)
  BY AliasesAreFinite
<1>2. ASSUME NEW m \in names \ {n}, Given(q, m), q[m] = q[n] PROVE FALSE
  <2>1. m \in DOMAIN q \ {n} /\ {m, n} \subseteq names
    BY <1>2 DEF Given
  <2> QED
    BY <1>2, <2>1 DEF Alone
<1>3. Given(q, n)
  BY DEF Alone
<1> QED
  BY <1>1, <1>2, <1>3, ValueGoes

\* What does not go by its name stays.
LEMMA GetStays ==
  ASSUME NEW q, NEW n, NEW names, n \notin names, NEW d
  PROVE  Get(But(q, n), names, d) = Get(q, names, d)
<1>1. Values(But(q, n), names) = Values(q, names)
  BY OthersStay
<1>2. \A V, W : V = W => (CHOOSE v \in V : TRUE) = (CHOOSE v \in W : TRUE)
  OBVIOUS
<1> QED
  BY <1>1, <1>2 DEF Get

LEMMA HeaderStays ==
  ASSUME NEW q, NEW n, n # "headerType"
  PROVE  HeaderType(But(q, n)) = HeaderType(q)
<1>1. n \notin {"headerType"}
  OBVIOUS
<1>2. \A d : Get(But(q, n), {"headerType"}, d) = Get(q, {"headerType"}, d)
  BY <1>1, GetStays
<1> QED
  BY <1>2 DEF HeaderType

\* It leaves the stream under each of its names.
LEMMA AloneLeaves ==
  ASSUME NEW q, NEW n, Alone(q, n)
  PROVE  Leaves(q, But(q, n), n, q[n])
<1>1. Given(q, n)
  BY DEF Alone
<1>2. StreamPairs \subseteq Aliases
  BY DEF StreamPairs, Aliases, Two
<1>3. Gone(q, But(q, n), {n}, q[n])
  BY <1>1, OneValueGoes
<1>4. \A names \in StreamPairs : n \in names /\ Agree(q, names) => Gone(q, But(q, n), names, q[n])
  BY <1>2, AloneGoes
<1> QED
  BY <1>1, <1>3, <1>4, HeaderStays DEF Leaves

\* What the option of a URI says is not the default.
Says(q, n, x, default, host) ==
    /\ Differs(n, x, Get(q, {"security"}, default), Net(q), host)
    /\ n \in {"type", "net"} => x # "tcp"
    /\ n = "security" => x # default

\* An option of the stream of a link changes the stream, the one that names the transport
\* or the security layer by what the link then asks for.
LEMMA UriTells ==
  ASSUME NEW q, NEW n \in StreamNames \cup {"type", "net", "security"}, Alone(q, n), NEW default,
         NEW host,
         Agree(q, {"type", "net"}), StreamOk(q, Get(q, {"security"}, default), Net(q)),
         Says(q, n, q[n], default, host)
  PROVE  LET p == But(q, n)
         IN Tells(Stream(q, Get(q, {"security"}, default), Net(q), host),
                  Stream(p, Get(p, {"security"}, default), Net(p), host), StreamOuts)
<1> DEFINE p == But(q, n)
           security == Get(q, {"security"}, default)
           security2 == Get(p, {"security"}, default)
<1>0. StreamNames \cap {"type", "net", "security"} = {}
  BY LayerNames, TransportsAre DEF StreamNames, SecurityNames, TransportNames, GrpcFields
<1>1. ASSUME n # "security" PROVE security2 = security
  <2>1. n \notin {"security"}
    BY <1>1
  <2>2. \A d : Get(p, {"security"}, d) = Get(q, {"security"}, d)
    BY <2>1, GetStays
  <2> QED
    BY <2>2
<1>2. ASSUME n \notin {"type", "net"} PROVE Net(p) = Net(q)
  <2>1. \A d : Get(p, {"type", "net"}, d) = Get(q, {"type", "net"}, d)
    BY <1>2, GetStays
  <2> QED
    BY <2>1 DEF Net
<1>3. Net(q) \in DOMAIN TransportFields /\ "tcp" \in DOMAIN TransportFields
  BY TransportsAre DEF StreamOk
<1> HIDE DEF p, security, security2
<1>4. CASE n \in StreamNames
  <2>1. n # "security" /\ n \notin {"type", "net"}
    BY <1>0, <1>4
  <2>2. security2 = security /\ Net(p) = Net(q)
    BY <1>1, <1>2, <2>1
  <2>3. Leaves(q, p, n, q[n])
    BY AloneLeaves DEF p
  <2>4. StreamOk(q, security, Net(q)) /\ Differs(n, q[n], security, Net(q), host)
    BY DEF security, Says
  <2>5. Tells(Stream(q, security, Net(q), host), Stream(p, security, Net(q), host), StreamOuts)
    BY <1>4, <2>3, <2>4, StreamTells
  <2> QED
    BY <2>2, <2>5 DEF security, security2, p
<1>5. CASE n \in {"type", "net"}
  <2>1. {"type", "net"} \in Aliases
    BY DEF Aliases
  <2>2. Gone(q, p, {"type", "net"}, q[n])
    BY <1>5, <2>1, AloneGoes DEF p
  <2>3. Net(q) = q[n] /\ Net(p) = "tcp"
    BY <2>2, GoneMeans DEF Net
  <2>4. q[n] # "tcp"
    BY <1>5 DEF Says
  <2>5. Tells(Stream(q, security, Net(q), host), Stream(p, security2, Net(p), host), StreamOuts)
    BY <1>3, <2>3, <2>4, LayersTell
  <2> QED
    BY <2>5 DEF security, security2, p
<1>6. CASE n = "security"
  <2>1. Given(q, "security")
    BY <1>6 DEF Alone
  <2>2. Gone(q, But(q, "security"), {"security"}, q["security"])
    BY <2>1, OneValueGoes
  <2>3. security = q[n] /\ security2 = default
    BY <1>6, <2>2, GoneMeans DEF p, security, security2
  <2>4. q[n] # default
    BY <1>6 DEF Says
  <2>5. Net(p) \in DOMAIN TransportFields
    BY <1>2, <1>3, <1>6
  <2>6. Tells(Stream(q, security, Net(q), host), Stream(p, security2, Net(p), host), StreamOuts)
    BY <1>3, <2>3, <2>4, <2>5, LayersTell
  <2> QED
    BY <2>6 DEF security, security2, p
<1> QED
  BY <1>4, <1>5, <1>6

\* The fields of an outbound that are not of its stream.
BaseOuts == {"protocol", "address", "port", "id", "encryption", "flow", "packetEncoding",
             "password", "alterId", "cipher"}
OfBase(fields) == \A f, x : <<f, x>> \in fields => f \in BaseOuts

\* What changes the stream changes the outbound, whatever else does.
LEMMA StreamShows ==
  ASSUME NEW A, NEW S, NEW B, NEW T, Tells(S, T, StreamOuts), OfBase(B)
  PROVE  A \cup S # B \cup T
<1>1. PICK f \in StreamOuts : \E x : <<f, x>> \in S /\ <<f, x>> \notin T
  BY DEF Tells
<1>2. PICK x : <<f, x>> \in S /\ <<f, x>> \notin T
  BY <1>1
<1>3. f \notin BaseOuts
  BY DEF StreamOuts, SecurityOuts, TransportOuts, GrpcFields, BaseOuts
<1>4. <<f, x>> \notin B
  BY <1>3 DEF OfBase
<1> QED
  BY <1>2, <1>4

\* What changes another field does so, too, whatever becomes of the stream.
LEMMA StreamFieldsAre ==
  ASSUME NEW q, NEW security, NEW net \in DOMAIN TransportFields, NEW host, NEW f, NEW x,
         <<f, x>> \in Stream(q, security, net, host)
  PROVE  f \in StreamOuts
<1>1. f \in {"network", "finalmask", "tcpFastOpen"} \/ <<f, x>> \in Security(q, security, host)
        \/ <<f, x>> \in Transport(q, net, host)
  BY DEF Stream, Field, Switch
<1> QED
  BY <1>1, SecurityFieldsAre, TransportFieldsAre DEF StreamOuts

LEMMA BaseShows ==
  ASSUME NEW A, NEW S, NEW B, NEW f \in BaseOuts, NEW x, <<f, x>> \in A, <<f, x>> \notin B,
         NEW q, NEW security, NEW net \in DOMAIN TransportFields, NEW host
  PROVE  A \cup S # B \cup Stream(q, security, net, host)
<1>1. f \notin StreamOuts
  BY DEF StreamOuts, SecurityOuts, TransportOuts, GrpcFields, BaseOuts
<1>2. <<f, x>> \notin Stream(q, security, net, host)
  BY <1>1, StreamFieldsAre
<1> QED
  BY <1>2

\* The options of a link in the form of a URI, and what one of them says.
LEMMA CommonNames ==
  /\ CommonQuery \subseteq StreamNames \cup {"type", "net", "security", "packetEncoding"}
  /\ {"encryption", "flow", "packetEncoding", "aid", "scy"} \cap {"type", "net", "security"} = {}
BY LayerNames, TransportsAre
   DEF CommonQuery, StreamNames, SecurityNames, TransportNames, GrpcFields

LEMMA UriSays ==
  ASSUME NEW link, link.form # "json", NEW n, NEW x, ~SaysDefault(link, <<n, x>>)
  PROVE  /\ x # ""
         /\ Says(Query(link.query), n, x, IF link.scheme = "trojan" THEN "tls" ELSE "none",
                 link.host)
<1> DEFINE q == Query(link.query)
           default == IF link.scheme = "trojan" THEN "tls" ELSE "none"
<1>1. LayersOf(link) = [net |-> Net(q), security |-> Get(q, {"security"}, "none")]
  BY DEF LayersOf
<1>2. LayersOf(link).net = Net(q) /\ LayersOf(link).security = Get(q, {"security"}, "none")
  BY <1>1
<1>3. Get(q, {"security"}, default) = "reality" => LayersOf(link).security = "reality"
  BY <1>2 DEF Get
<1>4. /\ x # "" /\ (n = "headerType" => x # "none") /\ (n \in {"sni", "peer"} => x # link.host)
      /\ n \in {"spx", "spiderX"} => x # "/"
      /\ n \in {"type", "net"} => x # "tcp"
      /\ n = "security" => x # default
      /\ n \in {"tfo", "fastopen", "allowInsecure", "insecure"} => x \notin False
  BY DEF SaysDefault, Booleans, Insecure
<1>5. n \in {"fp", "fingerprint"} /\ Get(q, {"security"}, default) = "reality" => x # "chrome"
  BY <1>3 DEF SaysDefault
<1>6. /\ n = "path" /\ Net(q) # "grpc" => x # "/"
      /\ n = "host" /\ Net(q) = "tcp" => x # link.host
  BY <1>2 DEF SaysDefault
<1> QED
  BY <1>4, <1>5, <1>6 DEF Says, Differs

\* The fields that are not of the stream.
LEMMA ServerFields == ASSUME NEW link PROVE OfBase(Server(link))
BY DEF Server, OfBase, BaseOuts

LEMMA BaseUnion == ASSUME NEW A, NEW B, OfBase(A), OfBase(B) PROVE OfBase(A \cup B)
BY DEF OfBase

LEMMA BaseFields == ASSUME NEW q, NEW names \in SUBSET BaseOuts PROVE OfBase(Fields(q, names))
BY FieldsAre DEF OfBase

\* The part of each outbound that is not of its stream.
VlessBase(link, q) ==
    Server(link) \cup {<<"id", link.user>>, <<"encryption", Get(q, {"encryption"}, "none")>>}
    \cup Fields(q, {"flow", "packetEncoding"})

LEMMA VlessBaseHas ==
  ASSUME NEW link, NEW q, NEW x
  PROVE  /\ OfBase(VlessBase(link, q))
         /\ <<"encryption", x>> \in VlessBase(link, q) <=> x = Get(q, {"encryption"}, "none")
         /\ <<"flow", x>> \in VlessBase(link, q) <=> x \in Values(q, {"flow"})
         /\ <<"packetEncoding", x>> \in VlessBase(link, q) <=> x \in Values(q, {"packetEncoding"})
<1> DEFINE own == {<<"id", link.user>>, <<"encryption", Get(q, {"encryption"}, "none")>>}
           more == Fields(q, {"flow", "packetEncoding"})
<1>1. VlessBase(link, q) = Server(link) \cup own \cup more
  BY DEF VlessBase
<1>2. OfBase(own)
  BY DEF OfBase, BaseOuts
<1>3. {"flow", "packetEncoding"} \subseteq BaseOuts
  BY DEF BaseOuts
<1>4. OfBase(more)
  BY <1>3, BaseFields
<1>5. \A f : <<f, x>> \in more <=> f \in {"flow", "packetEncoding"} /\ x \in Values(q, {f})
  BY FieldsAre DEF One
<1>6. \A f \in {"encryption", "flow", "packetEncoding"} : <<f, x>> \notin Server(link)
  BY DEF Server
<1>7. <<"flow", x>> \notin own /\ <<"packetEncoding", x>> \notin own
  OBVIOUS
<1>8. <<"encryption", x>> \in own <=> x = Get(q, {"encryption"}, "none")
  OBVIOUS
<1> HIDE DEF own, more
<1>9. /\ <<"flow", x>> \in more <=> x \in Values(q, {"flow"})
      /\ <<"packetEncoding", x>> \in more <=> x \in Values(q, {"packetEncoding"})
      /\ <<"encryption", x>> \notin more
  <2>1. "flow" \in {"flow", "packetEncoding"} /\ "packetEncoding" \in {"flow", "packetEncoding"}
    OBVIOUS
  <2>2. "encryption" \notin {"flow", "packetEncoding"}
    OBVIOUS
  <2> QED
    BY <1>5, <2>1, <2>2, Zenon
<1>10. OfBase(VlessBase(link, q))
  BY <1>1, <1>2, <1>4, ServerFields, BaseUnion
<1> QED
  BY <1>1, <1>6, <1>7, <1>8, <1>9, <1>10

\* What the options of a URI make of the outbound.
LEMMA UriOutTells ==
  ASSUME NEW q, NEW n \in StreamNames \cup {"type", "net", "security"}, Alone(q, n), NEW default,
         NEW host,
         Agree(q, {"type", "net"}), StreamOk(q, Get(q, {"security"}, default), Net(q)),
         Says(q, n, q[n], default, host), NEW A, NEW B, OfBase(B)
  PROVE  LET p == But(q, n)
         IN A \cup Stream(q, Get(q, {"security"}, default), Net(q), host)
              # B \cup Stream(p, Get(p, {"security"}, default), Net(p), host)
<1> DEFINE S == Stream(q, Get(q, {"security"}, default), Net(q), host)
           T == Stream(But(q, n), Get(But(q, n), {"security"}, default), Net(But(q, n)), host)
<1>1. Tells(S, T, StreamOuts)
  BY UriTells
<1> HIDE DEF S, T
<1>2. A \cup S # B \cup T
  BY <1>1, StreamShows
<1> QED
  BY <1>2 DEF S, T

LEMMA UriBaseTells ==
  ASSUME NEW q, NEW n, n \notin {"type", "net"}, NEW default, NEW host,
         StreamOk(q, Get(q, {"security"}, default), Net(q)),
         NEW A, NEW B, NEW f \in BaseOuts, NEW x, <<f, x>> \in A, <<f, x>> \notin B
  PROVE  LET p == But(q, n)
         IN A \cup Stream(q, Get(q, {"security"}, default), Net(q), host)
              # B \cup Stream(p, Get(p, {"security"}, default), Net(p), host)
<1> DEFINE p == But(q, n)
           S == Stream(q, Get(q, {"security"}, default), Net(q), host)
<1>1. \A d : Get(p, {"type", "net"}, d) = Get(q, {"type", "net"}, d)
  BY GetStays
<1>2. Net(p) \in DOMAIN TransportFields
  BY <1>1 DEF Net, StreamOk
<1> HIDE DEF p, S
<1>3. A \cup S # B \cup Stream(p, Get(p, {"security"}, default), Net(p), host)
  BY <1>2, BaseShows
<1> QED
  BY <1>3 DEF S, p

\* An option of a single name and its field.
LEMMA FieldGoes ==
  ASSUME NEW q, NEW n, Alone(q, n)
  PROVE  /\ q[n] \in Values(q, {n}) /\ q[n] \notin Values(But(q, n), {n})
         /\ \A d : Get(q, {n}, d) = q[n] /\ Get(But(q, n), {n}, d) = d
<1>1. Gone(q, But(q, n), {n}, q[n])
  BY OneValueGoes DEF Alone
<1>2. \A d : Get(q, {n}, d) = q[n] /\ Get(But(q, n), {n}, d) = d
  BY <1>1, GoneMeans
<1> QED
  BY <1>1, <1>2 DEF Gone

\* Each option of a VLESS link changes the outbound: parse_vless.
LEMMA VlessTells ==
  ASSUME NEW link, NEW less, less.host = link.host, NEW q, VlessOk(link, q), NEW n \in DOMAIN q,
         Alone(q, n),
         Says(q, n, q[n], "none", link.host), n = "encryption" => q[n] # "none"
  PROVE  Vless(link, q) # Vless(less, But(q, n))
<1> DEFINE p == But(q, n)
           A == VlessBase(link, q)
           B == VlessBase(less, p)
<1>1. /\ Vless(link, q) = A \cup Stream(q, Get(q, {"security"}, "none"), Net(q), link.host)
      /\ Vless(less, p) = B \cup Stream(p, Get(p, {"security"}, "none"), Net(p), link.host)
  BY DEF Vless, VlessBase
<1>2. /\ Agree(q, {"type", "net"}) /\ StreamOk(q, Get(q, {"security"}, "none"), Net(q))
      /\ n \in CommonQuery \cup {"encryption", "flow"}
  BY DEF VlessOk, Known
<1>3. OfBase(B)
  BY VlessBaseHas
<1> HIDE DEF p, A, B
<1>4. CASE n \in StreamNames \cup {"type", "net", "security"}
  BY <1>1, <1>2, <1>3, <1>4, UriOutTells DEF p
<1>5. CASE n \in {"encryption", "flow", "packetEncoding"}
  <2>1. n \notin {"type", "net"} /\ n \in BaseOuts
    BY <1>5 DEF BaseOuts
  <2>2. <<n, q[n]>> \in A /\ <<n, q[n]>> \notin B
    <3>1. CASE n = "encryption"
      <4>1. \A d : Get(q, {"encryption"}, d) = q[n] /\ Get(p, {"encryption"}, d) = d
        BY <3>1, FieldGoes DEF p
      <4>2. Get(q, {"encryption"}, "none") = q[n] /\ Get(p, {"encryption"}, "none") = "none"
        BY <4>1
      <4> QED
        BY <3>1, <4>2, VlessBaseHas DEF A, B
    <3>2. CASE n = "flow"
      <4>1. q[n] \in Values(q, {"flow"}) /\ q[n] \notin Values(p, {"flow"})
        BY <3>2, FieldGoes DEF p
      <4> QED
        BY <3>2, <4>1, VlessBaseHas DEF A, B
    <3>3. CASE n = "packetEncoding"
      <4>1. q[n] \in Values(q, {"packetEncoding"}) /\ q[n] \notin Values(p, {"packetEncoding"})
        BY <3>3, FieldGoes DEF p
      <4> QED
        BY <3>3, <4>1, VlessBaseHas DEF A, B
    <3> QED
      BY <1>5, <3>1, <3>2, <3>3
  <2> QED
    BY <1>1, <1>2, <2>1, <2>2, UriBaseTells DEF p
<1> QED
  BY <1>2, <1>4, <1>5, CommonNames DEF p

\* Each option of a Trojan link changes the outbound: parse_trojan.
LEMMA TrojanTells ==
  ASSUME NEW link, NEW less, less.host = link.host, NEW q, TrojanOk(link, q), NEW n \in DOMAIN q,
         Alone(q, n),
         Says(q, n, q[n], "tls", link.host), n # "packetEncoding"
  PROVE  Trojan(link, q) # Trojan(less, But(q, n))
<1> DEFINE p == But(q, n)
           A == Server(link) \cup {<<"password", link.user>>}
           B == Server(less) \cup {<<"password", less.user>>}
<1>1. /\ Trojan(link, q) = A \cup Stream(q, Get(q, {"security"}, "tls"), Net(q), link.host)
      /\ Trojan(less, p) = B \cup Stream(p, Get(p, {"security"}, "tls"), Net(p), link.host)
  BY DEF Trojan
<1>2. /\ Agree(q, {"type", "net"}) /\ StreamOk(q, Get(q, {"security"}, "tls"), Net(q))
      /\ n \in CommonQuery \cup {"flow"} /\ ~Given(q, "flow")
  BY DEF TrojanOk, Known
<1>3. OfBase({<<"password", less.user>>})
  BY DEF OfBase, BaseOuts
<1>4. OfBase(B)
  BY <1>3, ServerFields, BaseUnion
<1>5. n \in StreamNames \cup {"type", "net", "security"}
  BY <1>2, CommonNames DEF Alone
<1> HIDE DEF p, A, B
<1> QED
  BY <1>1, <1>2, <1>4, <1>5, UriOutTells DEF p

VmessBase(link, q, aid, scy) ==
    Server(link) \cup {<<"id", link.user>>, <<"alterId", aid>>, <<"cipher", scy>>}
    \cup Fields(q, {"packetEncoding"})

LEMMA VmessBaseHas ==
  ASSUME NEW link, NEW q, NEW aid, NEW scy, NEW x
  PROVE  /\ OfBase(VmessBase(link, q, aid, scy))
         /\ <<"alterId", x>> \in VmessBase(link, q, aid, scy) <=> x = aid
         /\ <<"cipher", x>> \in VmessBase(link, q, aid, scy) <=> x = scy
         /\ <<"packetEncoding", x>> \in VmessBase(link, q, aid, scy) <=>
              x \in Values(q, {"packetEncoding"})
<1> DEFINE own == {<<"id", link.user>>, <<"alterId", aid>>, <<"cipher", scy>>}
           more == Fields(q, {"packetEncoding"})
<1>1. VmessBase(link, q, aid, scy) = Server(link) \cup own \cup more
  BY DEF VmessBase
<1>2. OfBase(own)
  BY DEF OfBase, BaseOuts
<1>3. {"packetEncoding"} \subseteq BaseOuts
  BY DEF BaseOuts
<1>4. OfBase(more)
  BY <1>3, BaseFields
<1>5. \A f : <<f, x>> \in more <=> f \in {"packetEncoding"} /\ x \in Values(q, {f})
  BY FieldsAre DEF One
<1>6. \A f \in {"alterId", "cipher", "packetEncoding"} : <<f, x>> \notin Server(link)
  BY DEF Server
<1>7. <<"packetEncoding", x>> \notin own
  OBVIOUS
<1>8. (<<"alterId", x>> \in own <=> x = aid) /\ (<<"cipher", x>> \in own <=> x = scy)
  OBVIOUS
<1> HIDE DEF own, more
<1>9. /\ <<"packetEncoding", x>> \in more <=> x \in Values(q, {"packetEncoding"})
      /\ <<"alterId", x>> \notin more /\ <<"cipher", x>> \notin more
  <2>1. /\ "packetEncoding" \in {"packetEncoding"}
        /\ "alterId" \notin {"packetEncoding"} /\ "cipher" \notin {"packetEncoding"}
    OBVIOUS
  <2> QED
    BY <1>5, <2>1, Zenon
<1>10. OfBase(VmessBase(link, q, aid, scy))
  BY <1>1, <1>2, <1>4, ServerFields, BaseUnion
<1> QED
  BY <1>1, <1>6, <1>7, <1>8, <1>9, <1>10

LEMMA VmessBaseFields ==
  ASSUME NEW link, NEW q, NEW aid, NEW scy
  PROVE  OfBase(VmessBase(link, q, aid, scy))
BY VmessBaseHas

LEMMA AlterIdIs ==
  ASSUME NEW link, NEW q, NEW aid, NEW scy, NEW x
  PROVE  <<"alterId", x>> \in VmessBase(link, q, aid, scy) <=> x = aid
<1>1. \A f : <<f, x>> \in Fields(q, {"packetEncoding"}) => f \in {"packetEncoding"}
  BY FieldsAre
<1>2. <<"alterId", x>> \notin Fields(q, {"packetEncoding"})
  BY <1>1
<1> QED
  BY <1>2 DEF VmessBase, Server

LEMMA CipherIs ==
  ASSUME NEW link, NEW q, NEW aid, NEW scy, NEW x
  PROVE  <<"cipher", x>> \in VmessBase(link, q, aid, scy) <=> x = scy
<1>1. \A f : <<f, x>> \in Fields(q, {"packetEncoding"}) => f \in {"packetEncoding"}
  BY FieldsAre
<1>2. <<"cipher", x>> \notin Fields(q, {"packetEncoding"})
  BY <1>1
<1> QED
  BY <1>2 DEF VmessBase, Server

LEMMA PacketIs ==
  ASSUME NEW link, NEW q, NEW aid, NEW scy, NEW x
  PROVE  <<"packetEncoding", x>> \in VmessBase(link, q, aid, scy) <=>
           x \in Values(q, {"packetEncoding"})
BY VmessBaseHas

\* Each option of a VMess link in the form of a URI changes the outbound.
LEMMA VmessUriTells ==
  ASSUME NEW link, NEW less, less.host = link.host, NEW q, VmessUriOk(link, q),
         NEW n \in DOMAIN q, Alone(q, n),
         Says(q, n, q[n], "none", link.host), n = "aid" => q[n] # "0",
         n \in {"scy", "encryption"} => q[n] # "auto"
  PROVE  VmessUri(link, q) # VmessUri(less, But(q, n))
<1> DEFINE p == But(q, n)
           A == VmessBase(link, q, Get(q, {"aid"}, "0"), Get(q, {"scy", "encryption"}, "auto"))
           B == VmessBase(less, p, Get(p, {"aid"}, "0"), Get(p, {"scy", "encryption"}, "auto"))
<1>1. /\ VmessUri(link, q) = A \cup Stream(q, Get(q, {"security"}, "none"), Net(q), link.host)
      /\ VmessUri(less, p) = B \cup Stream(p, Get(p, {"security"}, "none"), Net(p), link.host)
  BY DEF VmessUri, VmessOut, VmessBase
<1>2. /\ Agree(q, {"type", "net"}) /\ StreamOk(q, Get(q, {"security"}, "none"), Net(q))
      /\ n \in CommonQuery \cup {"aid", "scy", "encryption"} /\ Agree(q, {"scy", "encryption"})
  BY DEF VmessUriOk, VmessOutOk, Known
<1>3. OfBase(B)
  BY VmessBaseFields
<1>4. CASE n \in StreamNames \cup {"type", "net", "security"}
  <2> HIDE DEF p, A, B
  <2> QED
    BY <1>1, <1>2, <1>3, <1>4, UriOutTells DEF p
<1>5. CASE n \in {"aid", "scy", "encryption", "packetEncoding"}
  <2>1. n \notin {"type", "net"}
    BY <1>5
  <2>2. CASE n = "aid"
    <3>1. \A d : Get(q, {"aid"}, d) = q[n] /\ Get(p, {"aid"}, d) = d
      BY <2>2, FieldGoes
    <3>2. Get(q, {"aid"}, "0") = q[n] /\ Get(p, {"aid"}, "0") = "0" /\ q[n] # "0"
      BY <2>2, <3>1
    <3>3. <<"alterId", q[n]>> \in A /\ <<"alterId", q[n]>> \notin B
      BY <3>2, AlterIdIs
    <3>4. "alterId" \in BaseOuts
      BY DEF BaseOuts
    <3> HIDE DEF p, A, B
    <3> QED
      BY <1>1, <1>2, <2>1, <3>3, <3>4, UriBaseTells DEF p
  <2>3. CASE n \in {"scy", "encryption"}
    <3>0. {"scy", "encryption"} \in Aliases
      BY DEF Aliases
    <3>1. Gone(q, p, {"scy", "encryption"}, q[n])
      BY <1>2, <2>3, <3>0, AloneGoes
    <3>2. \A d : Get(q, {"scy", "encryption"}, d) = q[n] /\ Get(p, {"scy", "encryption"}, d) = d
      BY <3>1, GoneMeans
    <3>3. /\ Get(q, {"scy", "encryption"}, "auto") = q[n]
          /\ Get(p, {"scy", "encryption"}, "auto") = "auto"
          /\ q[n] # "auto"
      BY <2>3, <3>2
    <3>4. <<"cipher", q[n]>> \in A /\ <<"cipher", q[n]>> \notin B
      BY <3>3, CipherIs
    <3>5. "cipher" \in BaseOuts
      BY DEF BaseOuts
    <3> HIDE DEF p, A, B
    <3> QED
      BY <1>1, <1>2, <2>1, <3>4, <3>5, UriBaseTells DEF p
  <2>4. CASE n = "packetEncoding"
    <3>1. q[n] \in Values(q, {"packetEncoding"}) /\ q[n] \notin Values(p, {"packetEncoding"})
      BY <2>4, FieldGoes
    <3>2. <<"packetEncoding", q[n]>> \in A /\ <<"packetEncoding", q[n]>> \notin B
      BY <3>1, PacketIs
    <3>3. "packetEncoding" \in BaseOuts
      BY DEF BaseOuts
    <3> HIDE DEF p, A, B
    <3> QED
      BY <1>1, <1>2, <2>1, <3>2, <3>3, UriBaseTells DEF p
  <2> QED
    BY <1>5, <2>2, <2>3, <2>4
<1> QED
  BY <1>2, <1>4, <1>5, CommonNames

LegacyKept == {"sni", "fp", "alpn", "pbk", "sid", "spx", "path"}
\* Where the options that a VMess object stands for come from.
LEMMA LegacySourceIs ==
  /\ DOMAIN LegacySource(TRUE) = LegacyKept \cup {"authority", "mode", "serviceName"}
  /\ DOMAIN LegacySource(FALSE) = LegacyKept \cup {"host", "headerType"}
  /\ \A g \in BOOLEAN : \A n \in LegacyKept : LegacySource(g)[n] = n
  /\ LegacySource(TRUE)["authority"] = "host" /\ LegacySource(TRUE)["mode"] = "type"
  /\ LegacySource(TRUE)["serviceName"] = "path"
  /\ LegacySource(FALSE)["host"] = "host" /\ LegacySource(FALSE)["headerType"] = "type"
BY DEF LegacySource, LegacyKept

\* Options are read by their values.
LEMMA SameValues ==
  ASSUME NEW p, NEW q, NEW names, Values(p, names) = Values(q, names)
  PROVE  \A d : Get(p, names, d) = Get(q, names, d)
<1>1. \A V, W : V = W => (CHOOSE v \in V : TRUE) = (CHOOSE v \in W : TRUE)
  OBVIOUS
<1> QED
  BY <1>1 DEF Get

\* What a VMess object has where a URI has an option.
LEMMA LegacyQueryIs ==
  ASSUME NEW v, NEW k
  PROVE  LET q == LegacyQuery(v)
             source == LegacySource(LegacyNet(v) = "grpc")
         IN /\ Given(q, k) <=> /\ k \in DOMAIN source /\ Given(v, source[k])
                               /\ <<k, v[source[k]]>> # <<"mode", "none">>
            /\ Given(q, k) => q[k] = v[source[k]]
BY DEF LegacyQuery, Given

LEMMA LegacyNetStays ==
  ASSUME NEW v, NEW n, n # "net"
  PROVE  LegacyNet(But(v, n)) = LegacyNet(v)
<1>1. n \notin {"net"}
  OBVIOUS
<1>2. \A d : Get(But(v, n), {"net"}, d) = Get(v, {"net"}, d)
  BY <1>1, GetStays
<1> QED
  BY <1>2 DEF LegacyNet

\* A member of the object leaves the options with each name that stands for it.
LEMMA LegacyValues ==
  ASSUME NEW v, NEW n, n # "net", Given(v, n), NEW m, NEW names, m \in names,
         LET source == LegacySource(LegacyNet(v) = "grpc")
         IN /\ m \in DOMAIN source /\ source[m] = n /\ <<m, v[n]>> # <<"mode", "none">>
            /\ \A k \in names \cap DOMAIN source : source[k] = n
  PROVE  Gone(LegacyQuery(v), LegacyQuery(But(v, n)), names, v[n])
<1> DEFINE source == LegacySource(LegacyNet(v) = "grpc")
           p == But(v, n)
           q == LegacyQuery(v)
           less == LegacyQuery(p)
<1>1. source = LegacySource(LegacyNet(p) = "grpc")
  BY LegacyNetStays
<1>2. m \in DOMAIN source /\ source[m] = n /\ <<m, v[n]>> # <<"mode", "none">>
  OBVIOUS
<1>3. \A k \in names \cap DOMAIN source : source[k] = n
  OBVIOUS
<1> HIDE DEF source
<1>4. \A k : /\ Given(q, k) <=> /\ k \in DOMAIN source /\ Given(v, source[k])
                                 /\ <<k, v[source[k]]>> # <<"mode", "none">>
             /\ Given(q, k) => q[k] = v[source[k]]
  BY LegacyQueryIs DEF source
<1>5. \A k : Given(less, k) => k \in DOMAIN source /\ Given(p, source[k])
  BY <1>1, LegacyQueryIs
<1>6. ~Given(p, n)
  BY DEF Given, But
<1> HIDE DEF q, less, p
<1>7. Given(q, m) /\ q[m] = v[n]
  BY <1>2, <1>4
<1>8. \A k \in names : Given(q, k) => q[k] = v[n]
  BY <1>3, <1>4
<1>9. \A k \in names : ~Given(less, k)
  BY <1>3, <1>5, <1>6
<1> QED
  BY <1>7, <1>8, <1>9 DEF Gone, Values, q, less, p

\* The names that v2rayN does not write.
SecondNames == {"peer", "fingerprint", "publicKey", "shortId", "spiderX", "tfo", "fastopen"}

\* An object has one name for each option but the path of gRPC.
LEMMA PairsAre ==
  ASSUME NEW names \in StreamPairs, NEW k \in names, NEW m \in names,
         k \notin SecondNames, m \notin SecondNames
  PROVE  k = m \/ (k \in {"path", "serviceName"} /\ m \in {"path", "serviceName"})
BY DEF StreamPairs, Two, SecondNames

LEMMA LegacyLeaves ==
  ASSUME NEW v, NEW n, n # "net", Given(v, n), NEW m,
         LET source == LegacySource(LegacyNet(v) = "grpc")
         IN m \in DOMAIN source /\ source[m] = n /\ <<m, v[n]>> # <<"mode", "none">>
  PROVE  Leaves(LegacyQuery(v), LegacyQuery(But(v, n)), m, v[n])
<1> DEFINE source == LegacySource(LegacyNet(v) = "grpc")
           p == But(v, n)
           q == LegacyQuery(v)
           less == LegacyQuery(p)
<1>0. m \in DOMAIN source /\ source[m] = n /\ <<m, v[n]>> # <<"mode", "none">>
  OBVIOUS
<1>1. Given(q, m) /\ q[m] = v[n]
  BY <1>0, LegacyQueryIs
<1>2. Gone(q, less, {m}, v[n])
  <2>1. \A k \in {m} \cap DOMAIN source : source[k] = n
    BY <1>0
  <2> QED
    BY <1>0, <2>1, LegacyValues
<1>3. ASSUME NEW names \in StreamPairs, m \in names PROVE Gone(q, less, names, v[n])
  <2>1. \A k \in names \cap DOMAIN source : source[k] = n
    <3>1. CASE LegacyNet(v) = "grpc"
      <4>1. source = LegacySource(TRUE)
        BY <3>1
      <4> SUFFICES ASSUME NEW k \in names, k \in DOMAIN source PROVE source[k] = n
        OBVIOUS
      <4>2. k \notin SecondNames /\ m \notin SecondNames
        BY <1>0, <4>1, LegacySourceIs DEF SecondNames, LegacyKept
      <4>3. k = m \/ (k \in {"path", "serviceName"} /\ m \in {"path", "serviceName"})
        BY <1>3, <4>2, PairsAre
      <4>4. \A l \in {"path", "serviceName"} : l \in DOMAIN source => source[l] = "path"
        BY <4>1, LegacySourceIs DEF LegacyKept
      <4> QED
        BY <1>0, <4>3, <4>4
    <3>2. CASE LegacyNet(v) # "grpc"
      <4>1. source = LegacySource(FALSE)
        BY <3>2
      <4> SUFFICES ASSUME NEW k \in names, k \in DOMAIN source PROVE source[k] = n
        OBVIOUS
      <4>2. k \notin SecondNames /\ m \notin SecondNames
        BY <1>0, <4>1, LegacySourceIs DEF SecondNames, LegacyKept
      <4>3. k = m \/ (k \in {"path", "serviceName"} /\ m \in {"path", "serviceName"})
        BY <1>3, <4>2, PairsAre
      <4>4. \A l \in {"path", "serviceName"} : l \in DOMAIN source => source[l] = "path"
        BY <4>1, LegacySourceIs DEF LegacyKept
      <4> QED
        BY <1>0, <4>3, <4>4
    <3> QED
      BY <3>1, <3>2
  <2> QED
    BY <1>0, <1>3, <2>1, LegacyValues
<1>4. m # "headerType" => HeaderType(less) = HeaderType(q)
  <2> SUFFICES ASSUME m # "headerType" PROVE HeaderType(less) = HeaderType(q)
    OBVIOUS
  <2>1. "headerType" \in DOMAIN source => source["headerType"] # n
    <3>1. CASE LegacyNet(v) = "grpc"
      <4>1. source = LegacySource(TRUE)
        BY <3>1
      <4> QED
        BY <4>1, LegacySourceIs DEF LegacyKept
    <3>2. CASE LegacyNet(v) # "grpc"
      <4>1. source = LegacySource(FALSE)
        BY <3>2
      <4> QED
        BY <1>0, <4>1, LegacySourceIs DEF LegacyKept
    <3> QED
      BY <3>1, <3>2
  <2>2. source = LegacySource(LegacyNet(p) = "grpc")
    BY LegacyNetStays
  <2>3. \A k : k # n => (Given(p, k) <=> Given(v, k)) /\ (Given(v, k) => p[k] = v[k])
    BY DEF Given, But
  <2> HIDE DEF source, p
  <2>4. /\ Given(q, "headerType") <=> Given(less, "headerType")
        /\ Given(q, "headerType") => q["headerType"] = less["headerType"]
    BY <2>1, <2>2, <2>3, LegacyQueryIs DEF source
  <2> HIDE DEF q, less
  <2>5. Values(q, {"headerType"}) = Values(less, {"headerType"})
    BY <2>4 DEF Values
  <2>6. \A d : Get(q, {"headerType"}, d) = Get(less, {"headerType"}, d)
    BY <2>5, SameValues
  <2> QED
    BY <2>6 DEF HeaderType
<1> QED
  BY <1>1, <1>2, <1>3, <1>4 DEF Leaves

\* What the member n of a VMess object says is not the default.
LegacySays(v, n, x, host) ==
    LET net == LegacyNet(v)
    IN /\ Differs(n, x, LegacySecurity(v), net, host)
       /\ n = "net" => x # "tcp"
       /\ n = "tls" => LegacySecurity(v) # "none"
       /\ n = "type" => x # "none"
       /\ n = "aid" => x # "0"
       /\ n = "scy" => x # "auto"

LEMMA JsonSays ==
  ASSUME NEW link, link.form = "json", link.scheme = "vmess", NEW n, NEW x,
         ~SaysDefault(link, <<n, x>>), ~KnownDrop(link, <<n, x>>)
  PROVE  /\ x # "" /\ n # "other"
         /\ LegacySays(Query(link.query), n, x, link.host)
<1> DEFINE v == Query(link.query)
<1>1. LayersOf(link) = [net |-> LegacyNet(v), security |-> LegacySecurity(v)]
  BY DEF LayersOf
<1>2. LayersOf(link).net = LegacyNet(v) /\ LayersOf(link).security = LegacySecurity(v)
  BY <1>1
<1>3. /\ x # "" /\ (n = "headerType" => x # "none") /\ (n \in {"sni", "peer"} => x # link.host)
      /\ n \in {"spx", "spiderX"} => x # "/"
      /\ n = "net" => x # "tcp"
      /\ n = "type" => x # "none"
      /\ n = "aid" => x # "0"
      /\ n \in {"tfo", "fastopen", "allowInsecure", "insecure"} => x \notin False
  BY DEF SaysDefault, Booleans, Insecure
<1>4. n = "scy" => x # "auto"
  BY DEF SaysDefault
<1>5. n \in {"fp", "fingerprint"} /\ LegacySecurity(v) = "reality" => x # "chrome"
  BY <1>2 DEF SaysDefault
<1>6. /\ n = "path" /\ LegacyNet(v) # "grpc" => x # "/"
      /\ n = "host" /\ LegacyNet(v) = "tcp" => x # link.host
  BY <1>2 DEF SaysDefault
<1>7. n # "other" /\ (n = "tls" => LegacySecurity(v) # "none")
  BY <1>2 DEF KnownDrop
<1> QED
  BY <1>3, <1>4, <1>5, <1>6, <1>7 DEF LegacySays, Differs

\* The option that a member becomes.
Becomes(v, n) == CASE n = "host" -> IF LegacyNet(v) = "grpc" THEN "authority" ELSE "host"
                   [] n = "type" -> IF LegacyNet(v) = "grpc" THEN "mode" ELSE "headerType"
                   [] OTHER -> n

LEMMA BecomesIs ==
  ASSUME NEW v, NEW n \in LegacyKept \cup {"host", "type"}
  PROVE  LET source == LegacySource(LegacyNet(v) = "grpc")
         IN /\ Becomes(v, n) \in DOMAIN source /\ source[Becomes(v, n)] = n
            /\ Becomes(v, n) \in StreamNames
<1> DEFINE source == LegacySource(LegacyNet(v) = "grpc")
<1>1. LegacyKept \cup {"authority", "host", "mode", "headerType"} \subseteq StreamNames
  BY LayerNames, TransportsAre
     DEF LegacyKept, StreamNames, SecurityNames, TransportNames, GrpcFields
<1>2. CASE LegacyNet(v) = "grpc"
  <2>1. source = LegacySource(TRUE)
    BY <1>2
  <2> QED
    BY <1>1, <1>2, <2>1, LegacySourceIs DEF Becomes, LegacyKept
<1>3. CASE LegacyNet(v) # "grpc"
  <2>1. source = LegacySource(FALSE)
    BY <1>3
  <2> QED
    BY <1>1, <1>3, <2>1, LegacySourceIs DEF Becomes, LegacyKept
<1> QED
  BY <1>2, <1>3

LEMMA LegacySecurityStays ==
  ASSUME NEW v, NEW n, n # "tls"
  PROVE  LegacySecurity(But(v, n)) = LegacySecurity(v)
<1>1. n \notin {"tls"}
  OBVIOUS
<1>2. \A d : Get(But(v, n), {"tls"}, d) = Get(v, {"tls"}, d)
  BY <1>1, GetStays
<1> QED
  BY <1>2 DEF LegacySecurity

\* Each member of a VMess object but those that nothing reads changes the outbound:
\* parse_vmess.
LEMMA VmessJsonTells ==
  ASSUME NEW link, NEW less, less.host = link.host, NEW v, VmessJsonOk(link, v),
         NEW n \in LegacyMembers, n # "other", Alone(v, n), LegacySays(v, n, v[n], link.host)
  PROVE  VmessJson(link, v) # VmessJson(less, But(v, n))
<1> DEFINE p == But(v, n)
           A == VmessBase(link, LegacyQuery(v), Get(v, {"aid"}, "0"), Get(v, {"scy"}, "auto"))
           B == VmessBase(less, LegacyQuery(p), Get(p, {"aid"}, "0"), Get(p, {"scy"}, "auto"))
           S == Stream(LegacyQuery(v), LegacySecurity(v), LegacyNet(v), link.host)
           T == Stream(LegacyQuery(p), LegacySecurity(p), LegacyNet(p), link.host)
<1>1. VmessJson(link, v) = A \cup S /\ VmessJson(less, p) = B \cup T
  BY DEF VmessJson, VmessOut, VmessBase
<1>2. StreamOk(LegacyQuery(v), LegacySecurity(v), LegacyNet(v))
  BY DEF VmessJsonOk, VmessOutOk
<1>3. LegacyNet(v) \in DOMAIN TransportFields /\ "tcp" \in DOMAIN TransportFields
  BY <1>2, TransportsAre DEF StreamOk
<1>4. OfBase(B)
  BY VmessBaseFields
<1>5. n # "net" => LegacyNet(p) = LegacyNet(v)
  BY LegacyNetStays
<1>6. n # "tls" => LegacySecurity(p) = LegacySecurity(v)
  BY LegacySecurityStays
<1>7. Given(v, n)
  BY DEF Alone
<1>8. \A d : Get(v, {n}, d) = v[n] /\ Get(p, {n}, d) = d
  BY FieldGoes
<1>9. Tells(S, T, StreamOuts) => A \cup S # B \cup T
  <2> HIDE DEF A, B, S, T
  <2> QED
    BY <1>4, StreamShows
<1> HIDE DEF p
<1>10. CASE n = "net"
  <2>1. LegacyNet(v) = v[n] /\ LegacyNet(p) = "tcp"
    BY <1>8, <1>10 DEF LegacyNet
  <2>2. v[n] # "tcp"
    BY <1>10 DEF LegacySays
  <2>3. Tells(S, T, StreamOuts)
    BY <1>3, <2>1, <2>2, LayersTell
  <2> HIDE DEF A, B, S, T
  <2> QED
    BY <1>1, <1>9, <2>3 DEF p
<1>11. CASE n = "tls"
  <2>1. LegacySecurity(v) # "none"
    BY <1>11 DEF LegacySays
  <2>2. Get(p, {"tls"}, "none") = "none"
    BY <1>8, <1>11
  <2>3. LegacySecurity(p) = "none"
    BY <2>2 DEF LegacySecurity
  <2>4. LegacyNet(p) \in DOMAIN TransportFields
    BY <1>3, <1>5, <1>11
  <2>5. Tells(S, T, StreamOuts)
    BY <1>3, <2>1, <2>3, <2>4, LayersTell
  <2> HIDE DEF A, B, S, T
  <2> QED
    BY <1>1, <1>9, <2>5 DEF p
<1>12. CASE n \in LegacyKept \cup {"host", "type"}
  <2> DEFINE m == Becomes(v, n)
  <2>1. n # "net" /\ n # "tls"
    BY <1>12 DEF LegacyKept
  <2>2. LET source == LegacySource(LegacyNet(v) = "grpc")
        IN m \in DOMAIN source /\ source[m] = n /\ m \in StreamNames
    BY <1>12, BecomesIs
  <2>3. <<m, v[n]>> # <<"mode", "none">>
    BY <1>12 DEF LegacySays, Becomes, LegacyKept
  <2>4. Differs(m, v[n], LegacySecurity(v), LegacyNet(v), link.host)
    <3>1. CASE m = n
      BY <3>1 DEF LegacySays
    <3>2. CASE m # n
      <4>1. m \in {"authority", "mode"} \/ (m = "headerType" /\ n = "type")
        BY <3>2 DEF Becomes
      <4> HIDE DEF m
      <4> QED
        BY <4>1 DEF Differs, LegacySays
    <3> QED
      BY <3>1, <3>2
  <2> HIDE DEF m
  <2>5. Leaves(LegacyQuery(v), LegacyQuery(p), m, v[n])
    BY <1>7, <2>1, <2>2, <2>3, LegacyLeaves DEF p
  <2>6. Tells(S, Stream(LegacyQuery(p), LegacySecurity(v), LegacyNet(v), link.host), StreamOuts)
    BY <1>2, <2>2, <2>4, <2>5, StreamTells
  <2>7. Tells(S, T, StreamOuts)
    BY <1>5, <1>6, <2>1, <2>6
  <2> HIDE DEF A, B, S, T
  <2> QED
    BY <1>1, <1>9, <2>7 DEF p
<1>13. CASE n \in {"aid", "scy"}
  <2>1. LegacyNet(p) \in DOMAIN TransportFields
    BY <1>3, <1>5, <1>13
  <2>2. ASSUME n = "aid" PROVE <<"alterId", v[n]>> \in A /\ <<"alterId", v[n]>> \notin B
    <3>1. \A d : Get(v, {"aid"}, d) = v[n] /\ Get(p, {"aid"}, d) = d
      BY <1>8, <2>2
    <3>2. Get(v, {"aid"}, "0") = v[n] /\ Get(p, {"aid"}, "0") = "0" /\ v[n] # "0"
      BY <2>2, <3>1 DEF LegacySays
    <3> QED
      BY <3>2, AlterIdIs
  <2>3. ASSUME n = "scy" PROVE <<"cipher", v[n]>> \in A /\ <<"cipher", v[n]>> \notin B
    <3>1. \A d : Get(v, {"scy"}, d) = v[n] /\ Get(p, {"scy"}, d) = d
      BY <1>8, <2>3
    <3>2. Get(v, {"scy"}, "auto") = v[n] /\ Get(p, {"scy"}, "auto") = "auto" /\ v[n] # "auto"
      BY <2>3, <3>1 DEF LegacySays
    <3> QED
      BY <3>2, CipherIs
  <2>4. "alterId" \in BaseOuts /\ "cipher" \in BaseOuts
    BY DEF BaseOuts
  <2>5. PICK f \in BaseOuts : <<f, v[n]>> \in A /\ <<f, v[n]>> \notin B
    BY <1>13, <2>2, <2>3, <2>4
  <2> HIDE DEF A, B
  <2>6. A \cup S # B \cup T
    BY <2>1, <2>5, BaseShows
  <2> QED
    BY <1>1, <2>6 DEF p
<1> QED
  BY <1>10, <1>11, <1>12, <1>13 DEF LegacyMembers, LegacyKept

\* A switch that is given and not off is on.
LEMMA SwitchGoes ==
  ASSUME NEW q, NEW less, NEW names, NEW x, Gone(q, less, names, x), IsBool(q, names),
         x \notin False
  PROVE  Yes(q, names) /\ ~Yes(less, names)
<1>1. x \in Values(q, names)
  BY DEF Gone
<1>2. x \in True
  BY <1>1 DEF IsBool
<1> QED
  BY <1>1, <1>2 DEF Yes, Gone

LEMMA AloneFlag ==
  ASSUME NEW q, NEW n, Alone(q, n), IsBool(q, {n}), q[n] \notin False
  PROVE  Yes(q, {n}) /\ ~Yes(But(q, n), {n})
<1>1. Gone(q, But(q, n), {n}, q[n])
  BY OneValueGoes DEF Alone
<1> QED
  BY <1>1, SwitchGoes

LEMMA AliasFlag ==
  ASSUME NEW q, NEW n, Alone(q, n), NEW names \in Aliases, n \in names, IsBool(q, names),
         q[n] \notin False
  PROVE  Yes(q, names) /\ ~Yes(But(q, n), names)
<1>1. Gone(q, But(q, n), names, q[n])
  BY AloneGoes DEF IsBool
<1> QED
  BY <1>1, SwitchGoes

\* Shadowsocks.
LEMMA SsHas ==
  ASSUME NEW link, NEW q
  PROVE  /\ <<"uot", "true">> \in XraySs(link, q) <=> Yes(q, {"uot"})
         /\ <<"uot", "true">> \in SingboxSs(link, q) <=> Yes(q, {"uot"})
         /\ <<"tcpFastOpen", "true">> \in XraySs(link, q) <=> Yes(q, {"tfo", "fastopen"})
         /\ <<"tcpFastOpen", "true">> \in SingboxSs(link, q) <=> Yes(q, {"tfo", "fastopen"})
BY DEF XraySs, SingboxSs, Credentials, Server, SsSwitches, Switch

LEMMA PluginNamed ==
  ASSUME NEW link, NEW q, NEW x
  PROVE  <<"plugin", x>> \in SingboxSs(link, q) <=>
           PluginOf(q).name # "" /\ x = Alias(PluginOf(q).name)
BY DEF SingboxSs, Credentials, Server, SsSwitches, Switch

\* Each option of a Shadowsocks link changes the outbound of its core.
LEMMA SsTells ==
  ASSUME NEW link, NEW less, NEW q, NEW n \in {"uot", "tfo", "fastopen"}, Alone(q, n),
         q[n] \notin False, IsBool(q, {"uot"}), IsBool(q, {"tfo", "fastopen"})
  PROVE  /\ XraySs(link, q) # XraySs(less, But(q, n))
         /\ SingboxSs(link, q) # SingboxSs(less, But(q, n))
<1>1. CASE n = "uot"
  <2>1. Yes(q, {"uot"}) /\ ~Yes(But(q, n), {"uot"})
    BY <1>1, AloneFlag
  <2> QED
    BY <2>1, SsHas
<1>2. CASE n \in {"tfo", "fastopen"}
  <2>1. {"tfo", "fastopen"} \in Aliases
    BY DEF Aliases
  <2>2. Yes(q, {"tfo", "fastopen"}) /\ ~Yes(But(q, n), {"tfo", "fastopen"})
    BY <1>2, <2>1, AliasFlag
  <2> QED
    BY <2>2, SsHas
<1> QED
  BY <1>1, <1>2

LEMMA XraySsTells ==
  ASSUME NEW link, NEW less, NEW q, XraySsOk(link, q), NEW n \in DOMAIN q, Alone(q, n),
         n = "plugin" => Plugin[q[n]].name # "",
         n \in {"uot", "tfo", "fastopen"} => q[n] \notin False
  PROVE  XraySs(link, q) # XraySs(less, But(q, n))
<1>1. n # "plugin"
  BY DEF XraySsOk, PluginOf, Alone
<1>2. n \in {"uot", "tfo", "fastopen"}
  BY <1>1 DEF XraySsOk, Known, SsQuery
<1> QED
  BY <1>2, SsTells DEF XraySsOk

LEMMA SingboxSsTells ==
  ASSUME NEW link, NEW less, NEW q, SingboxSsOk(link, q), NEW n \in DOMAIN q, Alone(q, n),
         n = "plugin" => Plugin[q[n]].name # "",
         n \in {"uot", "tfo", "fastopen"} => q[n] \notin False
  PROVE  SingboxSs(link, q) # SingboxSs(less, But(q, n))
<1>1. CASE n = "plugin"
  <2>1. PluginOf(q).name # "" /\ PluginOf(But(q, n)).name = ""
    BY <1>1 DEF PluginOf, Alone, But, Given, NoPlugin
  <2>2. <<"plugin", Alias(PluginOf(q).name)>> \in SingboxSs(link, q)
    BY <2>1, PluginNamed
  <2>3. <<"plugin", Alias(PluginOf(q).name)>> \notin SingboxSs(less, But(q, n))
    BY <2>1, PluginNamed
  <2> QED
    BY <2>2, <2>3
<1>2. CASE n # "plugin"
  <2>1. n \in {"uot", "tfo", "fastopen"}
    BY <1>2 DEF SingboxSsOk, Known, SsQuery
  <2> QED
    BY <2>1, SsTells DEF SingboxSsOk
<1> QED
  BY <1>1, <1>2

\* What an option of QUIC says is neither the default nor known to be dropped.
QuicSays(n, x, host) ==
    /\ n \in {"sni", "peer"} => x # host
    /\ n = "alpn" => x # "h3"
    /\ n \notin TfoQuery \cup {"fp", "fingerprint"}
    /\ n = "obfs" => x # "none"
    /\ n \in Booleans => x \notin False

Rates == {"upmbps", "downmbps"}
TuicOptions == {"udp_relay_mode", "heartbeat", "network"}

\* The fields of a Hysteria2 outbound.
LEMMA ServerNamed ==
  ASSUME NEW link, NEW q, NEW x
  PROVE  <<"server_name", x>> \in Hysteria2(link, q) <=> x = Get(q, Two("sni", "peer"), link.host)
<1>1. \A f : <<f, x>> \in Fields(q, Rates) => f \in Rates
  BY FieldsAre
<1>2. <<"server_name", x>> \notin Fields(q, Rates)
  BY <1>1 DEF Rates
<1> QED
  BY <1>2 DEF Rates, Hysteria2, QuicTls, Field, Two

LEMMA AlpnNamed ==
  ASSUME NEW link, NEW q, NEW x
  PROVE  <<"alpn", x>> \in Hysteria2(link, q) <=> x = Get(q, {"alpn"}, "h3")
<1>1. \A f : <<f, x>> \in Fields(q, Rates) => f \in Rates
  BY FieldsAre
<1>2. <<"alpn", x>> \notin Fields(q, Rates)
  BY <1>1 DEF Rates
<1> QED
  BY <1>2 DEF Rates, Hysteria2, QuicTls, Field, Two

LEMMA PortsNamed ==
  ASSUME NEW link, NEW q, NEW x
  PROVE  <<"server_ports", x>> \in Hysteria2(link, q) <=> x = HopPorts(link, q)
<1>1. \A f : <<f, x>> \in Fields(q, Rates) => f \in Rates
  BY FieldsAre
<1>2. <<"server_ports", x>> \notin Fields(q, Rates)
  BY <1>1 DEF Rates
<1> QED
  BY <1>2 DEF Rates, Hysteria2, QuicTls, Field, Two

LEMMA ObfsNamed ==
  ASSUME NEW link, NEW q, NEW x
  PROVE  <<"obfs", x>> \in Hysteria2(link, q) <=> x = Obfs(q)
<1>1. \A f : <<f, x>> \in Fields(q, Rates) => f \in Rates
  BY FieldsAre
<1>2. <<"obfs", x>> \notin Fields(q, Rates)
  BY <1>1 DEF Rates
<1> QED
  BY <1>2 DEF Rates, Hysteria2, QuicTls, Field, Two

LEMMA IntervalNamed ==
  ASSUME NEW link, NEW q, NEW x
  PROVE  <<"hop_interval", x>> \in Hysteria2(link, q) <=> x \in Values(q, HopInterval)
<1>1. \A f : <<f, x>> \in Fields(q, Rates) => f \in Rates
  BY FieldsAre
<1>2. <<"hop_interval", x>> \notin Fields(q, Rates)
  BY <1>1 DEF Rates
<1> QED
  BY <1>2 DEF Rates, Hysteria2, QuicTls, Field, Two

LEMMA WordNamed ==
  ASSUME NEW link, NEW q, NEW x
  PROVE  <<"obfs_password", x>> \in Hysteria2(link, q) <=> x \in Values(q, ObfsPassword)
<1>1. \A f : <<f, x>> \in Fields(q, Rates) => f \in Rates
  BY FieldsAre
<1>2. <<"obfs_password", x>> \notin Fields(q, Rates)
  BY <1>1 DEF Rates
<1> QED
  BY <1>2 DEF Rates, Hysteria2, QuicTls, Field, Two

LEMMA RateNamed ==
  ASSUME NEW link, NEW q, NEW x, NEW f \in Rates
  PROVE  <<f, x>> \in Hysteria2(link, q) <=> x \in Values(q, {f})
<1> DEFINE rates == Fields(q, Rates)
<1>1. \A g : <<g, x>> \in rates <=> g \in Rates /\ x \in Values(q, {g})
  BY FieldsAre DEF One
<1>2. <<f, x>> \in rates <=> x \in Values(q, {f})
  BY <1>1
<1> HIDE DEF rates
<1>3. <<f, x>> \in Hysteria2(link, q) <=> <<f, x>> \in rates
  BY DEF Rates, Hysteria2, QuicTls, Field, rates
<1> QED
  BY <1>2, <1>3

\* The fields of a TUIC outbound.
LEMMA TuicServerNamed ==
  ASSUME NEW link, NEW q, NEW x
  PROVE  <<"server_name", x>> \in Tuic(link, q) <=> x = Get(q, Two("sni", "peer"), link.host)
<1>1. \A f : <<f, x>> \in Fields(q, TuicOptions) => f \in TuicOptions
  BY FieldsAre
<1>2. <<"server_name", x>> \notin Fields(q, TuicOptions)
  BY <1>1 DEF TuicOptions
<1> QED
  BY <1>2 DEF TuicOptions, Tuic, QuicTls, Field, Two, Server, Switch

LEMMA TuicAlpnNamed ==
  ASSUME NEW link, NEW q, NEW x
  PROVE  <<"alpn", x>> \in Tuic(link, q) <=> x = Get(q, {"alpn"}, "h3")
<1>1. \A f : <<f, x>> \in Fields(q, TuicOptions) => f \in TuicOptions
  BY FieldsAre
<1>2. <<"alpn", x>> \notin Fields(q, TuicOptions)
  BY <1>1 DEF TuicOptions
<1> QED
  BY <1>2 DEF TuicOptions, Tuic, QuicTls, Field, Two, Server, Switch

LEMMA CongestionNamed ==
  ASSUME NEW link, NEW q, NEW x
  PROVE  <<"congestion_control", x>> \in Tuic(link, q) <=>
           x \in Values(q, Two("congestion_control", "congestion"))
<1>1. \A f : <<f, x>> \in Fields(q, TuicOptions) => f \in TuicOptions
  BY FieldsAre
<1>2. <<"congestion_control", x>> \notin Fields(q, TuicOptions)
  BY <1>1 DEF TuicOptions
<1> QED
  BY <1>2 DEF TuicOptions, Tuic, QuicTls, Field, Two, Server, Switch

LEMMA DisableNamed ==
  ASSUME NEW link, NEW q
  PROVE  <<"disable_sni", "true">> \in Tuic(link, q) <=> Yes(q, {"disable_sni"})
<1>1. \A f : <<f, "true">> \in Fields(q, TuicOptions) => f \in TuicOptions
  BY FieldsAre
<1>2. <<"disable_sni", "true">> \notin Fields(q, TuicOptions)
  BY <1>1 DEF TuicOptions
<1> QED
  BY <1>2 DEF TuicOptions, Tuic, QuicTls, Field, Server, Switch

LEMMA OverStreamNamed ==
  ASSUME NEW link, NEW q
  PROVE  <<"udp_over_stream", "true">> \in Tuic(link, q) <=> Yes(q, {"udp_over_stream"})
<1>1. \A f : <<f, "true">> \in Fields(q, TuicOptions) => f \in TuicOptions
  BY FieldsAre
<1>2. <<"udp_over_stream", "true">> \notin Fields(q, TuicOptions)
  BY <1>1 DEF TuicOptions
<1> QED
  BY <1>2 DEF TuicOptions, Tuic, QuicTls, Field, Server, Switch

LEMMA ZeroNamed ==
  ASSUME NEW link, NEW q
  PROVE  <<"zero_rtt_handshake", "true">> \in Tuic(link, q) <=>
           Yes(q, {"zero_rtt_handshake", "reduce_rtt"})
<1>1. \A f : <<f, "true">> \in Fields(q, TuicOptions) => f \in TuicOptions
  BY FieldsAre
<1>2. <<"zero_rtt_handshake", "true">> \notin Fields(q, TuicOptions)
  BY <1>1 DEF TuicOptions
<1> QED
  BY <1>2 DEF TuicOptions, Tuic, QuicTls, Field, Server, Switch

LEMMA TuicOptionNamed ==
  ASSUME NEW link, NEW q, NEW x, NEW f \in TuicOptions
  PROVE  <<f, x>> \in Tuic(link, q) <=> x \in Values(q, {f})
<1> DEFINE more == Fields(q, TuicOptions)
<1>1. \A g : <<g, x>> \in more <=> g \in TuicOptions /\ x \in Values(q, {g})
  BY FieldsAre DEF One
<1>2. <<f, x>> \in more <=> x \in Values(q, {f})
  BY <1>1
<1> HIDE DEF more
<1>3. <<f, x>> \in Tuic(link, q) <=> <<f, x>> \in more
  BY DEF TuicOptions, Tuic, QuicTls, Field, Server, Switch, more
<1> QED
  BY <1>2, <1>3

\* An option of two names and what stands without it.
LEMMA PairGoes ==
  ASSUME NEW q, NEW n, Alone(q, n), NEW names \in Aliases, n \in names, Agree(q, names)
  PROVE  /\ q[n] \in Values(q, names) /\ Values(But(q, n), names) = {}
         /\ \A d : Get(q, names, d) = q[n] /\ Get(But(q, n), names, d) = d
<1>1. Gone(q, But(q, n), names, q[n])
  BY AloneGoes
<1>2. \A d : Get(q, names, d) = q[n] /\ Get(But(q, n), names, d) = d
  BY <1>1, GoneMeans
<1> QED
  BY <1>1, <1>2 DEF Gone

\* The name of the server and the protocols that TLS offers show in the outbound.
LEMMA QuicTlsTells ==
  ASSUME NEW link, NEW less, less.host = link.host, NEW q, QuicOk(q),
         NEW n \in {"sni", "peer", "alpn"},
         Alone(q, n), QuicSays(n, q[n], link.host)
  PROVE  LET p == But(q, n)
         IN /\ Hysteria2(link, q) # Hysteria2(less, p)
            /\ Tuic(link, q) # Tuic(less, p)
<1> DEFINE p == But(q, n)
<1>1. CASE n \in {"sni", "peer"}
  <2>1. Two("sni", "peer") \in Aliases /\ n \in Two("sni", "peer") /\ Agree(q, Two("sni", "peer"))
    BY <1>1 DEF Aliases, Two, QuicOk
  <2>2. \A d : Get(q, Two("sni", "peer"), d) = q[n] /\ Get(p, Two("sni", "peer"), d) = d
    BY <2>1, PairGoes
  <2>3. q[n] # link.host
    BY <1>1 DEF QuicSays
  <2> HIDE DEF p
  <2>4. /\ <<"server_name", q[n]>> \in Hysteria2(link, q)
        /\ <<"server_name", q[n]>> \notin Hysteria2(less, p)
    BY <2>2, <2>3, ServerNamed
  <2>5. <<"server_name", q[n]>> \in Tuic(link, q) /\ <<"server_name", q[n]>> \notin Tuic(less, p)
    BY <2>2, <2>3, TuicServerNamed
  <2> QED
    BY <2>4, <2>5 DEF p
<1>2. CASE n = "alpn"
  <2>1. \A d : Get(q, {"alpn"}, d) = q[n] /\ Get(p, {"alpn"}, d) = d
    <3>1. Alone(q, "alpn")
      BY <1>2
    <3>2. \A d : /\ Get(q, {"alpn"}, d) = q["alpn"]
                 /\ Get(But(q, "alpn"), {"alpn"}, d) = d
      BY <3>1, FieldGoes
    <3> QED
      BY <1>2, <3>2
  <2>2. Get(q, {"alpn"}, "h3") = q[n] /\ Get(p, {"alpn"}, "h3") = "h3" /\ q[n] # "h3"
    BY <1>2, <2>1 DEF QuicSays
  <2> HIDE DEF p
  <2>3. <<"alpn", q[n]>> \in Hysteria2(link, q) /\ <<"alpn", q[n]>> \notin Hysteria2(less, p)
    BY <2>2, AlpnNamed
  <2>4. <<"alpn", q[n]>> \in Tuic(link, q) /\ <<"alpn", q[n]>> \notin Tuic(less, p)
    BY <2>2, TuicAlpnNamed
  <2> QED
    BY <2>3, <2>4 DEF p
<1> QED
  BY <1>1, <1>2

\* A link over QUIC does not ask for an insecure server.
LEMMA SecureServer ==
  ASSUME NEW q, QuicOk(q), NEW n, Alone(q, n), NEW host, QuicSays(n, q[n], host)
  PROVE  n \notin Insecure
<1> SUFFICES ASSUME n \in Insecure PROVE FALSE
  OBVIOUS
<1>1. q[n] \in Values(q, Insecure)
  BY DEF Alone, Values
<1>2. q[n] \in False
  BY <1>1 DEF QuicOk, IsBool, Yes
<1> QED
  BY <1>2 DEF QuicSays, Booleans

\* What the checks of a Hysteria2 link leave of its options.
LEMMA Hysteria2Means ==
  ASSUME NEW link, NEW q, Hysteria2Ok(link, q)
  PROVE  /\ QuicOk(q) /\ Values(q, {"pinSHA256", "pinsha256"}) = {}
         /\ Agree(q, Hop) /\ Agree(q, ObfsPassword) /\ Agree(q, HopInterval)
         /\ ~(Listed(link) # "" /\ Values(q, Hop) # {})
         /\ Known(q, TlsQuery \cup TfoQuery \cup Hop \cup HopInterval \cup ObfsPassword
                     \cup {"obfs", "pinSHA256", "pinsha256", "upmbps", "downmbps"})
<1>1. HopOk(link, q) /\ IntervalOk(q) /\ ObfsOk(q) /\ QuicOk(q)
  BY DEF Hysteria2Ok
<1>2. Agree(q, HopInterval)
  BY <1>1 DEF IntervalOk, IsAmount
<1>3. Agree(q, ObfsPassword)
  BY <1>1 DEF ObfsOk
<1>4. Agree(q, Hop) /\ ~(Listed(link) # "" /\ Values(q, Hop) # {})
  BY <1>1 DEF HopOk
<1> QED
  BY <1>1, <1>2, <1>3, <1>4 DEF Hysteria2Ok

\* Each option of a Hysteria2 link changes the outbound: parse_hysteria2.
LEMMA Hysteria2Tells ==
  ASSUME NEW link, NEW less, less.host = link.host, less.port = link.port, NEW q,
         Hysteria2Ok(link, q),
         NEW n \in DOMAIN q, Alone(q, n), QuicSays(n, q[n], link.host)
  PROVE  Hysteria2(link, q) # Hysteria2(less, But(q, n))
<1> DEFINE p == But(q, n)
           out == Hysteria2(link, q)
           rest == Hysteria2(less, p)
<1>0. Given(q, n) /\ q[n] # ""
  BY DEF Alone, Given
<1>1. n \in {"sni", "peer", "alpn", "obfs"} \cup Hop \cup HopInterval \cup ObfsPassword \cup Rates
  <2>1. n \notin Insecure
    BY SecureServer, Hysteria2Means
  <2>2. n \notin {"pinSHA256", "pinsha256"}
    BY <1>0, Hysteria2Means DEF Values
  <2>3. n \notin TfoQuery \cup {"fp", "fingerprint"}
    BY DEF QuicSays
  <2> QED
    BY <2>1, <2>2, <2>3, Hysteria2Means DEF Known, TlsQuery, Rates
<1>2. CASE n \in {"sni", "peer", "alpn"}
  BY <1>2, QuicTlsTells, Hysteria2Means
<1>3. CASE n = "obfs"
  <2>1. \A d : Get(q, {"obfs"}, d) = q[n] /\ Get(p, {"obfs"}, d) = d
    <3>1. Alone(q, "obfs")
      BY <1>3
    <3>2. \A d : /\ Get(q, {"obfs"}, d) = q["obfs"]
                 /\ Get(But(q, "obfs"), {"obfs"}, d) = d
      BY <3>1, FieldGoes
    <3> QED
      BY <1>3, <3>2
  <2>2. Get(q, {"obfs"}, "") = q[n] /\ Get(p, {"obfs"}, "") = ""
    BY <2>1
  <2>3. q[n] # "none"
    BY <1>3 DEF QuicSays
  <2>4. Obfs(q) = q[n] /\ Obfs(p) = ""
    BY <2>2, <2>3 DEF Obfs
  <2> HIDE DEF p
  <2>5. <<"obfs", q[n]>> \in out /\ <<"obfs", q[n]>> \notin rest
    BY <1>0, <2>4, ObfsNamed
  <2> QED
    BY <2>5 DEF p
<1>4. CASE n \in Hop
  <2>1. Hop \in Aliases /\ Agree(q, Hop)
    BY Hysteria2Means DEF Aliases
  <2>2. /\ q[n] \in Values(q, Hop)
        /\ \A d : Get(q, Hop, d) = q[n] /\ Get(p, Hop, d) = d
    BY <1>4, <2>1, PairGoes
  <2>3. Get(q, Hop, "") = q[n] /\ Get(p, Hop, "") = ""
    BY <2>2
  <2>4. Listed(link) = "" /\ Listed(less) = Listed(link)
    BY <2>2, Hysteria2Means DEF Listed, OnePort
  <2>5. HopPorts(link, q) = q[n] /\ HopPorts(less, p) = ""
    BY <2>3, <2>4 DEF HopPorts
  <2> HIDE DEF p
  <2>6. <<"server_ports", q[n]>> \in out /\ <<"server_ports", q[n]>> \notin rest
    BY <1>0, <2>5, PortsNamed
  <2> QED
    BY <2>6 DEF p
<1>5. CASE n \in HopInterval
  <2>1. HopInterval \in Aliases /\ Agree(q, HopInterval)
    BY Hysteria2Means DEF Aliases
  <2>2. q[n] \in Values(q, HopInterval) /\ Values(p, HopInterval) = {}
    BY <1>5, <2>1, PairGoes
  <2>3. <<"hop_interval", q[n]>> \in out /\ <<"hop_interval", q[n]>> \notin rest
    BY <2>2, IntervalNamed
  <2> QED
    BY <2>3
<1>6. CASE n \in ObfsPassword
  <2>1. ObfsPassword \in Aliases /\ Agree(q, ObfsPassword)
    BY Hysteria2Means DEF Aliases
  <2>2. q[n] \in Values(q, ObfsPassword) /\ Values(p, ObfsPassword) = {}
    BY <1>6, <2>1, PairGoes
  <2>3. <<"obfs_password", q[n]>> \in out /\ <<"obfs_password", q[n]>> \notin rest
    BY <2>2, WordNamed
  <2> QED
    BY <2>3
<1>7. CASE n \in Rates
  <2>1. q[n] \in Values(q, {n}) /\ q[n] \notin Values(p, {n})
    BY FieldGoes
  <2>2. <<n, q[n]>> \in out /\ <<n, q[n]>> \notin rest
    BY <1>7, <2>1, RateNamed
  <2> QED
    BY <2>2
<1> QED
  BY <1>1, <1>2, <1>3, <1>4, <1>5, <1>6, <1>7

\* Each option of a TUIC link changes the outbound: parse_tuic.
LEMMA TuicTells ==
  ASSUME NEW link, NEW less, less.host = link.host, NEW q, TuicOk(link, q), NEW n \in DOMAIN q,
         Alone(q, n),
         QuicSays(n, q[n], link.host)
  PROVE  Tuic(link, q) # Tuic(less, But(q, n))
<1> DEFINE p == But(q, n)
           out == Tuic(link, q)
           rest == Tuic(less, p)
<1>0. Given(q, n) /\ q[n] # ""
  BY DEF Alone, Given
<1>1. n \in {"sni", "peer", "alpn", "congestion_control", "congestion", "udp_over_stream",
             "zero_rtt_handshake", "reduce_rtt", "disable_sni"} \cup TuicOptions
  <2>1. n \notin Insecure
    BY SecureServer DEF TuicOk
  <2>2. n \notin TfoQuery \cup {"fp", "fingerprint"}
    BY DEF QuicSays
  <2> QED
    BY <2>1, <2>2 DEF TuicOk, Known, TlsQuery, TuicOptions
<1>2. CASE n \in {"sni", "peer", "alpn"}
  BY <1>2, QuicTlsTells DEF TuicOk
<1>3. CASE n \in {"congestion_control", "congestion"}
  <2> DEFINE names == Two("congestion_control", "congestion")
  <2>1. names \in Aliases /\ n \in names /\ Agree(q, names)
    BY <1>3 DEF Aliases, Two, TuicOk
  <2>2. q[n] \in Values(q, names) /\ Values(p, names) = {}
    BY <2>1, PairGoes
  <2>3. <<"congestion_control", q[n]>> \in out /\ <<"congestion_control", q[n]>> \notin rest
    BY <2>2, CongestionNamed
  <2> QED
    BY <2>3
<1>4. CASE n = "udp_over_stream"
  <2>1. Yes(q, {"udp_over_stream"}) /\ ~Yes(p, {"udp_over_stream"})
    BY <1>4, AloneFlag DEF TuicOk, QuicSays, Booleans
  <2>2. <<"udp_over_stream", "true">> \in out /\ <<"udp_over_stream", "true">> \notin rest
    BY <2>1, OverStreamNamed
  <2> QED
    BY <2>2
<1>5. CASE n = "disable_sni"
  <2>1. Yes(q, {"disable_sni"}) /\ ~Yes(p, {"disable_sni"})
    BY <1>5, AloneFlag DEF TuicOk, QuicSays, Booleans
  <2>2. <<"disable_sni", "true">> \in out /\ <<"disable_sni", "true">> \notin rest
    BY <2>1, DisableNamed
  <2> QED
    BY <2>2
<1>6. CASE n \in {"zero_rtt_handshake", "reduce_rtt"}
  <2>1. {"zero_rtt_handshake", "reduce_rtt"} \in Aliases /\ q[n] \notin False
    BY <1>6 DEF Aliases, QuicSays, Booleans
  <2>2. /\ Yes(q, {"zero_rtt_handshake", "reduce_rtt"})
        /\ ~Yes(p, {"zero_rtt_handshake", "reduce_rtt"})
    BY <1>6, <2>1, AliasFlag DEF TuicOk
  <2>3. <<"zero_rtt_handshake", "true">> \in out /\ <<"zero_rtt_handshake", "true">> \notin rest
    BY <2>2, ZeroNamed
  <2> QED
    BY <2>3
<1>7. CASE n \in TuicOptions
  <2>1. q[n] \in Values(q, {n}) /\ q[n] \notin Values(p, {n})
    BY FieldGoes
  <2>2. <<n, q[n]>> \in out /\ <<n, q[n]>> \notin rest
    BY <1>7, <2>1, TuicOptionNamed
  <2> QED
    BY <2>2
<1> QED
  BY <1>1, <1>2, <1>3, <1>4, <1>5, <1>6, <1>7

\* What an option that does not say a default and is not known to be dropped says, by
\* the scheme of its link.
LEMMA OptionSays ==
  ASSUME NEW link, NEW n, NEW x, ~SaysDefault(link, <<n, x>>), ~KnownDrop(link, <<n, x>>)
  PROVE  /\ x # ""
         /\ link.scheme = "vless" /\ n = "encryption" => x # "none"
         /\ link.scheme = "trojan" => n # "packetEncoding"
         /\ n = "aid" => x # "0"
         /\ link.scheme = "vmess" /\ n \in {"scy", "encryption"} => x # "auto"
         /\ link.scheme = "ss" /\ n = "plugin" => Plugin[x].name # ""
         /\ n \in {"uot", "tfo", "fastopen"} => x \notin False
<1>1. x # "" /\ (n = "aid" => x # "0")
  BY DEF SaysDefault
<1>2. n \in {"encryption", "scy"} => x # IF link.scheme = "vmess" THEN "auto" ELSE "none"
  BY DEF SaysDefault
<1>3. n \in {"uot", "tfo", "fastopen"} => x \notin False
  BY DEF SaysDefault, Booleans
<1>4. link.scheme = "trojan" => n # "packetEncoding"
  BY DEF KnownDrop
<1>5. link.scheme = "ss" /\ n = "plugin" => Plugin[x].name # ""
  BY DEF KnownDrop
<1> QED
  BY <1>1, <1>2, <1>3, <1>4, <1>5

LEMMA OptionSaysOverQuic ==
  ASSUME NEW link, link.scheme \in QuicSchemes, NEW n, NEW x,
         ~SaysDefault(link, <<n, x>>), ~KnownDrop(link, <<n, x>>)
  PROVE  QuicSays(n, x, link.host)
<1>1. n \in {"sni", "peer"} => x # link.host
  BY DEF SaysDefault
<1>2. n = "alpn" => x # "h3"
  BY DEF SaysDefault
<1>3. n = "obfs" => x # "none"
  BY DEF SaysDefault
<1>4. n \in Booleans => x \notin False
  BY DEF SaysDefault
<1>5. n \notin TfoQuery \cup {"fp", "fingerprint"}
  BY DEF KnownDrop
<1> QED
  BY <1>1, <1>2, <1>3, <1>4, <1>5 DEF QuicSays

\* Each option of a link that Xray takes changes the outbound.
LEMMA XrayTells ==
  ASSUME NEW link, IsLink(link), XrayOk(link), NEW less, NEW query,
         less = [link EXCEPT !.query = query],
         NEW n \in DOMAIN Query(link.query), Query(less.query) = But(Query(link.query), n),
         Alone(Query(link.query), n),
         link.form = "json" => n \in LegacyMembers,
         ~SaysDefault(link, <<n, Query(link.query)[n]>>),
         ~KnownDrop(link, <<n, Query(link.query)[n]>>)
  PROVE  Xray(link) # Xray(less)
<1> DEFINE q == Query(link.query)
           p == But(q, n)
<1>0. /\ less.host = link.host /\ less.port = link.port /\ less.scheme = link.scheme
      /\ less.form = link.form /\ Query(less.query) = p
  BY DEF IsLink
<1>1. CASE link.scheme = "vless"
  <2>1. VlessOk(link, q) /\ link.form # "json"
    BY <1>1 DEF XrayOk, IsLink
  <2>2. Xray(link) = Vless(link, q) /\ Xray(less) = Vless(less, p)
    BY <1>0, <1>1 DEF Xray
  <2>3. Says(q, n, q[n], "none", link.host) /\ (n = "encryption" => q[n] # "none")
    BY <1>1, <2>1, UriSays, OptionSays
  <2> QED
    BY <1>0, <2>1, <2>2, <2>3, VlessTells
<1>2. CASE link.scheme = "trojan"
  <2>1. TrojanOk(link, q) /\ link.form # "json"
    BY <1>2 DEF XrayOk, IsLink
  <2>2. Xray(link) = Trojan(link, q) /\ Xray(less) = Trojan(less, p)
    BY <1>0, <1>2 DEF Xray
  <2>3. Says(q, n, q[n], "tls", link.host) /\ n # "packetEncoding"
    BY <1>2, <2>1, UriSays, OptionSays
  <2> QED
    BY <1>0, <2>1, <2>2, <2>3, TrojanTells
<1>3. CASE link.scheme = "ss"
  <2>1. XraySsOk(link, q)
    BY <1>3 DEF XrayOk
  <2>2. Xray(link) = XraySs(link, q) /\ Xray(less) = XraySs(less, p)
    BY <1>0, <1>3 DEF Xray
  <2>3. /\ n = "plugin" => Plugin[q[n]].name # ""
        /\ n \in {"uot", "tfo", "fastopen"} => q[n] \notin False
    BY <1>3, OptionSays
  <2> QED
    BY <2>1, <2>2, <2>3, XraySsTells
<1>4. CASE link.scheme = "vmess" /\ link.form # "json"
  <2>1. VmessUriOk(link, q)
    BY <1>4 DEF XrayOk
  <2>2. Xray(link) = VmessUri(link, q) /\ Xray(less) = VmessUri(less, p)
    BY <1>0, <1>4 DEF Xray
  <2>3. /\ Says(q, n, q[n], "none", link.host) /\ (n = "aid" => q[n] # "0")
        /\ n \in {"scy", "encryption"} => q[n] # "auto"
    BY <1>4, UriSays, OptionSays
  <2> QED
    BY <1>0, <2>1, <2>2, <2>3, VmessUriTells
<1>5. CASE link.scheme = "vmess" /\ link.form = "json"
  <2>1. VmessJsonOk(link, q)
    BY <1>5 DEF XrayOk
  <2>2. Xray(link) = VmessJson(link, q) /\ Xray(less) = VmessJson(less, p)
    BY <1>0, <1>5 DEF Xray
  <2>3. n # "other" /\ LegacySays(q, n, q[n], link.host)
    BY <1>5, JsonSays
  <2> QED
    BY <1>0, <1>5, <2>1, <2>2, <2>3, VmessJsonTells
<1>6. link.scheme \in {"vless", "trojan", "ss", "vmess"}
  BY DEF XrayOk
<1> QED
  BY <1>1, <1>2, <1>3, <1>4, <1>5, <1>6

\* Each option of a link that sing-box takes changes the outbound.
LEMMA SingboxTells ==
  ASSUME NEW link, IsLink(link), SingboxOk(link), NEW less, NEW query,
         less = [link EXCEPT !.query = query],
         NEW n \in DOMAIN Query(link.query), Query(less.query) = But(Query(link.query), n),
         Alone(Query(link.query), n),
         ~SaysDefault(link, <<n, Query(link.query)[n]>>),
         ~KnownDrop(link, <<n, Query(link.query)[n]>>)
  PROVE  Singbox(link) # Singbox(less)
<1> DEFINE q == Query(link.query)
           p == But(q, n)
<1>0. /\ less.host = link.host /\ less.port = link.port /\ less.scheme = link.scheme
      /\ Query(less.query) = p
  BY DEF IsLink
<1>1. CASE link.scheme \in {"hysteria2", "hy2"}
  <2>1. Hysteria2Ok(link, q)
    BY <1>1 DEF SingboxOk
  <2>2. Singbox(link) = Hysteria2(link, q) /\ Singbox(less) = Hysteria2(less, p)
    BY <1>0, <1>1 DEF Singbox
  <2>3. QuicSays(n, q[n], link.host)
    BY <1>1, OptionSaysOverQuic DEF QuicSchemes
  <2> QED
    BY <1>0, <2>1, <2>2, <2>3, Hysteria2Tells
<1>2. CASE link.scheme = "tuic"
  <2>1. TuicOk(link, q)
    BY <1>2 DEF SingboxOk
  <2>2. Singbox(link) = Tuic(link, q) /\ Singbox(less) = Tuic(less, p)
    BY <1>0, <1>2 DEF Singbox
  <2>3. QuicSays(n, q[n], link.host)
    BY <1>2, OptionSaysOverQuic DEF QuicSchemes
  <2> QED
    BY <1>0, <2>1, <2>2, <2>3, TuicTells
<1>3. CASE link.scheme = "ss"
  <2>1. SingboxSsOk(link, q)
    BY <1>3 DEF SingboxOk
  <2>2. Singbox(link) = SingboxSs(link, q) /\ Singbox(less) = SingboxSs(less, p)
    BY <1>0, <1>3 DEF Singbox
  <2>3. /\ n = "plugin" => Plugin[q[n]].name # ""
        /\ n \in {"uot", "tfo", "fastopen"} => q[n] \notin False
    BY <1>3, OptionSays
  <2> QED
    BY <2>1, <2>2, <2>3, SingboxSsTells
<1>4. link.scheme \in {"hysteria2", "hy2", "tuic", "ss"}
  BY DEF SingboxOk
<1> QED
  BY <1>1, <1>2, <1>3, <1>4

\* So does each of a link that either takes.
LEMMA OptionTells ==
  ASSUME NEW link, IsLink(link), NEW engine \in {"xray", "singbox"}, Accepts(engine, link),
         NEW i \in DOMAIN link.query,
         ~SaysDefault(link, link.query[i]), ~KnownDrop(link, link.query[i]),
         \A j \in DOMAIN link.query \ {i} : ~SameOption(link.query[j], link.query[i])
  PROVE  Outbound(engine, Without(link, i)) # Outbound(engine, link)
<1> DEFINE q == Query(link.query)
           n == link.query[i][1]
           less == Without(link, i)
           query == less.query
<1>1. Readable(link)
  BY DEF Accepts, XrayOk, SingboxOk
<1>2. /\ n \in DOMAIN q /\ link.query[i] = <<n, q[n]>>
      /\ Query(less.query) = But(q, n) /\ less = [link EXCEPT !.query = query]
      /\ \A m \in DOMAIN q \ {n} : q[m] = q[n] => \A names \in Aliases : ~({m, n} \subseteq names)
  BY <1>1, WithoutOption DEF But
<1>3. ~SaysDefault(link, <<n, q[n]>>) /\ ~KnownDrop(link, <<n, q[n]>>)
  BY <1>2
<1>4. q[n] # ""
  BY <1>3, OptionSays
<1>5. Alone(q, n)
  BY <1>2, <1>4 DEF Alone, Given
<1>6. link.form = "json" => n \in LegacyMembers
  BY DEF IsLink
<1> HIDE DEF n, less, query
<1>7. CASE engine = "xray"
  BY <1>2, <1>3, <1>5, <1>6, <1>7, XrayTells DEF Accepts, Outbound, less
<1>8. CASE engine = "singbox"
  BY <1>2, <1>3, <1>5, <1>8, SingboxTells DEF Accepts, Outbound, less
<1> QED
  BY <1>7, <1>8

\* A configuration holds each option of the link that was chosen.
LEMMA OptionsCount == SubInv => NothingDropped
<1> SUFFICES ASSUME SubInv, config # None, config.kind \in {"xray", "singbox"},
                    NEW i \in DOMAIN chosen.link.query
             PROVE  LET link == chosen.link
                        o == link.query[i]
                        less == Without(link, i)
                    IN \/ SaysDefault(link, o) \/ KnownDrop(link, o)
                       \/ \E j \in DOMAIN link.query \ {i} : SameOption(link.query[j], o)
                       \/ Accepts(config.kind, less) => Outbound(config.kind, less) # config.out
  BY DEF NothingDropped
<1> DEFINE link == chosen.link
<1>1. Refused.kind \notin {"xray", "singbox"}
  BY DEF Refused
<1>2. chosen # None /\ config = Built(chosen)
  BY <1>1 DEF SubInv, ConfigInv
<1>3. body \in Bodies /\ NodeOf(body, chosen)
  BY <1>2, NodesAreOfRows DEF SubInv, ChosenInv, ListInv
<1>4. /\ chosen.kind = "link" /\ Accepts(config.kind, link)
      /\ config.out = Outbound(config.kind, link)
  BY <1>1, <1>2 DEF Built
<1>5. IsLink(link)
  BY <1>3, <1>4, NodeShape
<1> HIDE DEF link
<1> QED
  BY <1>4, <1>5, OptionTells DEF link

\* Whatever an answer offers and whichever link of it is chosen, the configuration is not
\* the one of the link without one of its options, but for the options that say what
\* holds without them, those that are said twice, and the few that are known to be lost:
\* nothing that the generators accept is dropped silently (mkxray.py:111).
THEOREM NothingIsDropped == Spec => []NothingDropped
<1>1. SubPart => NothingDropped
  <2>1. SubRests => NothingDropped
    BY DEF SubRests, NothingDropped
  <2> QED
    BY <2>1, OptionsCount DEF SubPart
<1> QED
  BY SubPartHolds, <1>1, PTL
===============================================================================
