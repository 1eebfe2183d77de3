----------------------------- MODULE AwgProfile -----------------------------
(***************************************************************************)
(* What src/src/mkawg.py accepts as an AmneziaWG profile, and the endpoint *)
(* it makes of it.                                                         *)
(*                                                                         *)
(* A profile is the sequence of its lines: [kind |-> "section", name] or   *)
(* [kind |-> "setting", key, value], where key is what the spellings of a  *)
(* setting's name stand for, and two of them for one setting. A value      *)
(* is a text; the constants say what it decodes to. A range is a pair.     *)
(***************************************************************************)
EXTENDS Integers, Sequences, TLC, Ranks

Ext == INSTANCE SequencesExt

CONSTANTS NumberOf,    \* the integer in each text that is one
          RangeOf,   \* the range in each text that is a number or a range
          FlagOf,    \* the Boolean in each text that is a flag
          TagsOf,    \* the <<tag, size>> sequence in each text that is made of CPS tags
          Keys,      \* texts that are keys
          ZeroKey,   \* the one of all zeros
          HostsPorts,\* texts that are a valid host:port
          PrefixLists,  \* texts that are lists of prefixes, not too long
          MaxWord,   \* 2^32 - 1, or less
          MaxShort,  \* 2^16 - 1, or less
          MaxPacket, \* MAX_CPS_PACKET
          MaxPeers

H == {"h1", "h2", "h3", "h4"}
I == {"i1", "i2", "i3", "i4", "i5"}
Awg3Ranges == {"content_padding_addition", "rekey_after_time", "rekey_timeout", "reject_after_time",
               "keepalive_timeout", "max_handshake_attempts"}
Awg31Flags == {"random_trailers", "disable_cookies"}
Amounts == {"jc", "jmin", "jmax", "s1", "s2", "s3", "s4"}
InterfaceKeys == {"private_key", "address", "dns", "mtu", "listen_port", "header_protection_key"}
                 \cup H \cup I \cup Amounts \cup Awg3Ranges \cup Awg31Flags
PeerKeys == {"public_key", "preshared_key", "allowed_ips", "endpoint", "persistent_keepalive",
             "advanced_security"}
\* The one setting that has two names.
Canonical(key) == IF key = "persistent_keepalive_interval" THEN "persistent_keepalive" ELSE key

--------------------------------------------------------------------------
(* _parse_ini *)

\* What the model holds of a text.
IsText(lines) == /\ Len(lines) \in Nat /\ DOMAIN lines = 1..Len(lines)
                 /\ \A i \in DOMAIN lines : lines[i].kind \in {"section", "setting"}

Sections(lines) == {i \in DOMAIN lines : lines[i].kind = "section"}
\* The line that opens the section of line i, 0 before the first one.
Section(lines, i) == LET before == {j \in Sections(lines) : j <= i}
                     IN IF before = {} THEN 0 ELSE CHOOSE j \in before : \A k \in before : k <= j
Named(lines, name) == {i \in Sections(lines) : lines[i].name = name}
In(lines, s) == {i \in DOMAIN lines \ Sections(lines) : Section(lines, i) = s}

IniOk(lines) ==
    /\ Cardinality(Named(lines, "interface")) = 1
    /\ Cardinality(Named(lines, "peer")) \in 1..MaxPeers
    /\ Sections(lines) = Named(lines, "interface") \cup Named(lines, "peer")
    /\ \A i \in Named(lines, "interface"), p \in Named(lines, "peer") : i < p
    /\ In(lines, 0) = {}
    /\ \A s \in Sections(lines) :
         /\ \A i \in In(lines, s) : Canonical(lines[i].key) \in
               IF lines[s].name = "interface" THEN InterfaceKeys ELSE PeerKeys
         /\ \A i, j \in In(lines, s) : Canonical(lines[i].key) = Canonical(lines[j].key) => i = j

\* The settings of a section.
Settings(lines, s) ==
    [key \in {Canonical(lines[i].key) : i \in In(lines, s)} |->
        lines[CHOOSE i \in In(lines, s) : Canonical(lines[i].key) = key].value]
Interface(lines) == Settings(lines, CHOOSE s \in Sections(lines) : lines[s].name = "interface")
Peers(lines) == LET order == Ranked(Named(lines, "peer"), Less(Named(lines, "peer")))
                IN [n \in DOMAIN order |-> Settings(lines, order[n])]

--------------------------------------------------------------------------
(* Values: a setting that is absent or empty is not given *)

Given(s, key) == key \in DOMAIN s /\ s[key] # ""
Value(s, key) == IF Given(s, key) THEN s[key] ELSE ""

IsKey(s, key) == Given(s, key) /\ s[key] \in Keys \ {ZeroKey}
Whole(s, key) == IF Given(s, key) THEN NumberOf[s[key]] ELSE 0
IsInt(s, key, low, high) == Given(s, key) => s[key] \in DOMAIN NumberOf /\ NumberOf[s[key]] \in low..high

\* amneziawg-go counts the values of a range in a word, which the widest one wraps.
IsRange(s, key, max) ==
    Given(s, key) => /\ s[key] \in DOMAIN RangeOf
                     /\ LET r == RangeOf[s[key]]
                        IN r[1] \in 0..max /\ r[2] \in r[1]..max /\ r # <<0, MaxWord>>
IsFlag(s, key) == Given(s, key) => s[key] \in DOMAIN FlagOf
Flag(s, key) == Given(s, key) /\ FlagOf[s[key]]

TagSize(tag) == IF tag[1] = "t" THEN 4 ELSE tag[2]
\* The bytes that the tags of a packet add up to, whose length is not known for d and ds.
CpsSize(tags) == Ext!FoldSeq(LAMBDA tag, sum : sum + TagSize(tag), 0, tags)
IsCps(s, key) ==
    Given(s, key) =>
        /\ s[key] \in DOMAIN TagsOf
        /\ LET tags == TagsOf[s[key]]
               dynamic == \E i \in DOMAIN tags : tags[i][1] \in {"d", "ds"}
           IN /\ \A i \in DOMAIN tags : /\ tags[i][1] \in {"b", "r", "rc", "rd", "t", "d", "ds", "dz"}
                                        /\ tags[i][1] = "dz" => tags[i][2] \in 1..8
              /\ CpsSize(tags) <= IF dynamic THEN MaxPacket - 148 ELSE MaxPacket

--------------------------------------------------------------------------
(* load_profile *)

Mtu(s) == IF Given(s, "mtu") THEN NumberOf[s.mtu] ELSE 1408

SizesOk(s) ==
    /\ IsInt(s, "mtu", 576, 9000) /\ IsInt(s, "listen_port", 0, 65535)
    /\ IsInt(s, "jc", 0, 128) /\ IsInt(s, "jmin", 0, MaxPacket) /\ IsInt(s, "jmax", 0, MaxPacket)
    /\ Whole(s, "jc") # 0 => Whole(s, "jmin") \in 1..Whole(s, "jmax")
    /\ IsInt(s, "s1", 0, MaxPacket - 148) /\ IsInt(s, "s2", 0, MaxPacket - 92)
    /\ IsInt(s, "s3", 0, MaxPacket - 64) /\ IsInt(s, "s4", 0, MaxPacket - Mtu(s) - 32)

\* A slip of Apart: one value in common goes through.
ApartButOne(a, b) == a[2] <= b[1] \/ b[2] <= a[1]

Apart(a, b) == a[2] < b[1] \/ b[2] < a[1]
HeadersOk(s) ==
    /\ \A h \in H : IsRange(s, h, MaxWord)
    /\ (\A h \in H : Given(s, h)) \/ (\A h \in H : ~Given(s, h))
    /\ \A g, h \in {k \in H : Given(s, k)} : g # h => Apart(RangeOf[s[g]], RangeOf[s[h]])

NonceBytes == 12
ProtectionOk(s) ==
    Given(s, "header_protection_key") =>
        /\ IsKey(s, "header_protection_key")
        /\ \A n \in {"s1", "s2", "s3", "s4"} : Whole(s, n) >= NonceBytes

InterfaceOk(s) ==
    /\ IsKey(s, "private_key") /\ Given(s, "address") /\ s.address \in PrefixLists
    /\ SizesOk(s) /\ HeadersOk(s) /\ ProtectionOk(s)
    /\ \A i \in I : IsCps(s, i)
    /\ \A key \in Awg3Ranges : IsRange(s, key, MaxShort)
    /\ \A key \in Awg31Flags : IsFlag(s, key)

PeerOk(s) ==
    /\ Given(s, "endpoint") /\ s.endpoint \in HostsPorts
    /\ IsRange(s, "persistent_keepalive", MaxShort)
    /\ IsKey(s, "public_key") /\ Value(s, "preshared_key") \in Keys \cup {""}
    /\ Given(s, "allowed_ips") /\ s.allowed_ips \in PrefixLists
    /\ "advanced_security" \in DOMAIN s => IsFlag(s, "advanced_security") /\ Flag(s, "advanced_security")

ProfileOk(lines) ==
    /\ IniOk(lines) /\ InterfaceOk(Interface(lines))
    /\ LET peers == Peers(lines)
       IN /\ \A n \in DOMAIN peers : PeerOk(peers[n])
          /\ \A m, n \in DOMAIN peers : peers[m].public_key = peers[n].public_key => m = n

--------------------------------------------------------------------------
(* _endpoint_json: what is zero, off or empty is left out *)

\* A slip of Optional: the flags of 3.1 are not passed on.
OptionalBefore31(s) ==
    {<<key, Whole(s, key)>> : key \in {k \in Amounts : Whole(s, k) # 0}}
    \cup {<<key, s[key]>> : key \in {k \in H \cup I \cup Awg3Ranges \cup {"header_protection_key"} : Given(s, k)}}

Optional(s) ==
    {<<key, Whole(s, key)>> : key \in {k \in Amounts : Whole(s, k) # 0}}
    \cup {<<key, s[key]>> : key \in {k \in H \cup I \cup Awg3Ranges \cup {"header_protection_key"} : Given(s, k)}}
    \cup {<<key, TRUE>> : key \in {k \in Awg31Flags : Flag(s, k)}}

\* The shortest keepalive of a range.
Keepalive(s) == IF Given(s, "persistent_keepalive") THEN RangeOf[s.persistent_keepalive][1] ELSE 0

PeerJson(s) == [endpoint |-> s.endpoint, public_key |-> s.public_key, allowed_ips |-> s.allowed_ips,
                preshared_key |-> Value(s, "preshared_key"), keepalive |-> Keepalive(s)]

\* ListenPort would open a port to the Internet; dns is for the menu.
Endpoint(lines) ==
    LET s == Interface(lines)
        peers == Peers(lines)
    IN [private_key |-> s.private_key, address |-> s.address, mtu |-> Mtu(s),
        optional |-> Optional(s), peers |-> [n \in DOMAIN peers |-> PeerJson(peers[n])]]

--------------------------------------------------------------------------
(* The directory of profiles: a function from each profile's id to [name, lines] *)

\* _profile_entries: the ids in the order of the menu. Ranks of names come first.
Listed(dir) ==
    LET ids == DOMAIN dir
    IN Ranked(ids, {p \in ids \X ids : \/ dir[p[1]].name < dir[p[2]].name
                                       \/ dir[p[1]].name = dir[p[2]].name /\ p[1] < p[2]})

\* pick_profile, by id; 0 is a refusal.
Picked(dir, id) == IF id \in DOMAIN dir /\ ProfileOk(dir[id].lines) THEN id ELSE 0
=============================================================================
