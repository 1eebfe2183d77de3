----------------------------- MODULE SubCatalog -----------------------------
(***************************************************************************)
(* A subscription's way from the provider's answer to the configuration of *)
(* the node that is selected: process_body, cmd_fetch, _load and           *)
(* cmd_extract of src/src/mksub.py, and then the generator that the CLI    *)
(* calls for it.                                                           *)
(*                                                                         *)
(* A body is a record [format, rows]; a row a record [kind, link, profile, *)
(* size], where kind is "link", "profile", "wrapped" for a profile inside  *)
(* an ss:// row, or "junk" for what no node is made of: a comment, another *)
(* scheme, control characters, a profile too large or nested too deeply.   *)
(* The size of a row is that of its node in the catalog's file.            *)
(***************************************************************************)
EXTENDS ShareLinks, Ranks

CONSTANTS Literal, NotTag, Destinations, MaxOutbounds, MaxBalancers,  \* see JsonProfile
          Bodies,      \* what a provider may answer
          NoLink, NoProfile,
          MaxLines, MaxNodes,
          MaxText,     \* 8 * MAX_BYTES, what _load reads
          None         \* no catalog, no node, no configuration

Json == INSTANCE JsonProfile

ASSUME BodiesAssumption ==
    \A b \in Bodies :
        /\ Len(b.rows) \in Nat /\ DOMAIN b.rows = 1..Len(b.rows)
        /\ \A i \in DOMAIN b.rows :
             /\ b.rows[i].size \in Nat
             /\ b.rows[i].kind = "link" => IsLink(b.rows[i].link)
             /\ b.rows[i].kind \in {"profile", "wrapped"} => Json!IsProfile(b.rows[i].profile)
\* What stands for no host, or for the core's own DNS, is not a host.
ASSUME NamesAssumption == {"", "fakedns"} \cap Private = {}
ASSUME LimitsAssumption == {MaxNodes, MaxText} \subseteq Nat \ {0}

VARIABLES body,     \* the provider's answer
          file,     \* the catalog as it was saved: [nodes, size]
          listed,   \* the nodes that _load made of it, as the menu shows them
          chosen,   \* the node of the last selection
          config    \* what was built of it: [kind, out]

subVars == <<body, file, listed, chosen, config>>

Nothing == None
Refused == [kind |-> "refused", out |-> {}]

--------------------------------------------------------------------------
(* node_from_link *)

\* A slip of Canonical: rows of one server are the same node.
CanonicalServer(link) == <<"canonical", [link EXCEPT !.query = {}]>>

\* _canonical_link: the order of the options does not count, unless one comes
\* twice or the port is none.
Canonical(link) ==
    IF \/ link.form = "broken" \/ (link.form # "json" /\ ~Flat(link.query))
       \/ (link.form = "uri" /\ link.port # "" /\ ~OnePort(link))
    THEN <<"raw", link>>
    ELSE <<"canonical", [link EXCEPT !.query = {link.query[i] : i \in DOMAIN link.query}]>>

\* _ss_engine: of two plugins the last one counts.
CatalogSsEngine(link) ==
    LET plugins == {i \in DOMAIN link.query : link.query[i][1] = "plugin"}
        plugin == IF plugins = {} THEN ""
                  ELSE link.query[CHOOSE i \in plugins : \A j \in plugins : j <= i][2]
    IN IF link.form = "broken" \/ link.user = "" \/ link.pass = "" THEN ""
       ELSE SsEngine(link.user, link.pass, IF plugin = "" THEN "" ELSE Plugin[plugin].name)
CatalogEngine(link) == IF link.scheme \in QuicSchemes THEN "singbox"
                       ELSE IF link.scheme = "ss" THEN CatalogSsEngine(link) ELSE "xray"

\* A slip of Recognized: the generators are not asked.
RecognizedUnasked(link) ==
    LET engine == CatalogEngine(link)
    IN engine # "" /\ link.host # "" /\ link.host \notin Private

\* _generator_refusal asks the generator that a selection would call.
Recognized(link) ==
    LET engine == CatalogEngine(link)
    IN /\ engine # ""
       /\ link.form # "broken" /\ link.host # "" /\ link.host \notin Private
       /\ Accepts(engine, link)

\* The same profile in two wrappers is two nodes.
Id(row) == IF row.kind = "link" THEN Canonical(row.link) ELSE <<"profile", row.profile, row.link>>

LinkNode(row) ==
    [id |-> Id(row), kind |-> "link", recognized |-> Recognized(row.link),
     link |-> row.link, profile |-> NoProfile]

\* _profile_catalog_node
PoolNode(row) ==
    [id |-> Id(row), kind |-> "pool", recognized |-> Json!ProfileOk(row.profile),
     link |-> NoLink, profile |-> row.profile]

Node(row) == IF row.kind = "link" THEN LinkNode(row) ELSE PoolNode(row)

--------------------------------------------------------------------------
(* process_body: the nodes of the rows, each id once *)

Rows(b) == IF b.format = "json" THEN {i \in DOMAIN b.rows : b.rows[i].kind = "profile"}
           ELSE {i \in DOMAIN b.rows : b.rows[i].kind \in {"link", "wrapped"} /\ i <= MaxLines}
\* The rows whose node no earlier row has.
Firsts(b) == {i \in Rows(b) : \A j \in Rows(b) : j < i => Id(b.rows[j]) # Id(b.rows[i])}

\* A slip of Kept: the limit is compared after the node is added.
KeptOneMore(b) == LET firsts == Firsts(b)
                      order == Ranked(firsts, Less(firsts))
                  IN SubSeq(order, 1, IF Len(order) < MaxNodes + 1 THEN Len(order) ELSE MaxNodes + 1)

Kept(b) == LET firsts == Firsts(b)
               order == Ranked(firsts, Less(firsts))
           IN SubSeq(order, 1, IF Len(order) < MaxNodes THEN Len(order) ELSE MaxNodes)
Nodes(b) == LET kept == Kept(b) IN [n \in DOMAIN kept |-> Node(b.rows[kept[n]])]
\* The length of the catalog: its characters, each with the place of its node.
Text(b) == LET kept == Kept(b)
           IN Cardinality(UNION {{n} \X (1..b.rows[kept[n]].size) : n \in DOMAIN kept})

\* A slip of Fits: the size before escaping is what counts.
FitsRaw(b) == TRUE

Fits(b) == Text(b) <= MaxText

BodyOk(b) ==
    /\ b.format \in {"links", "json"}
    /\ \E n \in DOMAIN Nodes(b) : Nodes(b)[n].recognized
    /\ Fits(b)

--------------------------------------------------------------------------
(* The state machine *)

\* The catalog of a body, with the end of line that cmd_fetch writes after it.
Catalog(b) == [nodes |-> Nodes(b), size |-> Text(b) + 1]

SubInit ==
    /\ body \in Bodies
    /\ file = Nothing /\ listed = Nothing /\ chosen = Nothing /\ config = Nothing

\* cmd_fetch, and sub_add or sub_refresh of the CLI, which install what it wrote.
FetchBody ==
    /\ file = Nothing /\ config = Nothing
    /\ IF BodyOk(body) THEN file' = Catalog(body) /\ UNCHANGED config
       ELSE config' = Refused /\ UNCHANGED file
    /\ UNCHANGED <<body, listed, chosen>>

\* An update of the program changes what it accepts: the verdicts in the file are stale.
Upgrade ==
    /\ file # Nothing /\ listed = Nothing
    /\ \E n \in DOMAIN file.nodes :
         /\ file.nodes[n].kind = "pool"
         /\ file' = [file EXCEPT !.nodes[n].recognized = ~@]
    /\ UNCHANGED <<body, listed, chosen, config>>

\* A slip of Judged: the verdict is the one in the file.
JudgedBefore(node) == node

\* _load judges profiles anew, and not links.
Judged(node) == IF node.kind = "pool"
                THEN [node EXCEPT !.recognized = Json!ProfileOk(node.profile)] ELSE node

Load ==
    /\ file # Nothing /\ listed = Nothing /\ config = Nothing
    /\ IF file.size > MaxText THEN config' = Refused /\ UNCHANGED listed
       ELSE /\ listed' = [n \in DOMAIN file.nodes |-> Judged(file.nodes[n])]
            /\ UNCHANGED config
    /\ UNCHANGED <<body, file, chosen>>

\* sub_select: cmd_extract, and the import of what it extracts.
Extract(n) ==
    /\ listed # Nothing /\ chosen = Nothing
    /\ n \in DOMAIN listed
    /\ listed[n].recognized
    /\ chosen' = listed[n]
    /\ UNCHANGED <<body, file, listed, config>>

Build ==
    /\ chosen # Nothing /\ config = Nothing
    /\ LET engine == IF chosen.kind = "link" THEN EngineForLink(chosen.link) ELSE "xraypool"
       IN config' = CASE engine = "xraypool" /\ Json!ProfileOk(chosen.profile) ->
                            [kind |-> "pool", out |-> Json!Overlaid(chosen.profile)]
                      [] engine \in {"xray", "singbox"} /\ Accepts(engine, chosen.link) ->
                            [kind |-> engine, out |-> Outbound(engine, chosen.link)]
                      [] OTHER -> Refused
    /\ UNCHANGED <<body, file, listed, chosen>>

SubNext == \/ FetchBody
           \/ Upgrade
           \/ Load
           \/ listed # Nothing /\ \E n \in DOMAIN listed : Extract(n)
           \/ Build
=============================================================================
