------------------------------- MODULE Fetch --------------------------------
(***************************************************************************)
(* The fetch of a subscription by src/src/mksub.py: cmd_fetch, fetch_url   *)
(* and _https_get, against a provider that may redirect, answer from any   *)
(* address, close early, mislabel its body, or send one byte at a time.    *)
(*                                                                         *)
(* A step is what the worker does between two calls that wait for the      *)
(* network, and time passes only while it waits. A chunk of the body is a  *)
(* unit of size. PROXY_UNIFI_SUB_ALLOW_PRIVATE, for the tests, is not set. *)
(***************************************************************************)
EXTENDS Naturals, Sequences, FiniteSets

CONSTANTS Urls,         \* [host, port, form]; form is "good", "refused" or "malformed"
          NoPort,       \* the port of a URL that names none
          NoUrl,        \* a redirect without a Location header
          Answers,      \* what DNS may answer: sequences of addresses
          Addresses,
          Public,       \* the globally routable ones
          Responses,    \* what a server may answer, see ResponsesAssumption
          NoLength, Invalid, \* no Content-Length header, or one that is no number
          NoAnswer,     \* no response yet
          MaxRedirects, Timeout, Deadline,
          MaxBytes,     \* cap of a body, before and after decompression
          MaxRatio      \* cap of its expansion

Bodies == [form: {"plain", "gzip", "zlib", "raw"}, size: Nat, expands: Nat, trailing: BOOLEAN]
ResponseType == [status: {"ok", "redirect"}, to: Urls \cup {NoUrl},
                 length: Nat \cup {NoLength, Invalid},
                 framing: {"length", "chunked", "close"},
                 enc: {"identity", "gzip", "deflate", "other"}, body: Bodies]

\* int(DEADLINE * 1.5) + 1
AlarmAt == (Deadline * 3) \div 2 + 1

ASSUME UrlsAssumption == /\ \A u \in Urls : u.form \in {"good", "refused", "malformed"}
                         /\ NoUrl \notin Urls
ASSUME AddressesAssumption == Public \subseteq Addresses /\ Answers \subseteq Seq(Addresses)
\* The framing is http.client's reading of the headers of the same response;
\* a body that ends before its declared length is one cut on its way.
ASSUME ResponsesAssumption ==
    /\ Responses \subseteq ResponseType
    /\ {NoLength, Invalid} \cap Nat = {}
    /\ NoAnswer \notin Responses
    /\ \A r \in Responses : r.framing = "length" => r.length = r.body.size
    /\ \A r \in Responses : r.framing = "close" => r.length \in {NoLength, Invalid}
ASSUME LimitsAssumption == /\ {MaxRedirects, MaxBytes, MaxRatio} \subseteq Nat
                           /\ {Timeout, Deadline} \subseteq Nat \ {0}

VARIABLES at,      \* the call the worker waits in, or where it is between
          asked,   \* the subscription's URL
          url,     \* cur, the one of this request
          gets,    \* requests made
          addrs,   \* validated addresses still to try, the current one first
          peer,    \* the address of the connection
          told,    \* the origins that were sent the HWID (history)
          resp,    \* the response being read
          got,     \* size of what was read of its body
          clock,   \* time since cmd_fetch began
          budget,  \* the socket's timeout
          armed    \* when the call that waits times out

hop == <<asked, url, gets>>
link == <<addrs, peer>>
time == <<clock, budget, armed>>
fetchVars == <<at, hop, link, told, resp, got, time>>

Nobody == "nobody"
Waiting == {"resolve", "connect", "tls", "request", "body"}
Over == {"accepted", "failed"}

Origin(u) == <<u.host, IF u.port = NoPort THEN 443 ELSE u.port>>

FetchInit == /\ asked \in Urls
             /\ at = "begin"
             /\ url = asked
             /\ gets = 0
             /\ addrs = <<>>
             /\ peer = Nobody
             /\ told = {}
             /\ resp = NoAnswer
             /\ got = 0
             /\ clock = 0
             /\ budget = Timeout
             /\ armed = 0
-----------------------------------------------------------------------------
GiveUp == at' = "failed" /\ UNCHANGED time

\* A slip of Await: the remaining time is taken as it is.
AwaitAnyway(call) ==
    /\ at' = call
    /\ budget' = IF Deadline - clock < Timeout THEN Deadline - clock ELSE Timeout
    /\ armed' = clock + budget'
    /\ UNCHANGED clock

\* _remaining, settimeout, and the call that waits.
Await(call) ==
    IF clock >= Deadline
    THEN GiveUp
    ELSE /\ at' = call
         /\ budget' = IF Deadline - clock < Timeout THEN Deadline - clock ELSE Timeout
         /\ armed' = clock + budget'
         /\ UNCHANGED clock

\* Another turn of fetch_url's loop.
Visit(u) == /\ IF u.form = "good" /\ gets <= MaxRedirects THEN Await("resolve") ELSE GiveUp
            /\ url' = u
            /\ gets' = gets + 1
            /\ UNCHANGED asked

Begin == /\ at = "begin"
         /\ Visit(asked)
         /\ UNCHANGED <<link, told, resp, got>>

\* A slip of Safe: it looks at the first address only.
SafeFirst(answer) == answer # <<>> /\ answer[1] \in Public

\* _public_ips: one address that is not public spoils the whole answer.
Safe(answer) == answer # <<>> /\ \A i \in DOMAIN answer : answer[i] \in Public

Resolved == /\ at = "resolve"
            /\ \E answer \in Answers :
                  /\ addrs' = answer
                  /\ IF Safe(answer) THEN Await("connect") ELSE GiveUp
            /\ UNCHANGED <<hop, peer, told, resp, got>>

ResolveFails == /\ at = "resolve"
                /\ GiveUp
                /\ UNCHANGED <<hop, link, told, resp, got>>

\* The connection is to the address that was checked, not to the name.
Connected == /\ at = "connect"
             /\ peer' = Head(addrs)
             /\ Await("tls")
             /\ UNCHANGED <<hop, addrs, told, resp, got>>

\* connect or the handshake fails, or takes too long.
NextAddress == /\ at \in {"connect", "tls"}
               /\ addrs' = Tail(addrs)
               /\ peer' = Nobody
               /\ IF addrs' = <<>> THEN GiveUp ELSE Await("connect")
               /\ UNCHANGED <<hop, told, resp, got>>

\* A slip of SameOrigin: any port of the host will do.
SameHost == url.host = asked.host

SameOrigin == Origin(url) = Origin(asked)

\* The handshake is done; the request goes out.
Secured == /\ at = "tls"
           /\ Await("request")
           /\ told' = IF at' = "request" /\ SameOrigin THEN told \cup {Origin(url)} ELSE told
           /\ UNCHANGED <<hop, link, resp, got>>

LengthOk(r) == \/ r.length = NoLength
               \/ r.length # Invalid /\ r.length <= MaxBytes

Redirected == /\ at = "request"
              /\ \E r \in Responses :
                    /\ r.status = "redirect"
                    /\ IF r.to = NoUrl THEN GiveUp /\ UNCHANGED hop ELSE Visit(r.to)
              /\ peer' = Nobody
              /\ UNCHANGED <<addrs, told, resp, got>>

\* A body of length 0 is complete before anything is read.
Answered == /\ at = "request"
            /\ \E r \in Responses :
                  /\ r.status = "ok"
                  /\ resp' = r
                  /\ CASE ~LengthOk(r) -> GiveUp
                       [] LengthOk(r) /\ r.framing = "length" /\ r.length = 0 ->
                             at' = "decode" /\ UNCHANGED time
                       [] OTHER -> Await("body")
            /\ got' = 0
            /\ UNCHANGED <<hop, link, told>>

\* An error, a status that is neither, or the timeout.
RequestFails == /\ at = "request"
                /\ GiveUp
                /\ UNCHANGED <<hop, link, told, resp, got>>

\* Whether http.client closes the response by itself after n units.
Closed(n) == resp.framing = "length" /\ n = resp.length

\* A slip of ReadChunk: the time is looked at before a read only.
ReadChunkLate == /\ at = "body"
                 /\ got < resp.body.size
                 /\ ~Closed(got)
                 /\ got' = got + 1
                 /\ CASE got' > MaxBytes -> GiveUp
                      [] got' <= MaxBytes /\ Closed(got') -> at' = "decode" /\ UNCHANGED time
                      [] OTHER -> Await("body")
                 /\ UNCHANGED <<hop, link, told, resp>>

ReadChunk == /\ at = "body"
             /\ got < resp.body.size
             /\ ~Closed(got)
             /\ got' = got + 1
             /\ CASE got' > MaxBytes \/ clock >= Deadline -> GiveUp
                  [] got' <= MaxBytes /\ clock < Deadline /\ Closed(got') ->
                        at' = "decode" /\ UNCHANGED time
                  [] OTHER -> Await("body")
             /\ UNCHANGED <<hop, link, told, resp>>

\* read1 returns nothing: all was read, or the provider closed the connection
\* early, which only a chunked body betrays at once.
BodyEnds == /\ at = "body"
            /\ IF clock >= Deadline \/ (resp.framing = "chunked" /\ got < resp.body.size)
               THEN GiveUp
               ELSE at' = "decode" /\ UNCHANGED time
            /\ UNCHANGED <<hop, link, told, resp, got>>

ReadFails == /\ at = "body"
             /\ GiveUp
             /\ UNCHANGED <<hop, link, told, resp, got>>

\* A slip of Inflates: the end of the stream is not asked for.
InflatesSome(form) == /\ resp.body.form = form
                      /\ resp.body.expands <= MaxBytes
                      /\ resp.body.expands <= got * MaxRatio

\* _inflate of what was read, as data of this form.
Inflates(form) == /\ resp.body.form = form
                  /\ got = resp.body.size /\ ~resp.body.trailing
                  /\ resp.body.expands <= MaxBytes
                  /\ resp.body.expands <= got * MaxRatio

\* "deflate" is zlib data or, if that is no zlib header, raw deflate.
Decodes == CASE resp.enc = "identity" -> TRUE
             [] resp.enc = "gzip" -> Inflates("gzip")
             [] resp.enc = "deflate" -> Inflates("zlib") \/ Inflates("raw")
             [] OTHER -> FALSE

Decode == /\ at = "decode"
          /\ at' = IF resp.length \in {NoLength, got} /\ Decodes THEN "process" ELSE "failed"
          /\ peer' = Nobody
          /\ UNCHANGED <<hop, addrs, told, resp, got, time>>

\* process_body finds nodes in it or not; the alarm is off by now.
Process == /\ at = "process"
           /\ at' \in Over
           /\ UNCHANGED <<hop, link, told, resp, got, time>>
-----------------------------------------------------------------------------
(* Time *)

\* A header or a chunk size that comes byte by byte restarts the timeout.
Trickle == /\ \/ at = "request"
              \/ at = "body" /\ resp.framing = "chunked"
           /\ armed # clock + budget
           /\ armed' = clock + budget
           /\ UNCHANGED <<at, hop, link, told, resp, got, clock, budget>>

TimesOut == /\ at \in Waiting
            /\ clock >= armed
            /\ IF at \in {"connect", "tls"} THEN NextAddress
               ELSE GiveUp /\ UNCHANGED <<hop, link, told, resp, got>>

\* A slip of Rings: no alarm is set.
NeverRings == FALSE /\ UNCHANGED fetchVars

\* SIGALRM ends whatever waits.
Rings == /\ at \in Waiting
         /\ clock >= AlarmAt
         /\ GiveUp
         /\ UNCHANGED <<hop, link, told, resp, got>>

TimePasses == /\ at \in Waiting
              /\ clock < armed /\ clock < AlarmAt
              /\ clock' = clock + 1
              /\ UNCHANGED <<at, hop, link, told, resp, got, budget, armed>>

FetchNext == \/ Begin \/ Resolved \/ ResolveFails
             \/ Connected \/ NextAddress \/ Secured
             \/ Redirected \/ Answered \/ RequestFails
             \/ ReadChunk \/ BodyEnds \/ ReadFails
             \/ Decode \/ Process
             \/ Trickle \/ TimesOut \/ Rings \/ TimePasses

FetchSpec == FetchInit /\ [][FetchNext]_fetchVars

\* The worker runs, and timers fire. Nothing is asked of the provider.
GoesOn == Begin \/ Decode \/ Process \/ TimesOut \/ Rings \/ TimePasses

FetchFairSpec == FetchSpec /\ WF_fetchVars(GoesOn)
-----------------------------------------------------------------------------
(* Properties *)

FetchTypeOK ==
    /\ at \in {"begin", "decode", "process"} \cup Waiting \cup Over
    /\ asked \in Urls /\ url \in Urls
    /\ gets \in 0 .. MaxRedirects + 2
    /\ addrs \in Seq(Addresses)
    /\ at \in {"connect", "tls"} => addrs # <<>>
    /\ peer \in Addresses \cup {Nobody}
    /\ told \subseteq {Origin(u) : u \in Urls}
    /\ resp \in Responses \cup {NoAnswer}
    /\ at \in {"body", "decode", "process", "accepted"} => resp # NoAnswer /\ resp.status = "ok"
    /\ got \in Nat
    /\ clock \in 0 .. AlarmAt
    /\ budget \in 1 .. Timeout
    /\ armed \in 0 .. AlarmAt + Timeout

\* The HWID, which identifies the user to the provider, is sent to the origin
\* of the subscription only, whatever chain of redirects leads away from it
\* and back. (mksub.py 803-804, 911-917.)
HwidStaysHome == told \subseteq {Origin(asked)}

\* The worker, which runs as root inside the network it must not be turned
\* against, talks to public addresses only, at every hop and at every retry,
\* although DNS may answer differently each time. (mksub.py 688-735, 762-766.)
OnlyPublic == peer # Nobody => peer \in Public

\* A fetch speaks to nobody, and says nothing to anybody, that it should not,
\* nor does it wait for a time that is past.
TalksToTheRight == FetchTypeOK /\ HwidStaysHome /\ OnlyPublic

\* An answer that is processed is all that the provider sent, wherever the
\* connection broke and however the body was framed and encoded. An
\* uncompressed body that only the end of the connection delimits is the one
\* whose truncation nothing can tell. (mksub.py 829-846, 863-900.)
AcceptedIsWhole ==
    /\ at \in {"process", "accepted"}
    /\ ~(resp.framing = "close" /\ resp.enc = "identity")
    => got = resp.body.size

\* A body of which anything was read was read before the deadline, although
\* the socket's own timeout restarts with each call. (mksub.py 829-842.)
InTime == at \in {"decode", "process", "accepted"} /\ got > 0 => clock < Deadline

\* The fetch ends, whatever the provider does: it holds the operation lock of
\* the command that waits for it. (mksub.py 949-953.)
Ends == <>(at \in Over)

\* Of the two clocks, the deadline bounds the body and the alarm the rest.
EndsInTime == []InTime /\ Ends
=============================================================================
