------------------------------ MODULE MCHelpers ------------------------------
(***************************************************************************)
(* A small instance of Helpers. The runner: a leader that may fork one     *)
(* child, each of which ignores nothing, TERM, or everything it can,       *)
(* a request whose memory limit one member respects while two may not,     *)
(* and one that is refused. The worker: two hosts, one of them on two      *)
(* ports, a URL that is refused and one that is malformed; DNS answers of  *)
(* up to two addresses, one of which is private; bodies of up to three     *)
(* chunks, of which two are accepted.                                      *)
(***************************************************************************)
EXTENDS Helpers

MCRequests == {[ok |-> TRUE, timeout |-> 1, memory |-> 2],
               [ok |-> FALSE, timeout |-> 0, memory |-> 0]}
MCIgnored == {{}, {"TERM"}, {"TERM", "INT", "HUP"}}

Url(host, port, form) == [host |-> host, port |-> port, form |-> form]
MCUrls == {Url("home", NoPort, "good"), Url("home", 443, "good"), Url("home", 8443, "good"),
           Url("other", NoPort, "good"), Url("other", 443, "refused"), Url("other", 99999, "malformed")}
MCAnswers == {<<>>, <<"private">>, <<"public", "public6">>, <<"public", "private">>}

Body(form, size, expands) == [form |-> form, size |-> size, expands |-> expands, trailing |-> FALSE]
MCBodies == {Body("plain", 0, 0), Body("plain", 2, 2), Body("plain", 3, 3),
             Body("gzip", 2, 2), Body("gzip", 1, 3), Body("zlib", 2, 2), Body("raw", 2, 2),
             [Body("gzip", 2, 2) EXCEPT !.trailing = TRUE]}

Ok(framing, length, enc, body) ==
    [status |-> "ok", to |-> NoUrl, length |-> length, framing |-> framing, enc |-> enc, body |-> body]
Other(status, to) == [Ok("close", NoLength, "identity", Body("plain", 0, 0)) EXCEPT !.status = status, !.to = to]

MCResponses ==
    {Other("redirect", to) : to \in MCUrls \cup {NoUrl}}
    \cup {Ok("close", NoLength, e, b) : e \in {"identity", "gzip", "deflate"}, b \in MCBodies}
    \cup {Ok("chunked", NoLength, e, Body("gzip", 2, 2)) : e \in {"identity", "gzip", "other"}}
    \cup {Ok("length", b.size, e, b) : e \in {"identity", "deflate"}, b \in MCBodies}
    \cup {Ok("close", Invalid, "identity", Body("plain", 2, 2)),
          Ok("chunked", 1, "identity", Body("plain", 2, 2))}
=============================================================================
