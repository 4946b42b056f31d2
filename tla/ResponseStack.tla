---- MODULE ResponseStack ----
(***************************************************************************)
(* What a client receives and what the log records: the response writers   *)
(* ghttp stacks around its handlers.  The handler writes to the policy     *)
(* writer, which writes to the status recorder, which writes to net/http;  *)
(* all of them share one header map until net/http sends it.               *)
(***************************************************************************)
EXTENDS Naturals, Sequences

CONSTANTS
    PolicyValues, \* the values header policies give
    MaxHints      \* bound on the informational responses of a backend

Names  == {"Server", "Connection", "Content-Type"}
Empty  == [n \in Names |-> << >>]
Hint   == 103
Finals == {200, 404, 500, 502}
Switching == 101

ASSUME HintsAssumption == MaxHints \in Nat
\* what HeadersForPath may resolve to
Policies == UNION {[named -> PolicyValues] : named \in SUBSET Names}
Sources  == {"files", "proxy", "upgrade"}

VARIABLES
    oneZero,  \* is the server configured for HTTP/1.0?
    policy,   \* the headers the policies resolve to for this path
    source,   \* who answers: "files", "proxy" or "upgrade"
    at,       \* where the request is, "idle" before the first
    header,   \* the header map of the response
    applied,  \* has the policy writer set its headers?
    recorded, \* the status the recorder holds
    sent,     \* the responses the client received
    hijacked, \* was the connection taken from net/http?
    logged    \* the status in the log, 0 when there is none yet

vars == <<oneZero, policy, source, at, header, applied, recorded, sent, hijacked, logged>>
request == <<oneZero, policy, source>>

\* No request has come yet.
Idle ==
    /\ oneZero \in BOOLEAN
    /\ source = "files"
    /\ at = "idle"
    /\ header = Empty
    /\ applied = FALSE
    /\ recorded = 200
    /\ sent = << >>
    /\ hijacked = FALSE
    /\ logged = 0

Init == Idle /\ policy \in Policies

\* Mutant: the recorder starts without a status.
ArriveUnset(resolved, answering) ==
    /\ at \in {"idle", "done", "aborted"}
    /\ policy' = resolved
    /\ source' = answering
    /\ at' = "headers"
    /\ header' = Empty
    /\ applied' = FALSE
    /\ recorded' = 0
    /\ sent' = << >>
    /\ hijacked' = FALSE
    /\ logged' = 0
    /\ UNCHANGED oneZero

\* The next request brings writers of its own.
Arrive(resolved, answering) ==
    /\ at \in {"idle", "done", "aborted"}
    /\ policy' = resolved
    /\ source' = answering
    /\ at' = "headers"
    /\ header' = Empty
    /\ applied' = FALSE
    /\ recorded' = 200
    /\ sent' = << >>
    /\ hijacked' = FALSE
    /\ logged' = 0
    /\ UNCHANGED oneZero

-----------------------------------------------------------------------------
(* Header maps and writers *)

Put(h, n, v) == [h EXCEPT ![n] = <<v>>]

\* httputil's copyHeader adds, it does not replace.
Added(h, more) == [n \in Names |-> h[n] \o more[n]]

\* a backend may name itself and its content; hop-by-hop headers are stripped
BackendHeaders == {[Empty EXCEPT !["Server"] = s, !["Content-Type"] = t] :
                       s \in {<< >>, <<"backend">>}, t \in {<< >>, <<"backend">>}}

\* Mutant: the policy adds its values instead of replacing the handler's.
WithPolicyAdded(h) ==
    IF applied THEN h
    ELSE [n \in Names |-> IF n \in DOMAIN policy THEN Append(h[n], policy[n]) ELSE h[n]]

\* applyHeaders, which acts once
WithPolicy(h) ==
    IF applied THEN h
    ELSE [n \in Names |-> IF n \in DOMAIN policy THEN <<policy[n]>> ELSE h[n]]

\* Mutant: the recorder keeps the first status.
WriteHeaderOnce(status, h, next) ==
    /\ header' = next
    /\ applied' = TRUE
    /\ recorded' = IF sent = << >> THEN status ELSE recorded
    /\ sent' = Append(sent, [status |-> status, header |-> WithPolicy(h)])

\* WriteHeader of the policy writer, then of the recorder, then of net/http; next is the
\* map the handler goes on with.
WriteHeader(status, h, next) ==
    /\ header' = next
    /\ applied' = TRUE
    /\ recorded' = status
    /\ sent' = Append(sent, [status |-> status, header |-> WithPolicy(h)])

\* Write without WriteHeader: net/http sends a 200 of its own, the recorder is not told.
WriteOnly(h) ==
    /\ header' = WithPolicy(h)
    /\ applied' = TRUE
    /\ sent' = Append(sent, [status |-> 200, header |-> WithPolicy(h)])
    /\ UNCHANGED recorded

\* http.Error
Error(status) == LET h == Put(header, "Content-Type", "local")
                 IN  WriteHeader(status, h, WithPolicy(h))

-----------------------------------------------------------------------------
(* The handlers *)

\* Mutant: the server names itself only to HTTP/1.0 clients.
WrapWithHeadersOneZero ==
    /\ at = "headers"
    /\ at' = "handler"
    /\ header' = IF oneZero THEN Put(Put(header, "Server", "ghttpd"), "Connection", "close")
                 ELSE header
    /\ UNCHANGED <<request, applied, recorded, sent, hijacked, logged>>

WrapWithHeaders ==
    /\ at = "headers"
    /\ at' = "handler"
    /\ header' = LET named == Put(header, "Server", "ghttpd")
                 IN  IF oneZero THEN Put(named, "Connection", "close") ELSE named
    /\ UNCHANGED <<request, applied, recorded, sent, hijacked, logged>>

\* The file pipeline answers, with a status or by writing at once.
AnswerFromFiles ==
    /\ at = "handler" /\ source = "files"
    /\ at' = "body"
    /\ LET h == Put(header, "Content-Type", "local") IN
       \/ \E status \in {200, 404} : WriteHeader(status, h, WithPolicy(h))
       \/ WriteOnly(h)
    /\ UNCHANGED <<request, hijacked, logged>>

\* The reverse proxy forwards an informational response, then clears the header map.
ForwardHint ==
    /\ at = "handler" /\ source = "proxy"
    /\ Len(sent) < MaxHints
    /\ \E more \in BackendHeaders : WriteHeader(Hint, Added(header, more), Empty)
    /\ UNCHANGED <<request, at, hijacked, logged>>

ForwardAnswer ==
    /\ at = "handler" /\ source = "proxy"
    /\ at' = "body"
    /\ \E status \in {200, 404}, more \in BackendHeaders :
          LET h == Added(header, more) IN WriteHeader(status, h, WithPolicy(h))
    /\ UNCHANGED <<request, hijacked, logged>>

\* the ErrorHandler of newRouteReverseProxy
BackendFails ==
    /\ at = "handler" /\ source = "proxy"
    /\ at' = "body"
    /\ Error(502)
    /\ UNCHANGED <<request, hijacked, logged>>

\* handleWebSocket, when the dial fails, or the connection cannot be taken
UpgradeFails ==
    /\ at = "handler" /\ source = "upgrade"
    /\ at' = "body"
    /\ \E status \in {500, 502} : Error(status)
    /\ UNCHANGED <<request, hijacked, logged>>

\* handleWebSocket takes the connection, ...
Hijack ==
    /\ at = "handler" /\ source = "upgrade"
    /\ at' = "relay"
    /\ hijacked' = TRUE
    /\ UNCHANGED <<request, header, applied, recorded, sent, logged>>

\* ... writes the backend's answer to it as it came, or gives up without an answer.
Relay ==
    /\ at = "relay"
    /\ at' = "return"
    /\ \/ \E status \in {Switching, 404}, h \in BackendHeaders :
             sent' = Append(sent, [status |-> status, header |-> h])
       \/ UNCHANGED sent
    /\ UNCHANGED <<request, header, applied, recorded, hijacked, logged>>

\* The body is written and flushed; the headers are gone already.
FinishBody ==
    /\ at = "body"
    /\ at' = "return"
    /\ UNCHANGED <<request, header, applied, recorded, sent, hijacked, logged>>

\* The reverse proxy panics when a backend breaks off its body: nothing is logged.
AbortBody ==
    /\ at = "body" /\ source = "proxy"
    /\ at' = "aborted"
    /\ UNCHANGED <<request, header, applied, recorded, sent, hijacked, logged>>

\* wrapWithLogging, after the handlers returned
LogCompleted ==
    /\ at = "return"
    /\ at' = "done"
    /\ logged' = recorded
    /\ UNCHANGED <<request, header, applied, recorded, sent, hijacked>>

Answer ==
    \/ WrapWithHeaders \/ AnswerFromFiles \/ ForwardHint \/ ForwardAnswer \/ BackendFails
    \/ UpgradeFails \/ Hijack \/ Relay \/ FinishBody \/ AbortBody \/ LogCompleted

Next == Answer \/ \E resolved \in Policies, answering \in Sources : Arrive(resolved, answering)

Spec == Init /\ [][Next]_vars

-----------------------------------------------------------------------------
(* Properties *)

TypeOK ==
    /\ oneZero \in BOOLEAN
    /\ policy \in Policies
    /\ at \in {"idle", "headers", "handler", "relay", "body", "return", "aborted", "done"}
    /\ header \in [Names -> Seq({"ghttpd", "close", "local", "backend"} \cup PolicyValues)]
    /\ {applied, hijacked} \subseteq BOOLEAN
    /\ recorded \in Finals \cup {Hint}
    /\ logged \in Finals \cup {0}
    /\ \A i \in 1..Len(sent) : sent[i].status \in Finals \cup {Hint, Switching}

Carries(response, n, v) == \E i \in 1..Len(response.header[n]) : response.header[n][i] = v

\* The first response net/http sends carries the policy's value of every header the policy
\* names, and no other value, whatever the handler set and however it wrote.
PolicyOnFirst ==
    sent # << >> /\ ~hijacked => \A n \in DOMAIN policy : sent[1].header[n] = <<policy[n]>>

\* The first response net/http sends names the server, and closes an HTTP/1.0 connection,
\* unless a policy speaks for that header.
ServerOnFirst ==
    sent # << >> /\ ~hijacked =>
        /\ "Server" \notin DOMAIN policy => Carries(sent[1], "Server", "ghttpd")
        /\ oneZero /\ "Connection" \notin DOMAIN policy => Carries(sent[1], "Connection", "close")

\* The status in the log is that of the response the client got last, whether it was
\* written, implied by a Write, or preceded by informational responses.  An upgrade that took
\* the connection is another matter: nothing tells the recorder of it, and it is logged with
\* the 200 the recorder began with, whatever the backend answered, or when nothing was.
LogMatchesWire ==
    at = "done" => IF hijacked THEN logged = 200
                   ELSE sent # << >> /\ logged = sent[Len(sent)].status
====
