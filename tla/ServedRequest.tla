---- MODULE ServedRequest ----
(***************************************************************************)
(* A server from its settings to the wire: the route tables decide about   *)
(* each request (RouteTables), the response writers answer it with what    *)
(* was decided (ResponseStack), one request of a connection after another. *)
(***************************************************************************)
EXTENDS RouteTables, ResponseStack

CONSTANT Followed \* bound: the settings whose requests are answered, not only decided

\* the values the server, its handlers and the backends give
OwnValues == {"ghttpd", "close", "local", "backend"}

\* Values that are told apart show who gave them.
ASSUME FollowedAssumption ==
    /\ Followed \subseteq Settings
    /\ \A s \in Followed : \A m \in ToSet(s.headers) :
          Canonical(m.name) \in Names /\ m.value \in PolicyValues
    /\ PolicyValues \cap OwnValues = {}

servedVars == <<tableVars, vars>>

ServedInit == TablesInit /\ Idle /\ policy = << >>

\* The handlers that may answer: the local files, or a backend, which the request may ask
\* to take over the connection.
Answering(backend) == IF backend = NoBackend THEN {"files"} ELSE {"proxy", "upgrade"}

ServeHTTP(path) ==
    /\ Request(path)
    /\ IF settings \in Followed
       THEN \E answering \in Answering(MatchRoute(path)) : Arrive(decision'.headers, answering)
       ELSE UNCHANGED vars

ServedNext ==
    \/ (Reject \/ Configure) /\ UNCHANGED vars
    \/ \E path \in Paths : ServeHTTP(path)
    \/ Answer /\ UNCHANGED tableVars

ServedSpec == ServedInit /\ [][ServedNext]_servedVars

-----------------------------------------------------------------------------
(* Properties *)

\* What reaches the client is what the settings say, in the first response net/http sends and
\* only there: of the mappings that name a header, one that speaks for the path among those
\* that spell it alike gives its only value, and no policy shows where none names it, whatever
\* order the tables were filled and applied in, whoever answered, and whatever earlier
\* requests of the connection resolved to.  No policy shows in what follows an informational
\* response, nor in the answer of a backend that took the connection.
WireFollowsSettings ==
    \A k \in 1..Len(sent), n \in Names :
        LET naming == Spelling(settings.headers, n) \cap Matching(settings.headers, decision.path)
        IN  IF k = 1 /\ ~hijacked /\ naming # {}
            THEN \E i \in naming :
                    /\ Speaks(settings.headers, Alike(settings.headers, i), decision.path, i)
                    /\ sent[1].header[n] = <<settings.headers[i].value>>
            ELSE \A v \in PolicyValues : ~Carries(sent[k], n, v)
====
