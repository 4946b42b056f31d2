---- MODULE RouteTables ----
(***************************************************************************)
(* The three route tables ghttp builds from its settings before it serves  *)
(* (reverse proxy routes, proxy streaming policies, response header        *)
(* policies) and what they decide about a request.                         *)
(*                                                                         *)
(* A path is a sequence: only its length and its prefixes matter.  Go maps *)
(* are iterated in an order the runtime picks, so every loop over one is a *)
(* choice among all the orders.                                            *)
(***************************************************************************)
EXTENDS Naturals, FiniteSets, Sequences, SequencesExt

CONSTANTS
    Segments,    \* what paths and prefixes are made of
    Settings,    \* the settings to consider
    Paths,       \* the request paths to consider
    Canonical(_) \* the form in which net/http stores a header name

Slash     == <<"/">>
NoPath    == << >>
NoBackend == "no backend"

\* a path need not start with a slash: the target of a request may be a host alone
ASSUME PathsAssumption == Paths \subseteq Seq(Segments)

\* a list of mappings, each of a prefix
IsMappings(mappings) ==
    /\ mappings \in Seq(ToSet(mappings))
    /\ \A m \in ToSet(mappings) : m.prefix \in Seq(Segments)

ASSUME SettingsAssumption == \A s \in Settings :
    /\ IsMappings(s.proxies) /\ IsMappings(s.streaming) /\ IsMappings(s.headers)
    /\ s.legacy.prefix \in Seq(Segments)
    /\ \A m \in ToSet(s.streaming) : m.unbuffered \in BOOLEAN

VARIABLES
    settings,          \* the mappings the server was started with
    phase,             \* "starting", "serving" or "rejected"
    proxyRoutes,       \* prefix and backend, in the order they are tried
    streamingPolicies, \* prefix and mode, in the order they are tried
    responsePolicies,  \* prefix and headers, in the order they are applied
    decision           \* what was decided about the last request: path, backend, unbuffered, headers

tableVars == <<settings, phase, proxyRoutes, streamingPolicies, responsePolicies, decision>>

Undecided == << >>

TablesInit ==
    /\ settings \in Settings
    /\ phase = "starting"
    /\ proxyRoutes = << >>
    /\ streamingPolicies = << >>
    /\ responsePolicies = << >>
    /\ decision = Undecided

-----------------------------------------------------------------------------
(* Sorting *)

Longer(a, b) == Len(a.prefix) > Len(b.prefix)

\* Mutant: nothing is sorted.
Unsorted(entries, before) == entries

\* Mutant: sorted the other way round.
SortedBackwards(entries, before) ==
    LET Place(i) == 1 + Cardinality({j \in DOMAIN entries :
            <<i, j>> \in before \/ (<<j, i>> \notin before /\ j < i)})
    IN  [k \in DOMAIN entries |-> entries[CHOOSE i \in DOMAIN entries : Place(i) = k]]

\* sort.SliceStable: an entry comes after those before it and after the equal ones that
\* already preceded it; "before" holds the pairs of indices less() is true of.
Sorted(entries, before) ==
    LET Place(i) == 1 + Cardinality({j \in DOMAIN entries :
            <<j, i>> \in before \/ (<<i, j>> \notin before /\ j < i)})
    IN  [k \in DOMAIN entries |-> entries[CHOOSE i \in DOMAIN entries : Place(i) = k]]

Pairs(entries) == (DOMAIN entries) \X (DOMAIN entries)

LongestFirst(entries) ==
    Sorted(entries, {p \in Pairs(entries) : Longer(entries[p[1]], entries[p[2]])})
ShortestFirst(entries) ==
    Sorted(entries, {p \in Pairs(entries) : Longer(entries[p[2]], entries[p[1]])})

-----------------------------------------------------------------------------
(* Parsing the mappings *)

WellFormed(prefix) == IsPrefix(Slash, prefix)
AllWellFormed(mappings) == \A i \in DOMAIN mappings : WellFormed(mappings[i].prefix)
HasDuplicates(mappings) ==
    \E i, j \in DOMAIN mappings : i < j /\ mappings[i].prefix = mappings[j].prefix

\* resolveProxyRoutes: repeatable mappings, or the legacy pair, or none.
HasLegacy == settings.legacy.prefix # NoPath \/ settings.legacy.backend # NoBackend

ProxiesAccepted ==
    IF settings.proxies # << >>
    THEN ~HasLegacy /\ AllWellFormed(settings.proxies) /\ ~HasDuplicates(settings.proxies)
    ELSE HasLegacy => /\ settings.legacy.backend # NoBackend
                      /\ WellFormed(settings.legacy.prefix)

NewProxyRoutes ==
    IF settings.proxies # << >> THEN LongestFirst(settings.proxies)
    ELSE IF HasLegacy THEN <<settings.legacy>> ELSE << >>

\* Mutant: a list instead of a map, a prefix may be there in both modes.
PolicyByPathPrefixListed(mappings) == ToSet(mappings)

\* The map NewProxyStreamingPolicies fills: a later mapping of a prefix replaces an earlier one.
PolicyByPathPrefix(mappings) ==
    {mappings[i] : i \in {k \in DOMAIN mappings :
        \A j \in DOMAIN mappings : j > k => mappings[j].prefix # mappings[k].prefix}}

\* The map of maps NewRouteResponsePolicies fills.
HeadersByPathPrefix(mappings) ==
    LET Of(p)       == {i \in DOMAIN mappings : mappings[i].prefix = p}
        Named(p, n) == {i \in Of(p) : mappings[i].name = n}
    IN  {[prefix  |-> p,
          headers |-> [n \in {mappings[i].name : i \in Of(p)} |-> mappings[Max(Named(p, n))].value]] :
             p \in {mappings[i].prefix : i \in DOMAIN mappings}}

-----------------------------------------------------------------------------
(* prepareServeConfiguration resolves the tables, or the command fails *)

Reject ==
    /\ phase = "starting"
    /\ ~(/\ ProxiesAccepted
         /\ AllWellFormed(settings.streaming)
         /\ AllWellFormed(settings.headers))
    /\ phase' = "rejected"
    /\ UNCHANGED <<settings, proxyRoutes, streamingPolicies, responsePolicies, decision>>

Configure ==
    /\ phase = "starting"
    /\ ProxiesAccepted
    /\ AllWellFormed(settings.streaming)
    /\ AllWellFormed(settings.headers)
    /\ phase' = "serving"
    /\ proxyRoutes' = NewProxyRoutes
    /\ \E order \in SetToSeqs(PolicyByPathPrefix(settings.streaming)) :
          streamingPolicies' = LongestFirst(order)
    /\ \E order \in SetToSeqs(HeadersByPathPrefix(settings.headers)) :
          responsePolicies' = ShortestFirst(order)
    /\ UNCHANGED <<settings, decision>>

-----------------------------------------------------------------------------
(* What the tables decide *)

Matching(table, path) == {i \in DOMAIN table : IsPrefix(table[i].prefix, path)}

\* the first route that matches
MatchRoute(path) ==
    LET matching == Matching(proxyRoutes, path)
    IN  IF matching = {} THEN NoBackend ELSE proxyRoutes[Min(matching)].backend

\* Mutant: any unbuffered policy on the way to the path is enough.
IsUnbufferedAny(path) ==
    \E i \in Matching(streamingPolicies, path) : streamingPolicies[i].unbuffered

\* the first policy that matches
IsUnbuffered(path) ==
    LET matching == Matching(streamingPolicies, path)
    IN  matching # {} /\ streamingPolicies[Min(matching)].unbuffered

\* Mutant: only the policy of the nearest prefix counts.
HeadersForPathNearest(path) ==
    LET matching == Matching(responsePolicies, path)
    IN  IF matching = {} THEN << >> ELSE responsePolicies[Max(matching)].headers

\* Every matching policy writes its headers over those before: the last that names one has it.
HeadersForPath(path) ==
    LET matching  == Matching(responsePolicies, path)
        Naming(n) == {i \in matching : n \in DOMAIN responsePolicies[i].headers}
    IN  [n \in UNION {DOMAIN responsePolicies[i].headers : i \in matching} |->
            responsePolicies[Max(Naming(n))].headers[n]]

\* applyHeaders: one Set per resolved name, in the map's order; names that net/http
\* stores in the same form overwrite each other.
Applied(resolved, order) ==
    LET Variants(c) == {i \in DOMAIN order : Canonical(order[i]) = c}
    IN  [c \in {Canonical(n) : n \in DOMAIN resolved} |-> resolved[order[Max(Variants(c))]]]

Request(path) ==
    /\ phase = "serving"
    /\ LET resolved == HeadersForPath(path) IN
       \E order \in SetToSeqs(DOMAIN resolved) :
          decision' = [path       |-> path,
                       backend    |-> MatchRoute(path),
                       unbuffered |-> IsUnbuffered(path),
                       headers    |-> Applied(resolved, order)]
    /\ UNCHANGED <<settings, phase, proxyRoutes, streamingPolicies, responsePolicies>>

TablesNext == Reject \/ Configure \/ \E path \in Paths : Request(path)

TablesSpec == TablesInit /\ [][TablesNext]_tableVars

-----------------------------------------------------------------------------
(* Properties *)

\* Every table is one the settings can give, every decision is about a known path.
TablesTypeOK ==
    /\ settings \in Settings
    /\ phase \in {"starting", "serving", "rejected"}
    /\ decision # Undecided => decision.path \in Paths /\ decision.unbuffered \in BOOLEAN
    /\ ToSet(proxyRoutes) \subseteq ToSet(settings.proxies) \cup {settings.legacy}
    /\ ToSet(streamingPolicies) \subseteq ToSet(settings.streaming)
    /\ \A i, j \in DOMAIN streamingPolicies :
          streamingPolicies[i].prefix = streamingPolicies[j].prefix => i = j

\* Of some of the mappings the one that speaks for a path: the longest prefix of it, and the
\* last of those.
Speaks(mappings, among, path, i) ==
    /\ i \in among /\ IsPrefix(mappings[i].prefix, path)
    /\ \A j \in among : IsPrefix(mappings[j].prefix, path) =>
          \/ Longer(mappings[i], mappings[j])
          \/ ~Longer(mappings[j], mappings[i]) /\ j <= i

Decided == decision # Undecided

\* A request goes to the backend of the longest mapped prefix of its path, and to the local
\* files exactly when no mapping is a prefix of it: whatever the order of the settings.
RoutedToLongestPrefix ==
    Decided => LET mappings == IF settings.proxies # << >> THEN settings.proxies
                               ELSE IF HasLegacy THEN <<settings.legacy>> ELSE << >>
               IN  IF Matching(mappings, decision.path) = {} THEN decision.backend = NoBackend
                   ELSE \E i \in DOMAIN mappings :
                           /\ Speaks(mappings, DOMAIN mappings, decision.path, i)
                           /\ decision.backend = mappings[i].backend

\* A response is flushed at once exactly when the mapping that speaks for its path says so:
\* a "buffered" exception below an "unbuffered" prefix holds, whatever the map's order.
StreamedAsMapped ==
    Decided => (decision.unbuffered <=>
        \E i \in DOMAIN settings.streaming :
            /\ Speaks(settings.streaming, DOMAIN settings.streaming, decision.path, i)
            /\ settings.streaming[i].unbuffered)

\* the mappings of header c, in any spelling, and those that spell it as mapping i does
Spelling(mappings, c) == {i \in DOMAIN mappings : Canonical(mappings[i].name) = c}
Alike(mappings, i) == {j \in DOMAIN mappings : mappings[j].name = mappings[i].name}

\* A header is set by the mapping that speaks for the path among those that spell it alike:
\* "more specific prefixes override broader ones".  Of two spellings of one header either may
\* win, a less specific one too, for both are names of their own until they are applied.
MostSpecificHeader ==
    Decided => \A c \in DOMAIN decision.headers :
        \E i \in Spelling(settings.headers, c) :
            /\ Speaks(settings.headers, Alike(settings.headers, i), decision.path, i)
            /\ decision.headers[c] = settings.headers[i].value
====
