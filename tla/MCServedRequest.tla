---- MODULE MCServedRequest ----
(* Small instances of ServedRequest for TLC. *)
EXTENDS ServedRequest

SmallSegments == {"/", "a", "b", "c", "d"}
A  == <<"/", "a">>
AB == <<"/", "a", "b">>
C  == <<"/", "c">>
\* a prefix of another, a sibling of equal length, and one without its slash
MappedPrefixes == {Slash, A, AB, C, <<"a">>}
SmallPaths == {NoPath, Slash, A, AB, C, <<"/", "a", "b", "c">>, <<"/", "d">>}

Mappings(S, n) == UNION {[1..k -> S] : k \in 0..n}
Proxy     == [prefix : MappedPrefixes, backend : {"one", "two"}]
Streaming == [prefix : MappedPrefixes, unbuffered : BOOLEAN]
Legacy    == [prefix : {NoPath, A}, backend : {NoBackend, "one"}]
NoLegacy  == [prefix |-> NoPath, backend |-> NoBackend]
Header    == [prefix : MappedPrefixes, name : {"content-type", "Server"}, value : {"x", "y"}]

\* proxies in any order, with and without a legacy pair; no other table
ProxySettings ==
    [proxies : Mappings(Proxy, 3), legacy : Legacy, streaming : {<< >>}, headers : {<< >>}]
\* streaming modes of one route at the root
StreamingSettings ==
    [proxies : {<< >>}, legacy : {NoLegacy}, streaming : Mappings(Streaming, 4), headers : {<< >>}]
\* header policies, two names
HeaderSettings ==
    [proxies : {<< >>}, legacy : {NoLegacy}, streaming : {<< >>},
     headers : Mappings(Header, 3)]

\* One route, and header policies at the root and below it, in any order, of two headers or of
\* one in two spellings: these requests are answered to the end.
Nested    == [prefix : {Slash, A}, name : {"content-type", "Server"}, value : {"x", "y"}]
Respelled == [prefix : {Slash, A}, name : {"content-type", "Content-Type"}, value : {"x", "y"}]
FollowedSettings ==
    [proxies : {<<[prefix |-> A, backend |-> "one"]>>}, legacy : {NoLegacy},
     streaming : {<< >>}, headers : Mappings(Nested, 2) \cup Mappings(Respelled, 2)]

AllSettings == ProxySettings \cup StreamingSettings \cup HeaderSettings \cup FollowedSettings

CanonicalName(n) == IF n = "content-type" THEN "Content-Type" ELSE n
====
