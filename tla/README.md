# ghttp: a verification project

TLA+ models of `ghttp`, a static file server with dynamic development HTTPS, Markdown
rendering, directory browsing and a reverse proxy, with the TLC runs that check them and the
proofs TLAPS checks. `PROJECT.json` is the machine-readable index (components, runs, mutants,
source map, findings, hazards, theorems). Source paths are relative to `src/`.

## Inventory

| Component | State | Operations | Hard behaviour | What makes it correct |
| --- | --- | --- | --- | --- |
| Dynamic HTTPS lifecycle (`internal/app/https_commands.go`, `serve_command.go`) | phase of a run; everything else is on the disk and in the trust store | setup, serve, uninstall | kills between any two steps, failing commands, two instances over one directory | what is served is trusted, a pair, and made for this run's hosts; a finished uninstall leaves nothing |
| CA manager, certificate issuer (`internal/certificates`) | two PEM files each | load, rotate, generate, persist | torn files, stale files, two files that must match | reuse only what is still right |
| Trust store installers for Linux, macOS, Windows, and the Firefox integration they share (`internal/certificates/truststore`) | the system's store, the anchor copy, the profiles' NSS databases and `user.js` | install, uninstall | commands that fail half way, two programs named certutil, profiles that come and go, a user's file rewritten in two steps | success means the system's store is as asked for and profiles are dealt with as far as they were found; users' lines stay; nothing stays trusted without the files to remove it by |
| File server runtime (`internal/server/file_server.go`) | HTTP server, two goroutines, a context, two channels | serve, shut down | signals, listener failures and requests at the same time | always stops; a clean stop cuts no request |
| Request pipeline (`initial_file_handler.go`, `browse_handler.go`, `markdown_handler.go`) | none of its own; the site on the disk | one handler after the other | handler order, redirects, edits between two opens | the documented answer, and an answer at all |
| Proxy routes, streaming and response policies (`proxy_routes.go`, `proxy_streaming_policies.go`, `route_response_policies.go`) | three sorted tables | build, look up | map iteration order, nested prefixes | the most specific mapping decides |
| Response writers (`route_response_policy_handler.go`, `file_server.go`) | header map, applied flag, recorded status | WriteHeader, Write, Flush, Hijack | informational responses, implied statuses, hijacks | the first response has the promised headers, the log has the status of the last |
| WebSocket relay (`proxy_handler.go`) | two connections, two goroutines, one channel | dial, hijack, forward, copy, close | early bytes, a peer that leaves, stays silent or stops reading | no byte skipped, no goroutine left behind, no half-open relay |
| Command line and configuration (`application.go`, `root_command.go`, `serve_command.go`) | sources of settings, the configuration, the logger, the exit status | boot, parse, load, prepare, serve, exit | settings read at different moments, signals in any phase, two errors at once | documented precedence; a signal ends it; status 0 means a clean end |
| Logging service (`pkg/logging`) | its type | create, replace, log | none beyond the moment it is replaced | the type is the configured one |
| Markdown rendering, address formatting | none | pure functions | none that a model checker adds to | not modelled |

Interaction: the command prepares a configuration (route tables included), then either serves
directly or runs the HTTPS lifecycle around the server runtime. The lifecycle calls the issuer,
the CA manager and the trust store installer of the platform, which calls the Firefox
integration. The runtime hands each request through logging, policy writer and header wrapper to
the proxy handler, which relays, proxies or passes on to the file pipeline.

## Modules

| Module | Models | Correspondence |
| --- | --- | --- |
| `HttpsLifecycle` | the whole of `serveWithDynamicHTTPS` for several instances | `at[p]` is the next file operation or command of process `p`, named by what it does to which file; `held[p]` is what the process has in memory; `disk`, `trust` and `certs` are shared. One action per file operation, command or return. A write is two steps (truncate, fill), because `os.WriteFile` is. |
| `TlsSession` | what the lifecycle promises the machine, without files and steps | refined by `HttpsLifecycle` for one instance (`ImplementsSession`) |
| `RequestPipeline` | `buildFileHandler`'s chain and a client that follows redirects | one action per handler decision; `site` may be edited between any two |
| `RouteTables` | the three tables | paths are sequences, a map iteration is a choice among all orders, `sort.SliceStable` is the operator `Sorted` |
| `ResponseStack` | the stack of response writers, one request of a connection after another | the shared header map is `header`; `sent` is what the client gets, response by response |
| `ServedRequest` | `RouteTables` and `ResponseStack` composed: what the tables decide is what the writers are given | a request is one step of both; who may answer depends on the route |
| `ServerRuntime` | `Serve` and `createSignalContext` | main, watcher and serving goroutine and each connection are separate processes; the channels hold one element as in the code |
| `GhttpProcess` | one run from `Execute` to its exit status, around `ServerRuntime` | `phase` is where `Execute` is; `given` is what flags, environment and file give; provisioning is one step here and `HttpsLifecycle` in detail |
| `TrustInstallers` | `Install` and `Uninstall` of every platform with the Firefox integration, call after call | `at` is the next command or file operation; the loops over profiles visit them one by one; `user.js` is truncated and filled in two steps |
| `TrustChange` | what an installer promises its caller, without platforms and profiles' insides | refined by `TrustInstallers` (`ImplementsTrustChange`) |
| `WebSocketRelay` | `handleWebSocket` | the handler, two copiers and two peers; a stream is a sequence of numbered chunks |
| `...Proofs` | theorems about the module of that name; `HttpsSingleInstanceProofs` about one instance of `HttpsLifecycle`, `GhttpProcessProofs` also about `ServerRuntime`, `ServedRequestProofs` also about `RouteTables` | see Proofs |
| `MC...` | constants for TLC | |

A certificate is its key's name with signer, hosts and a `due` flag; names nobody refers to are
used again, so runs may follow one another without end in a finite model. RSA, PEM and dates
are reduced to: a torn file does not parse; `x509.CreateCertificate` refuses a CA key that is not
the CA certificate's; `tls.X509KeyPair` compares the pair; a certificate is due or not.

## Runs

| Run | Question | Bounds and why they are enough |
| --- | --- | --- |
| `HttpsOneInstance` | Is what an instance serves trusted, does a finished uninstall leave nothing, is the order that of `TlsSession`, while certificates come due at any moment? | four keys (a CA and a leaf, and a successor of each), one host list (what hosts do to a leaf is the next run's question), one kill anywhere but inside the half-removed pair, every reported fault (the deletion of the anchor copy included), aging |
| `HttpsTwoInstances` | Right pair, right hosts for two interleaved instances; type correctness | three keys (one CA, two leaves, or two CAs and one leaf), two host lists, removals that fail unnoticed, no kill: the interleaving is the question. Symmetric in instances and host lists. |
| `HttpsSelfHealing` | Does the program get back to serving trusted certificates after kills? | three kills, no faults, no aging; kills that truncate a CA file are left out, because they are not healed |
| `HttpsStaleLeaf` | (violated) trusted leaves with a kill inside the removal loop | |
| `TrustInstallers` | What does the success of a call mean, what becomes of `user.js`, is the order that of `TrustChange`? | four systems, two profiles that appear at any time and vanish between calls, every fault, one kill, calls without end; a loop with one visited and one unvisited profile is the smallest in which a failure can be forgotten |
| `FirefoxBlocksCleanup` | (violated) credentials are removed on exit | no fault, no kill, Linux |
| `RequestPipeline` | Documented answers, browse listings, and an answer at all | two directories, four file names of all kinds, every combination of switches, one edit at any moment |
| `PipelineIndexHtm`, `PipelineInitialIndex` | (violated) disabled listings, the initial file | one directory |
| `ServedRequest` | Do the tables decide as the most specific mapping says, and does what they decide reach the wire and the log? | five prefixes (root, nested, siblings, one malformed) and seven paths (the empty one included), all lists of up to three (streaming: four) mappings, each table by itself since they share nothing. The settings in `Followed` (a route and up to two nested header policies on two names) have their requests answered, with up to two hints, by files, proxy or upgrade, one after another. Some of these settings name one header in two spellings. |
| `GhttpProcess` | Documented precedence, clean stop, what exit status zero says, always ends after a signal | every combination of logging types over the sources, and every one of the https switch with the port, which decide together on the default port; the two groups meet in no condition. Two connections, three signals (one kept, one dropped, one after). |
| `WebSocketRelay` | Order, completeness, room for both completion signals, no half-open relay but one that waits for a peer that does not read | three chunks each way: one delivered, one in hand, one waiting; peers that stop reading or leave at any time |

`CHECK_DEADLOCK FALSE` stands where the system ends (an answered request, settings that are
refused, a process that exited) and in the HTTPS runs with few key names, where a run may wait for a name.

### Fairness

* `HttpsLifecycle`: a started process runs on, somebody stops it and starts it again. Nothing
  forces a fault or a kill, and their number is bounded.
* `RequestPipeline`: a handler runs to its end and the client follows redirects; edits are not forced.
* `GhttpProcess`: `Execute` runs on and the commands it waits for return; goroutines run, the
  grace timer fires, `Serve` of a closed listener returns. Clients, signals and listener failures
  are not forced, nor is the end of a request.
* `WebSocketRelay`: a goroutine that can go on does. A write is not among the things that must
  return: nothing in the code gives it a deadline (`proxy_handler.go:193-196`), and a peer may stop reading for good
  (`Stall`), after which writes to it are not enabled. No fairness is assumed of what comes before the
  relay either: `http.ReadResponse` has no deadline (`proxy_handler.go:161`), so no property promises an answer.

## Findings (violation runs)

* `HttpsStaleLeaf`: the leaf is reused by dates and hosts, not by signer (`issuer.go:181`). A kill
  between the removal of the CA and of the leaf makes the next run serve a leaf of a CA that is
  gone, until the leaf comes due.
* `FirefoxBlocksCleanup`: `certutil -D` fails for a profile without the certificate
  (`firefox_integration.go:67`); one that was created while ghttp served is enough for the uninstall to fail and for
  the credential files to stay, against README.md:63.
* `PipelineIndexHtm`: with listings disabled, a folder with `index.htm` is listed
  (`markdown_handler.go:160`; README.md:73 promises `index.htm` or 403).
* `PipelineInitialIndex`: `ghttp index.html` redirects its client for ever (`initial_file_handler.go:31`).

Observations of the same kind, met while modelling, for which no run is kept. Each explains a
bound or a condition above:

* a failed setup returns without uninstalling (`serve_command.go:280`), so the CA key stays;
* a truncated CA file makes every later start fail (`authority.go:84`) until it is deleted;
* a CA that comes due between the setup's and the serve's `EnsureCertificateAuthority` is rotated
  after it was anchored (`https_commands.go:71`), and a CA that came due leaves its
  anchor in the trust store for good once its successor's copy has overwritten it
  (`installer_linux.go:71`). `LeafTrustedUnlessDue` and `CleanUnlessDue` show that nothing else goes wrong with age;
* a removal error in the uninstall is dropped and the run reports success (`https_commands.go:153-157`), so
  exit status zero does not say that the credential files are gone;
* without certutil at the uninstall an imported CA stays in the profiles and success is reported
  (`firefox_integration.go:60`), and so it does in a profile that is not found because its directory, or the
  database in it, cannot be looked at (`firefox_integration.go:85-88`, `102-111`); the preference line in `user.js` is
  never taken out again. Exit status zero does not say that Firefox no longer trusts the CA. What
  `UninstallClears` and `ZeroMeansDone` state is what is left to say: the store of the operating system is clean;
* on Windows the certutil that works on the system's store does not know the options meant for
  NSS's, so imports fall back to the preference and an uninstall with any profile fails;
* a logging type in the environment that is not known ends the run before a valid
  `--logging-type` is looked at (`application.go:138`), although flags come first in ARCHITECTURE.md:19-23;
* hosts given by `GHTTP_HTTPS_HOSTS` are not split at commas (`https_commands.go:165`, `sanitizeHosts`),
  so `a,b` is taken as one host, although README.md:97 calls the value a comma-separated list;
  mappings for proxies and streaming are split (`mapping_values.go:25`);
* a dial may take ten seconds and the grace period is three (`proxy_handler.go:114`,
  `file_server.go:157`): such a request is cut by a shutdown, which reports it;
* a relay is cut when the process ends, since `Shutdown` does not count hijacked connections; an upgrade that waits
  for its backend is cut like that too, and a request that sits unread on an idle connection is closed with
  it: `NoRequestCut` speaks of requests whose reading began;
* a peer that leaves while the other does not read leaves the relay half open: the goroutine that
  holds a chunk of the one waits in a write without a deadline for the other (`proxy_handler.go:193-196`), and when the
  other direction is idle nothing ends it. `NoHalfOpen` states that there is no other way;
* an upgrade is logged with status 200, whatever the backend answered, since the answer goes to the hijacked
  connection past the recorder (`proxy_handler.go:166`, `file_server.go:330-337`); it carries no policy header
  and no `Server` of ghttp's, for the same reason;
* a Markdown file deleted between choice and open falls through to a listing, disabled or not
  (`markdown_handler.go:92`);
* two spellings of one header name in policies have no defined winner, and the one with the less specific prefix
  may win (`route_response_policy_handler.go:72`): `MostSpecificHeader` holds among mappings that spell a name alike;
* after a 103 from a backend the final response has neither policy headers nor `Server`, because
  the reverse proxy clears the header map and both are set once (`route_response_policy_handler.go:69`,
  `file_server.go:203`).

## Proofs

`HttpsLifecycleProofs` proves, for all values of the constants that satisfy the named assumptions
of `HttpsLifecycle` (`KeysAssumption`, `HostsAssumption`, `FaultsAssumption`, `BoundsAssumption`):

* `TypeCorrect`: `Spec => []TypeOK`
* `PairMatches`: `Spec => []ServedPairMatches`
* `ForRequest`: `Spec => []ServedForRequest`

Neither safety invariant is inductive: that the pair is right while serving depends on what was
held when it was compared, and the hosts on how the leaf was chosen several steps before. `IInv` adds

* `CaChosen`: from the first write of a CA to the signing, a process holds a real CA pair;
* `LeafChosen`: from the first write of the leaf (or its reuse) to serving, the held leaf is a
  real certificate for this run's hosts;
* `Paired`: once compared, the held pair is one.

The point of the argument is that all three speak of what a process *holds*, never of the disk, so
no step of another instance can disturb them, except by giving a name in use to a new
certificate; `CertifyFrame` shows that it never does. `OthersKeep` states this once, and one lemma
per action shows that the acting process keeps its part.

`HttpsSingleInstanceProofs`, for any keys, requests and faults and any number of kills, when `Alone(p)`: one
instance runs. With two, one may remove the files another is serving from, since nothing locks the directory.

* `SessionOrder`: `Spec => ImplementsSession`, the refinement of `TlsSession`
* `CleanAfterUninstall`: `Spec => []CleanUnlessDue`, with `NoSilentFault`: a removal that fails is dropped by the
  code (`https_commands.go:154`, see Findings), and then a file stays
* `ServedLeafAccepted`: `Spec => []LeafTrustedUnlessDue`, with `NoSilentFault` and `NoneHalfRemoved`: no kill between the removal
  of the CA and that of the leaf, which is what `HttpsStaleLeaf` shows to go wrong

The inductive invariants relate the disk, the trust store and the step the process is at:

* `Ordered`: a CA that is trusted and not due is the one on the disk (`CurrentOnDisk`), and while files are
  replaced or removed there is none (`Withdrawn`); what was read, copied and anchored is still the same CA
  (`HoldsCa`, `Copied`, `Anchored`). It holds through kills because it is a statement about the disk wherever the process is.
* `Emptied`: each removal step leaves its file absent, and only a complete uninstall counts as one.
* `LeafSigned` (`LeafOnDisk` and `LeafInHand`): the leaf on the disk, and the one in hand from its choice to serving,
  was signed by the CA on the disk, or its signer came due. The removal order CA before leaf breaks it for two steps, hence `NoneHalfRemoved`.

`GhttpProcessProofs` proves of `ServerRuntime` (for any finite or infinite set of connections and `SignalsAssumption`):

* `TypeCorrect`: `Spec => []TypeOK`
* `NilAsked`: `Spec => []NilMeansAsked`
* `RequestsComplete`: `Spec => []NoRequestCut`

`NoRequestCut` is not inductive: in a state where `Serve` returned nil and a listener still accepts,
a request could begin. `IInv` adds `NoNewConns` (from the polling on, `Shutdown` was called and no listener accepts, so
connections can only go), `AllQuiet` (a clean end was decided when every connection was quiet, and
a quiet connection of a closing server can only leave), `Reported` (the serving goroutine says "closed"
only after `Shutdown`) and `Undecided` (no outcome before it is due).

`WebSocketRelayProofs` (for any number of chunks, `ChunksAssumption`):

* `TypeCorrect`: `Spec => []TypeOK`
* `RelayInOrder`: `Spec => []NothingSkipped`
* `SignalsFindRoom`: `Spec => []RoomToSignal`; `IInv` counts the signals: there are never more of them than goroutines that
  finished, so that one that has yet to signal finds room, received or not

What a peer received says nothing about what it will receive next. `IInv` adds `UpToDate`: each copier has
passed on exactly what it took, less the chunk in hand, as long as its receiver is there; chunks are
lost only after the receiver left, and then nothing is delivered any more, so no gap opens.
`NotStarted` carries the early bytes over: until the copiers start nothing was taken from either reader.

`RequestPipelineProofs` (for any directories, any configurations and any number of edits):

* `TypeCorrect`: `Spec => []TypeOK`
* `BrowseListsFolder`: `Spec => []BrowseListsFolders`, edits included
* `AsDocumented`: `Spec => []AnswerAsDocumented`

What the client is owed is a function of the site and of the URL it asked for. `IInv` adds `Placed` (which handler a request
can be at, in which configuration and with which path), `Folder` (in browse mode the request for a folder stays
with that folder, whatever is edited) and `Due`: as long as the site is unedited, the answer owed is the one documented for the URL
the request has now. Redirects change the URL and keep that answer, each handler either gives it or leaves to the
next one what leads to it.

`ResponseStackProofs` (for any values policies may give, any number of hints and any sequence of requests):

* `TypeCorrect`: `Spec => []TypeOK`
* `PolicyFirst`: `Spec => []PolicyOnFirst`
* `ServerFirst`: `Spec => []ServerOnFirst`
* `LogMatches`: `Spec => []LogMatchesWire`

`IInv` adds `AppliedOnFirst` (the applied flag is set exactly when net/http sent something, so
that the one time the policy writer acts is the first response), `Early` (only a proxy sends
anything before its answer, so that the recorder still holds its initial 200 where a handler writes without a
status), `HeaderNamed` (until something is sent, the header map names the server, and whatever a handler sets or
a backend adds leaves that in it) and `Recorded` (from the answer on, the recorder holds the
status net/http sent last, or its initial 200 when the connection was taken).

`ServedRequestProofs` (for any settings and paths that satisfy `SettingsAssumption` and `PathsAssumption`, any `Canonical` and every
map iteration order; the mappings may be any number of sequences over any set of segments):

* `TablesTypeCorrect`: `TablesSpec => []TablesTypeOK`
* `RoutedRight`: `TablesSpec => []RoutedToLongestPrefix`
* `StreamedRight`: `TablesSpec => []StreamedAsMapped`
* `HeadersRight`: `TablesSpec => []MostSpecificHeader`
* `ServedAnswers`: `ServedSpec => Spec`, so what `ResponseStackProofs` shows holds of the composition
* `WireFollows`: `ServedSpec => []WireFollowsSettings`

The tables are built once and only read, so the invariant is short (`Built`, `DecisionFollows`) and the work is in lemmas about
the operators. `SortedFacts`: counting the entries that go before one gives each a place of its own, so a
stable sort is a rearrangement in the order of the key. `FirstMatch` and `LastEntry`: the first match in
a table sorted by `LongestFirst`, and the last in one sorted by `ShortestFirst`, has the longest prefix. `LastMappings` and
`HeaderMaps`: what the Go maps hold when they are filled, whatever order they are read in afterwards. Two prefixes of one path
with the same length are the same (`SamePrefix`), which is why the place of equal keys never matters.
For the wire, `Linked` (an answered request has the policy that was decided for it) joins the two parts, and `Unnamed` (a
header no policy names never has a value of a policy, in the map or on the wire) covers what no mapping speaks for.
`BareAfterFirst` covers the responses after the first and those of an upgrade, which have no value of a policy at all.
`FollowedAssumption` asks that the values of policies differ from those the server, its handlers and the backends give:
equal values would not tell who set them. It is an assumption about the labels of the model, not about the code.

`TrustInstallersProofs` (for any set of profiles, `PlatformsAssumption`, `FaultsAssumption`, `KillsAssumption`,
`NoProfileAssumption`):

* `TypeCorrect`: `Spec => []TypeOK`
* `InstallReaches`: `Spec => []InstallReachesProfiles`
* `UninstallEnds`: `Spec => []UninstallClears`, with its two exceptions: no certutil, and profiles that were not found
* `UserLines`: `Spec => []UserLinesKept`
* `Refinement`: `Spec => ImplementsTrustChange`

What a finished call promises was done steps before it ends. `IInv` adds `Order` (where a call is says which
call it is, and what is known of it), `StoreFirst` (past the store's command the store is as asked for, past
the deletion the copy is gone), `Reached` (every profile a loop visited is dealt with, or a failure is
remembered) and `Kept` (what is about to be written to a truncated `user.js` is what it held, without the
line). No profile found may vanish during a call; this is what lets `Reached` survive the environment. The refinement
follows from the same invariant: `Succeeding` needs `StoreFirst`, `Importing` and `Forgetting` need `Order`.

`GhttpProcessProofs` goes on to the process (for any settings, arguments, connections and `SignalsAssumption`):

* `ProcessServes`: `ProcessSpec => Spec`, so what is shown of `Serve` holds of the process:
  `ProcessRequestsComplete`, `ProcessNilAsked`
* `ZeroIsClean`: `ProcessSpec => []ZeroMeansDone`, from `Unwinding` (credentials belong to dynamic HTTPS and to its
  phases; an uninstall follows a serving that failed or was asked to stop, and takes the CA out of the store or fails) and
  the invariant of `ServerRuntime`
* `Configured`: `ProcessSpec => []ConfiguredAsDocumented`, from `Precedence`: asking one source after the other finds
  what the source of highest rank gives, and `PortPrecedence`, which says the same of the port
* `ProcessTypeCorrect`: `ProcessSpec => []ProcessTypeOK`

Every safety property of a passing run, and both refinements, are theorems. Only model-checked is liveness (`SelfHealing`,
`Answered`, `StopsOnFailure`, `SignalEndsProcess`, `NoHalfOpen`, `EveryChunkArrives`), which is outside TLAPS's reach;
the violation runs are counterexamples and need no proof.

## Not modelled

Markdown rendering (`internal/markdown`, one pure call into goldmark) and address formatting
(`internal/serverdetails`, the wording of a message); the formatting and writing of log lines; configuration
keys other than the logging type, the port and dynamic HTTPS, which go from the same sources to their
place without meeting a condition, and enter `GhttpProcess` as accepted or refused; file permissions; URL
syntax. viper, cobra, net/http, certutil, `trust`, `security` and Firefox are external and modelled as far as
the code uses them.

## Plan

Order: lifecycle first (it touches the machine's trust), then what every request meets, then
the runtime, the relay and the process around them. Done: the modules above. Left:

1. `HttpsLifecycle` with `TrustInstallers` in place of its two installer steps: the state space of the product is
   out of TLC's reach, the theorems of both are what a composition could be proved from.
2. `HttpsSingleInstanceProofs` for instances that run one after the other under different process names, which needs
   `Alone` to speak of who is started rather than of who exists.
