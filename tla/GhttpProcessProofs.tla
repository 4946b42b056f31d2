---- MODULE GhttpProcessProofs ----
(***************************************************************************)
(* Theorems about ServerRuntime and GhttpProcess, for any settings,        *)
(* arguments, connections and signals: what it means when Serve returns    *)
(* nil, that the serving of a process is that of ServerRuntime, so that    *)
(* what is proved of Serve holds of it, and what exit status zero means.   *)
(***************************************************************************)
EXTENDS GhttpProcess, TLAPS

-----------------------------------------------------------------------------
(* Serve by itself *)

\* Until it selects, Serve has decided nothing; while it shuts down it has
\* called Shutdown and decided nothing yet.
Undecided ==
    /\ main \in {"setup", "configure"} => listener = "none"
    /\ main \in {"setup", "configure", "select"} => ~closing /\ outcome = "none"
    /\ main \in {"drain", "poll"} => closing /\ outcome = "none"

\* The serving goroutine reports once, with a reason, and says "closed" only
\* after Shutdown.
Reported ==
    /\ listener # "ended" => serverErrors = << >>
    /\ listener = "returned" => serveErr # "none"
    /\ serveErr = "closed" \/ serverErrors = <<"closed">> => closing

\* Past the listener no connection can come any more; ...
NoNewConns == main = "poll" \/ outcome = "ok" => closing /\ listener # "accepting"

\* ... and with a clean end nothing is left that could turn into a request.
AllQuiet == outcome = "ok" => \A c \in Conns : conns[c] \in Quiet

IInv == TypeOK /\ Undecided /\ Reported /\ NoNewConns /\ AllQuiet

\* The initial state satisfies the invariant.
LEMMA InitIInv == Init => IInv
<1> SUFFICES ASSUME Init PROVE IInv
  OBVIOUS
<1>1. {watcher, cancelled, closing} \subseteq BOOLEAN
  BY Zenon DEF Init
<1>2. TypeOK
  BY <1>1, SignalsAssumption DEF Init, TypeOK
<1>3. Undecided /\ Reported /\ NoNewConns /\ AllQuiet
  BY DEF Init, Undecided, Reported, NoNewConns, AllQuiet
<1> QED
  BY <1>2, <1>3 DEF IInv

\* Signals and their watcher touch neither listener nor connections.
LEMMA SignalStepsKeep ==
  ASSUME IInv, CreateSignalContext \/ SignalArrives \/ WatchSignal
  PROVE  IInv'
<1> USE SignalsAssumption DEF IInv, TypeOK, Undecided, Reported, NoNewConns, AllQuiet,
       listenerVars, mainVars
<1>1. CASE CreateSignalContext
  BY <1>1 DEF CreateSignalContext
<1>2. CASE SignalArrives
  BY <1>2 DEF SignalArrives
<1>3. CASE WatchSignal
  <2>1. watcher' \in BOOLEAN
    BY <1>3, Zenon DEF WatchSignal
  <2> QED
    BY <1>3, <2>1 DEF WatchSignal
<1> QED
  BY <1>1, <1>2, <1>3

\* Serve polls only when the listener is gone.
LEMMA MainStepsKeep ==
  ASSUME IInv, ConfigureTLS \/ SelectDone \/ SelectError \/ AwaitListener \/ GraceExpires
  PROVE  IInv'
<1> USE DEF IInv, TypeOK, Undecided, Reported, NoNewConns, AllQuiet,
       listenerVars, mainVars, signalVars, Return
<1>0. ASSUME NEW result, Return(result) PROVE watcher' \in BOOLEAN
  BY <1>0, Zenon DEF Return
<1>1. CASE ConfigureTLS
  <2>1. watcher' \in BOOLEAN
    BY <1>0, <1>1 DEF ConfigureTLS
  <2> QED
    BY <1>1, <2>1 DEF ConfigureTLS
<1>2. CASE SelectDone
  BY <1>2 DEF SelectDone
<1>3. CASE SelectError
  <2>1. serverErrors = <<"failed">>
    BY <1>3 DEF SelectError
  <2>2. watcher' \in BOOLEAN
    BY <1>0, <1>3 DEF SelectError
  <2> QED
    BY <1>3, <2>1, <2>2 DEF SelectError
<1>4. CASE AwaitListener
  BY <1>4 DEF AwaitListener
<1>5. CASE GraceExpires
  BY <1>5 DEF GraceExpires
<1> QED
  BY <1>1, <1>2, <1>3, <1>4, <1>5

\* The clean end: Shutdown found every connection quiet.
LEMMA PollConnectionsKeeps == IInv /\ PollConnections => IInv'
<1> SUFFICES ASSUME IInv, PollConnections PROVE IInv'
  OBVIOUS
<1> USE DEF PollConnections, IInv, TypeOK, Undecided, Reported, NoNewConns, listenerVars
<1>1. \A c \in Conns : CloseIdle[c] \in {"none", "new", "active", "hijacked", "closed"}
  BY DEF CloseIdle
<1>2. conns' \in [Conns -> {"none", "new", "stale", "active", "idle", "hijacked", "closed"}]
  BY DEF CloseIdle
<1>3. CASE \A c \in Conns : CloseIdle[c] \in Quiet
  BY <1>2, <1>3 DEF Return, AllQuiet
<1>4. CASE ~\A c \in Conns : CloseIdle[c] \in Quiet
  BY <1>2, <1>4 DEF signalVars, AllQuiet
<1> QED
  BY <1>3, <1>4

\* The serving goroutine reports once.
LEMMA ListenerStepsKeep ==
  ASSUME IInv, Listener
  PROVE  IInv'
<1> USE DEF IInv, TypeOK, Undecided, Reported, NoNewConns, AllQuiet, mainVars, signalVars
<1>1. CASE Listen
  BY <1>1 DEF Listen
<1>2. CASE StopAccepting
  BY <1>2 DEF StopAccepting
<1>3. CASE ReportError
  <2>1. serverErrors' = <<serveErr>>
    BY <1>3 DEF ReportError
  <2> QED
    BY <1>3, <2>1 DEF ReportError
<1> QED
  BY <1>1, <1>2, <1>3 DEF Listener

\* A connection only moves among its own states; once the end was clean none
\* of them leaves the quiet ones.
LEMMA ConnectionKeeps ==
  ASSUME IInv, NEW c \in Conns, Connection(c)
  PROVE  IInv'
<1> USE DEF IInv, TypeOK
<1>1. UNCHANGED <<mainVars, signalVars, listenerVars>>
  BY DEF Connection, Accept, GoStale, Request, Respond, HijackConn, Leave, Move
<1>2. conns' \in [Conns -> {"none", "new", "stale", "active", "idle", "hijacked", "closed"}]
  BY DEF Connection, Accept, GoStale, Request, Respond, HijackConn, Leave, Move
<1>3. ASSUME outcome = "ok", NEW d \in Conns PROVE conns'[d] \in Quiet
  <2>1. conns[c] \in Quiet /\ conns[d] \in Quiet /\ listener # "accepting"
    BY <1>3 DEF AllQuiet, NoNewConns
  <2>2. Leave(c)
    BY <2>1 DEF Connection, Accept, GoStale, Request, Respond, HijackConn, Move, Quiet
  <2> QED
    BY <2>1, <2>2 DEF Leave, Move, Quiet
<1> QED
  BY <1>1, <1>2, <1>3 DEF Undecided, Reported, NoNewConns, AllQuiet,
     mainVars, signalVars, listenerVars

\* Every step keeps the invariant.
LEMMA NextIInv == IInv /\ [Next]_vars => IInv'
<1> SUFFICES ASSUME IInv, [Next]_vars PROVE IInv'
  OBVIOUS
<1>1. CASE Main
  BY <1>1, SignalStepsKeep, MainStepsKeep, PollConnectionsKeeps DEF Main
<1>2. CASE SignalArrives \/ WatchSignal
  BY <1>2, SignalStepsKeep
<1>3. CASE GraceExpires
  BY <1>3, MainStepsKeep
<1>4. CASE Listener
  BY <1>4, ListenerStepsKeep
<1>5. CASE \E c \in Conns : Connection(c)
  BY <1>5, ConnectionKeeps
<1>6. CASE UNCHANGED vars
  BY <1>6 DEF vars, IInv, TypeOK, Undecided, Reported, NoNewConns, AllQuiet
<1> QED
  BY <1>1, <1>2, <1>3, <1>4, <1>5, <1>6 DEF Next

\* The inductive invariant holds throughout.
THEOREM Invariance == Spec => []IInv
  BY InitIInv, NextIInv, PTL DEF Spec

\* Every variable keeps its type; the channels in particular never hold more than one.
THEOREM TypeCorrect == Spec => []TypeOK
<1>1. IInv => TypeOK
  BY DEF IInv
<1> QED
  BY <1>1, Invariance, PTL

\* Serve returns nil only after Shutdown was called: a failed listener is never taken for a
\* clean stop.
THEOREM NilAsked == Spec => []NilMeansAsked
<1>1. IInv => NilMeansAsked
  BY DEF IInv, NoNewConns, NilMeansAsked
<1> QED
  BY <1>1, Invariance, PTL

\* When Serve returned nil no request is unfinished, and none ever will be.
THEOREM RequestsComplete == Spec => []NoRequestCut
<1>1. IInv => NoRequestCut
  BY DEF IInv, AllQuiet, NoRequestCut, Quiet
<1> QED
  BY <1>1, Invariance, PTL

-----------------------------------------------------------------------------
(* The process around it *)

\* Every step of the process is a step of ServerRuntime, or none of its business.
LEMMA ServingStep == [ProcessNext]_allVars => [Next]_vars
<1> SUFFICES ASSUME [ProcessNext]_allVars PROVE [Next]_vars
  OBVIOUS
<1>1. CASE UNCHANGED allVars
  BY <1>1 DEF allVars
<1>2. CASE Boot \/ Parse \/ LoadConfigurationFile \/ Prepare \/ RunServe \/ Install
           \/ Uninstall
  BY <1>2 DEF Boot, Parse, LoadConfigurationFile, Prepare, RunServe, Install, Uninstall, Outside
<1>3. CASE Issue \/ AfterServe
  BY <1>3 DEF Issue, AfterServe
<1>4. CASE ServeMain
  BY <1>4 DEF ServeMain, Next
<1>5. CASE Signal
  BY <1>5 DEF Signal, Next
<1>6. CASE Serving /\ (WatchSignal \/ GraceExpires \/ Listener \/ \E c \in Conns : Connection(c))
  BY <1>6 DEF Next
<1> QED  BY <1>1, <1>2, <1>3, <1>4, <1>5, <1>6 DEF ProcessNext, ProcessStep

\* A run of the process, settings and provisioning included, is a run of ServerRuntime.
THEOREM ProcessServes == ProcessSpec => Spec
<1>1. ProcessInit => Init
  BY DEF ProcessInit
<1> QED  BY <1>1, ServingStep, PTL DEF ProcessSpec, Spec

\* When Serve returned nil within a process, no request it served is unfinished.
THEOREM ProcessRequestsComplete == ProcessSpec => []NoRequestCut
BY ProcessServes, RequestsComplete, PTL

\* Within a process, too, Serve returns nil only when it was asked to stop.
THEOREM ProcessNilAsked == ProcessSpec => []NilMeansAsked
BY ProcessServes, NilAsked, PTL

-----------------------------------------------------------------------------
(* Exit status *)

\* Nothing listens before the serving, credentials are dynamic HTTPS's, and the uninstall, which
\* follows a serving that failed or was asked to stop, takes the CA out of the store or fails.
Unwinding ==
    /\ phase \notin {"serve", "uninstall", "exit"} => listener = "none"
    /\ phase \in {"install", "issue"} \/ credentials # {} => config.mode = "dynamic"
    /\ credentials # {} => phase \in {"issue", "serve", "uninstall", "exit"}
    /\ phase = "uninstall" => serveFailed \/ outcome = "ok"
    /\ phase = "exit" /\ exitCode = 0 =>
           "store" \notin credentials /\ (listener # "none" => outcome = "ok")

\* Nothing was started and nothing provisioned.
LEMMA UnwindingInit == ProcessInit => Unwinding
BY DEF ProcessInit, Init, Unwinding

\* Up to the serving a run provisions at most, or ends.
LEMMA PreparingKeeps ==
    ASSUME Unwinding,
           Boot \/ Parse \/ LoadConfigurationFile \/ Prepare \/ RunServe \/ Install \/ Issue
    PROVE  Unwinding'
<1> USE DEF Unwinding, Enter, Exit, Outside, vars, settingVars
<1>1. CASE Boot
  BY <1>1 DEF Boot
<1>2. CASE Parse
  BY <1>2 DEF Parse
<1>3. CASE LoadConfigurationFile
  BY <1>3 DEF LoadConfigurationFile
<1>4. CASE Prepare
  BY <1>4 DEF Prepare
<1>5. CASE RunServe
  BY <1>5 DEF RunServe
<1>6. CASE Install
  BY <1>6 DEF Install
<1>7. CASE Issue
  <2>1. UNCHANGED <<listener, config, credentials>> /\ config.mode = "dynamic"
    BY <1>7 DEF Issue
  <2>2. phase' = "serve" \/ (phase' = "uninstall" /\ serveFailed' = TRUE)
    BY <1>7 DEF Issue
  <2> QED  BY <2>1, <2>2
<1> QED  BY <1>1, <1>2, <1>3, <1>4, <1>5, <1>6, <1>7

\* A process ends after its serving, or after the uninstall that follows it.
LEMMA EndingKeeps ==
    ASSUME Unwinding, AfterServe \/ Uninstall
    PROVE  Unwinding'
<1> USE DEF Unwinding, Enter, Exit, Outside, vars
<1>1. CASE AfterServe
  <2>1. UNCHANGED <<listener, outcome, config, credentials>> /\ phase = "serve"
    BY <1>1 DEF AfterServe
  <2>2. CASE config.mode = "dynamic" /\ phase' = "uninstall" /\ serveFailed' = (outcome # "ok")
    BY <2>1, <2>2
  <2>3. CASE config.mode # "dynamic" /\ phase' = "exit" /\ exitCode' = IF outcome = "ok" THEN 0 ELSE 1
    BY <2>1, <2>3
  <2> QED  BY <1>1, <2>2, <2>3 DEF AfterServe
<1>2. CASE Uninstall
  <2>1. UNCHANGED <<listener, outcome, config>> /\ phase = "uninstall" /\ phase' = "exit"
    BY <1>2 DEF Uninstall
  <2>2. credentials' \subseteq credentials
    BY <1>2 DEF Uninstall, Removed, NotRemoved
  <2>3. exitCode' = 0 => "store" \notin credentials' /\ ~serveFailed
    BY <1>2 DEF Uninstall, Removed
  <2> QED  BY <2>1, <2>2, <2>3
<1> QED  BY <1>1, <1>2

\* Every step of the process keeps the invariant.
LEMMA UnwindingStep == Unwinding /\ [ProcessNext]_allVars => Unwinding'
<1> SUFFICES ASSUME Unwinding, [ProcessNext]_allVars PROVE Unwinding'
  OBVIOUS
<1>1. CASE UNCHANGED allVars
  BY <1>1 DEF allVars, vars, processVars, settingVars, Unwinding
<1>2. CASE Signal
  BY <1>2 DEF Signal, SignalArrives, processVars, settingVars, listenerVars, Unwinding
<1>3. CASE phase = "serve" /\ UNCHANGED processVars
  BY <1>3 DEF processVars, settingVars, Unwinding
<1> QED
  BY <1>1, <1>2, <1>3, PreparingKeeps, EndingKeeps
     DEF ProcessNext, ProcessStep, ServeMain, Serving

\* A process that exits with status zero leaves no CA of its own in the store of the operating
\* system, and if it listened at all it was asked to stop and answered what it had begun to serve.
THEOREM ZeroIsClean == ProcessSpec => []ZeroMeansDone
<1>1. Unwinding /\ IInv => ZeroMeansDone
  BY DEF Unwinding, IInv, NoNewConns, AllQuiet, Quiet, ZeroMeansDone
<1>2. ProcessSpec => []IInv
  BY ProcessServes, Invariance, PTL
<1>3. ProcessSpec => []Unwinding
  BY UnwindingInit, UnwindingStep, PTL DEF ProcessSpec
<1> QED  BY <1>1, <1>2, <1>3, PTL

-----------------------------------------------------------------------------
(* Settings *)

\* Asking one source after the other is the precedence of the sources,
\* whatever they give (viper's order against ARCHITECTURE.md's).
LEMMA Precedence ==
    ASSUME NEW key, NEW default
    PROVE  Get(key, Sources, default) = Documented(key, default)
<1> DEFINE setting == {s \in Sources : given[s][key] # Unset}
           highest == Highest(setting)
<1>1. Documented(key, default) = IF setting = {} THEN default ELSE given[highest][key]
  BY DEF Documented
<1>2. setting \subseteq Sources
  OBVIOUS
<1>3. \A s, t \in Sources : Rank[s] <= Rank[t] /\ Rank[t] <= Rank[s] => s = t
  BY DEF Sources, Rank
<1>4. ASSUME NEW s \in setting, \A other \in setting : Rank[other] <= Rank[s]
      PROVE  highest = s
  <2> HIDE DEF setting
  <2>1. highest \in setting /\ \A other \in setting : Rank[other] <= Rank[highest]
    BY <1>4 DEF Highest
  <2> HIDE DEF highest
  <2> QED  BY <1>2, <1>3, <1>4, <2>1
<1> HIDE DEF highest
<1>5. CASE given["flag"][key] # Unset
  <2>1. highest = "flag"
    BY <1>4, <1>5 DEF Sources, Rank
  <2> QED  BY <1>1, <1>5, <2>1 DEF Get, Sources
<1>6. CASE given["flag"][key] = Unset /\ given["env"][key] # Unset
  <2>1. highest = "env"
    BY <1>4, <1>6 DEF Sources, Rank
  <2> QED  BY <1>1, <1>6, <2>1 DEF Get, Sources
<1>7. CASE given["flag"][key] = Unset /\ given["env"][key] = Unset /\ given["file"][key] # Unset
  <2>1. highest = "file"
    BY <1>4, <1>7 DEF Sources, Rank
  <2> QED  BY <1>1, <1>7, <2>1 DEF Get, Sources
<1>8. CASE setting = {}
  BY <1>1, <1>8 DEF Get, Sources
<1> QED  BY <1>5, <1>6, <1>7, <1>8 DEF Sources

\* Every variable of the process keeps its type.
LEMMA ProcessTypeInit == ProcessInit => ProcessTypeOK
<1> SUFFICES ASSUME ProcessInit PROVE ProcessTypeOK
  OBVIOUS
<1>1. given \in [Sources -> AnySetting] /\ argument \in {"none", "port", "page", "other"}
  BY SettingsAssumption, ArgumentsAssumption DEF ProcessInit
<1>2. credentials \subseteq Credentials /\ serveFailed \in BOOLEAN
  BY Zenon DEF ProcessInit
<1> QED  BY <1>1, <1>2 DEF ProcessInit, ProcessTypeOK, Logging

\* A source that gives nothing gives nothing for any key.
LEMMA NothingGiven == NoSettings \in [Sources -> AnySetting]
BY DEF NoSettings, AnySetting

\* The switch for dynamic HTTPS is on or off.
LEMMA SwitchBoolean == ProcessTypeOK => EnableDynamicHTTPS \in BOOLEAN
<1> SUFFICES ASSUME ProcessTypeOK PROVE EnableDynamicHTTPS \in BOOLEAN
  OBVIOUS
<1>1. \A s \in Sources : given[s]["https"] \in {TRUE, FALSE, Unset}
  BY DEF ProcessTypeOK, AnySetting
<1>2. \A s \in Sources : given[s]["https"] # Unset => given[s]["https"] \in BOOLEAN
  BY <1>1, Zenon
<1>3. "flag" \in Sources /\ "env" \in Sources /\ "file" \in Sources
  BY DEF Sources
<1> QED  BY <1>2, <1>3, Zenon DEF EnableDynamicHTTPS, Get

\* A configuration that is accepted has its type.
LEMMA ConfigTyped ==
    ASSUME NEW tlsFiles \in BOOLEAN, ~Refused(tlsFiles)
    PROVE  [mode |-> IF EnableDynamicHTTPS THEN "dynamic" ELSE IF tlsFiles THEN "files" ELSE "plain",
            port |-> PortSource,
            logging |-> NormalizeType(Get("logging", Sources, "CONSOLE"))]
           \in [mode : {"plain", "files", "dynamic"}, logging : Logging,
                port : Sources \cup {"argument", "8000", "8443"}]
<1>1. NormalizeType(Get("logging", Sources, "CONSOLE")) \in Logging
  BY Zenon DEF Refused
<1>2. PortSource \in Sources \cup {"argument", "8000", "8443"}
  BY DEF PortSource, Sources
<1> QED  BY <1>1, <1>2

\* Every step of the process keeps the types.
LEMMA ProcessTypeStep == ProcessTypeOK /\ [ProcessNext]_allVars => ProcessTypeOK'
<1> SUFFICES ASSUME ProcessTypeOK, [ProcessNext]_allVars PROVE ProcessTypeOK'
  OBVIOUS
<1> USE NothingGiven DEF ProcessTypeOK, Enter, Exit, Outside, settingVars
<1>1. CASE UNCHANGED processVars
  BY <1>1 DEF processVars
<1>2. CASE Boot \/ Parse \/ LoadConfigurationFile
  BY <1>2 DEF Boot, Parse, LoadConfigurationFile
<1>3. CASE Prepare
  <2>1. CASE Exit(1) /\ UNCHANGED <<config, logger>>
    BY <1>3, <2>1 DEF Prepare
  <2>2. ASSUME NEW tlsFiles \in BOOLEAN, ~Refused(tlsFiles),
               config' = [mode |-> IF EnableDynamicHTTPS THEN "dynamic"
                                   ELSE IF tlsFiles THEN "files" ELSE "plain",
                          port |-> PortSource,
                          logging |-> NormalizeType(Get("logging", Sources, "CONSOLE"))],
               logger' = config'.logging, Enter("run"), UNCHANGED <<given, argument>>
        PROVE  ProcessTypeOK'
    <3>1. config' \in [mode : {"plain", "files", "dynamic"}, logging : Logging,
                       port : Sources \cup {"argument", "8000", "8443"}]
      BY <2>2, ConfigTyped
    <3> QED  BY <1>3, <2>2, <3>1 DEF Prepare
  <2> QED  BY <1>3, <2>1, <2>2 DEF Prepare
<1>4. CASE RunServe
  BY <1>4 DEF RunServe
<1>5. CASE Install
  <2>1. credentials' \subseteq Credentials
    BY <1>5 DEF Install, Credentials
  <2> QED  BY <1>5, <2>1 DEF Install
<1>6. CASE Issue
  <2>1. serveFailed' \in BOOLEAN
    BY <1>6, Zenon DEF Issue
  <2> QED  BY <1>6, <2>1 DEF Issue
<1>7. CASE AfterServe
  <2>1. serveFailed' \in BOOLEAN
    BY <1>7, Zenon DEF AfterServe
  <2> QED  BY <1>7, <2>1 DEF AfterServe
<1>8. CASE Uninstall
  <2>1. credentials' \subseteq Credentials
    BY <1>8 DEF Uninstall, Removed, NotRemoved
  <2> QED  BY <1>8, <2>1 DEF Uninstall
<1> QED
  BY <1>1, <1>2, <1>3, <1>4, <1>5, <1>6, <1>7, <1>8
     DEF ProcessNext, ProcessStep, Signal, ServeMain, Serving, allVars

\* The types of the process hold throughout, beside those of ServerRuntime.
THEOREM ProcessTypeCorrect == ProcessSpec => []ProcessTypeOK
BY ProcessTypeInit, ProcessTypeStep, PTL DEF ProcessSpec

\* The environment's port is asked before the file's, as ARCHITECTURE.md ranks them.
LEMMA PortPrecedence ==
    LET asked == {s \in {"env", "file"} : given[s]["port"] # Unset}
    IN  PortSource = IF argument = "port" THEN "argument"
                     ELSE IF asked # {} THEN Highest(asked)
                     ELSE IF EnableDynamicHTTPS THEN "8443" ELSE "8000"
<1> DEFINE asked == {s \in {"env", "file"} : given[s]["port"] # Unset}
           highest == Highest(asked)
<1>1. Rank["env"] = 2 /\ Rank["file"] = 1
  BY DEF Rank
<1>2. ASSUME NEW s \in asked, \A other \in asked : Rank[other] <= Rank[s]
      PROVE  highest \in asked /\ \A other \in asked : Rank[other] <= Rank[highest]
  <2> HIDE DEF asked
  <2> QED  BY <1>2 DEF Highest
<1>3. CASE given["env"]["port"] # Unset
  <2>1. "env" \in asked /\ \A other \in asked : Rank[other] <= Rank["env"]
    BY <1>1, <1>3
  <2>2. highest = "env"
    <3>1. highest \in asked /\ Rank["env"] <= Rank[highest]
      BY <1>2, <2>1
    <3> HIDE DEF highest
    <3> QED  BY <1>1, <3>1
  <2> QED  BY <1>3, <2>1, <2>2 DEF PortSource
<1>4. CASE given["env"]["port"] = Unset /\ given["file"]["port"] # Unset
  <2>1. "file" \in asked /\ \A other \in asked : Rank[other] <= Rank["file"]
    BY <1>1, <1>4
  <2>2. highest = "file"
    <3>1. highest \in asked
      BY <1>2, <2>1
    <3> HIDE DEF highest
    <3> QED  BY <1>4, <3>1
  <2> QED  BY <1>4, <2>1, <2>2 DEF PortSource
<1>5. CASE given["env"]["port"] = Unset /\ given["file"]["port"] = Unset
  BY <1>5 DEF PortSource
<1> QED  BY <1>3, <1>4, <1>5

\* What is documented depends on the sources only.
LEMMA DocumentedKept ==
    ASSUME NEW key, NEW default, UNCHANGED given
    PROVE  Documented(key, default)' = Documented(key, default)
BY DEF Documented

\* prepareServeConfiguration follows the documented precedence.
LEMMA PreparedAsDocumented ==
    ASSUME ProcessTypeOK, Prepare, phase' = "run"
    PROVE  ConfiguredAsDocumented'
<1>1. UNCHANGED <<given, argument>>
  BY DEF Prepare, Exit
<1>2. /\ Documented("logging", "CONSOLE")' = Get("logging", Sources, "CONSOLE")
      /\ Documented("https", FALSE)' = EnableDynamicHTTPS
  BY <1>1, Precedence, DocumentedKept DEF EnableDynamicHTTPS
<1>3. PICK tlsFiles \in BOOLEAN :
         /\ config' = [mode |-> IF EnableDynamicHTTPS THEN "dynamic"
                                ELSE IF tlsFiles THEN "files" ELSE "plain",
                       port |-> PortSource,
                       logging |-> NormalizeType(Get("logging", Sources, "CONSOLE"))]
         /\ logger' = config'.logging
  BY DEF Prepare, Exit
<1>4. (config'.mode = "dynamic") = EnableDynamicHTTPS
  BY <1>3, SwitchBoolean
<1> DEFINE asked == {s \in {"env", "file"} : given[s]["port"] # Unset}
<1>5. asked' = asked
  BY <1>1
<1>6. config'.port = IF argument' = "port" THEN "argument"
                     ELSE IF asked' # {} THEN Highest(asked')
                     ELSE IF config'.mode = "dynamic" THEN "8443" ELSE "8000"
  <2>1. config'.port = IF argument = "port" THEN "argument"
                       ELSE IF asked # {} THEN Highest(asked)
                       ELSE IF EnableDynamicHTTPS THEN "8443" ELSE "8000"
    BY <1>3, PortPrecedence
  <2> HIDE DEF asked
  <2> QED  BY <1>1, <1>4, <1>5, <2>1
<1> QED  BY <1>1, <1>2, <1>3, <1>4, <1>6 DEF ConfiguredAsDocumented, NormalizeType

\* What is served is what the documented precedence makes of the flags, the
\* environment and the file, and the logger is of the configured type.
THEOREM Configured == ProcessSpec => []ConfiguredAsDocumented
<1>1. ProcessInit => ConfiguredAsDocumented
  BY DEF ProcessInit, ConfiguredAsDocumented
<1>2. ASSUME ProcessTypeOK, ConfiguredAsDocumented, [ProcessNext]_allVars
      PROVE  ConfiguredAsDocumented'
  <2>1. CASE UNCHANGED processVars
    <3>1. UNCHANGED <<phase, given, argument, config, logger>>
      BY <2>1 DEF processVars, settingVars
    <3>2. /\ Documented("logging", "CONSOLE")' = Documented("logging", "CONSOLE")
          /\ Documented("https", FALSE)' = Documented("https", FALSE)
      BY <3>1, DocumentedKept
    <3> QED  BY <1>2, <3>1, <3>2 DEF ConfiguredAsDocumented
  <2>2. CASE phase' # "run"
    BY <2>2 DEF ConfiguredAsDocumented
  <2>3. CASE Prepare
    BY <1>2, <2>2, <2>3, PreparedAsDocumented
  <2>4. Boot \/ Parse \/ LoadConfigurationFile \/ RunServe \/ Install \/ Issue \/ AfterServe
        \/ Uninstall => phase' # "run"
    BY DEF Boot, Parse, LoadConfigurationFile, RunServe, Install, Issue, AfterServe, Uninstall,
           Enter, Exit
  <2> QED
    BY <1>2, <2>1, <2>2, <2>3, <2>4
       DEF ProcessNext, ProcessStep, Signal, ServeMain, Serving, allVars
<1> QED  BY <1>1, <1>2, ProcessTypeCorrect, PTL DEF ProcessSpec
====
