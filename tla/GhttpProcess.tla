---- MODULE GhttpProcess ----
(***************************************************************************)
(* One run of the ghttp process, from Execute to its exit status: the      *)
(* logger and the settings it starts with, the configuration file, the     *)
(* validation of the configuration, and then the serving, which is         *)
(* ServerRuntime's, with the provisioning of dynamic HTTPS around it.      *)
(*                                                                         *)
(* A setting is what a source gives for it; of a port it is kept where it  *)
(* came from, of everything else a configuration names only whether        *)
(* prepareServeConfiguration accepts it.                                   *)
(***************************************************************************)
EXTENDS ServerRuntime

CONSTANTS
    Settings, \* what flags, environment variables and the file may give
    Arguments, \* kinds of positional arguments
    Unset     \* a source gives nothing for a key

Sources   == {"flag", "env", "file"}
Logging   == {"CONSOLE", "JSON"}
AnySetting == [logging : Logging \cup {"", "XML", Unset},
               https : {TRUE, FALSE, Unset}, port : {"valid", "invalid", Unset}]

ASSUME SettingsAssumption  == Settings \subseteq [Sources -> AnySetting]
ASSUME ArgumentsAssumption == Arguments \subseteq {"none", "port", "page", "other"}

VARIABLES
    phase,       \* where Execute is
    given,       \* given[s]: what source s gives, while it may still be asked
    argument,    \* the positional argument
    config,      \* the ServeConfiguration, once it is built
    logger,      \* the type of resources.loggingService
    credentials, \* what this run put on the machine for dynamic HTTPS and did not remove
    serveFailed, \* executeHTTPSServe returned an error
    exitCode     \* what Execute returned

settingVars == <<given, argument, config, logger>>
processVars == <<phase, settingVars, credentials, serveFailed, exitCode>>
allVars     == <<vars, processVars>>

\* the files of CA and leaf, the CA in the store of the operating system (with the anchor copy
\* on Linux), and in profiles of Firefox
Credentials == {"files", "store", "profiles"}

NoSettings == [s \in Sources |-> [logging |-> Unset, https |-> Unset, port |-> Unset]]
NoConfig   == [mode |-> "none", port |-> "none", logging |-> "none"]

ProcessTypeOK ==
    /\ phase \in {"boot", "parse", "load", "prepare", "run", "install", "issue", "serve",
                  "uninstall", "exit"}
    /\ given \in [Sources -> AnySetting]
    /\ argument \in {"none", "port", "page", "other"}
    /\ config \in [mode : {"plain", "files", "dynamic"}, logging : Logging,
                   port : Sources \cup {"argument", "8000", "8443"}] \cup {NoConfig}
    /\ logger \in Logging
    /\ credentials \subseteq Credentials /\ serveFailed \in BOOLEAN
    /\ exitCode \in {0, 1}

ProcessInit ==
    /\ Init
    /\ phase = "boot"
    /\ given \in Settings /\ argument \in Arguments
    /\ config = NoConfig
    /\ logger = "CONSOLE"
    /\ credentials = {} /\ serveFailed = FALSE /\ exitCode = 0

-----------------------------------------------------------------------------
(* Settings: viper asks the flag first, if it was given, then the            *)
(* environment, then the file, once it has been read                         *)

Get(key, sources, default) ==
    LET Gives(s) == s \in sources /\ given[s][key] # Unset
    IN  IF Gives("flag") THEN given["flag"][key]
        ELSE IF Gives("env") THEN given["env"][key]
        ELSE IF Gives("file") THEN given["file"][key]
        ELSE default

\* NormalizeType: an empty type is the default one
NormalizeType(type) == IF type = "" THEN "CONSOLE" ELSE type

EnableDynamicHTTPS == Get("https", Sources, FALSE)

PortSource == IF argument = "port" THEN "argument"
              ELSE IF given["env"]["port"] # Unset THEN "env"
              ELSE IF given["file"]["port"] # Unset THEN "file"
              ELSE IF EnableDynamicHTTPS THEN "8443" ELSE "8000"

-----------------------------------------------------------------------------
(* Execute *)

Alive == main # "killed"

Enter(next) == phase' = next /\ UNCHANGED exitCode

\* The sources are not asked again.
Exit(code) == /\ phase' = "exit" /\ exitCode' = code
              /\ given' = NoSettings /\ argument' = "none"

Outside == UNCHANGED <<vars, serveFailed>>

\* updateLogger with what the environment says, before flags and file are
\* known: a type it does not know ends the run.  So does a missing home.
Boot ==
    /\ phase = "boot" /\ Alive
    /\ LET type == NormalizeType(Get("logging", {"env"}, "CONSOLE"))
       IN  \/ type \in Logging /\ logger' = type /\ Enter("parse") /\ UNCHANGED <<given, argument>>
           \/ Exit(1) /\ UNCHANGED logger
    /\ UNCHANGED <<config, credentials>> /\ Outside

\* cobra: flags or arguments it refuses, a request for help, or the commands
Parse ==
    /\ phase = "parse" /\ Alive
    /\ \/ Enter("load") /\ UNCHANGED <<given, argument>>
       \/ \E code \in {0, 1} : Exit(code)
    /\ UNCHANGED <<config, logger, credentials>> /\ Outside

\* A file that is named and missing, or that does not parse, is an error; a
\* default file that is missing gives nothing.
LoadConfigurationFile ==
    /\ phase = "load" /\ Alive
    /\ \/ Enter("prepare") /\ UNCHANGED <<given, argument>>
       \/ Exit(1)
    /\ UNCHANGED <<config, logger, credentials>> /\ Outside

\* What prepareServeConfiguration refuses because of these settings; it
\* refuses others for their directory, protocol, files and mappings.
Refused(tlsFiles) ==
    \/ argument = "other"
    \/ PortSource \in Sources /\ given[PortSource]["port"] = "invalid"
    \/ NormalizeType(Get("logging", Sources, "CONSOLE")) \notin Logging
    \/ EnableDynamicHTTPS /\ tlsFiles

\* Mutant: the logger made for the environment stays.
PrepareWithoutLogger ==
    /\ phase = "prepare" /\ Alive
    /\ \/ \E tlsFiles \in BOOLEAN :
             /\ ~Refused(tlsFiles)
             /\ config' = [mode |-> IF EnableDynamicHTTPS THEN "dynamic"
                                    ELSE IF tlsFiles THEN "files" ELSE "plain",
                           port |-> PortSource,
                           logging |-> NormalizeType(Get("logging", Sources, "CONSOLE"))]
             /\ Enter("run") /\ UNCHANGED <<given, argument, logger>>
       \/ Exit(1) /\ UNCHANGED <<config, logger>>
    /\ UNCHANGED credentials /\ Outside

\* prepareServeConfiguration, ending with the logger
Prepare ==
    /\ phase = "prepare" /\ Alive
    /\ \/ \E tlsFiles \in BOOLEAN :
             /\ ~Refused(tlsFiles)
             /\ config' = [mode |-> IF EnableDynamicHTTPS THEN "dynamic"
                                    ELSE IF tlsFiles THEN "files" ELSE "plain",
                           port |-> PortSource,
                           logging |-> NormalizeType(Get("logging", Sources, "CONSOLE"))]
             /\ logger' = config'.logging
             /\ Enter("run") /\ UNCHANGED <<given, argument>>
       \/ Exit(1) /\ UNCHANGED <<config, logger>>
    /\ UNCHANGED credentials /\ Outside

-----------------------------------------------------------------------------
(* runServe *)

RunServe ==
    /\ phase = "run" /\ Alive
    /\ Enter(IF config.mode = "dynamic" THEN "install" ELSE "serve")
    /\ given' = NoSettings /\ argument' = "none"
    /\ UNCHANGED <<config, logger, credentials>> /\ Outside

\* prepareHTTPSContext and runHTTPSSetup, which trusts the CA it wrote and then tells Firefox,
\* by an import or without one: an error ends the run with whatever was put there so far.
Install ==
    /\ phase = "install" /\ Alive
    /\ \/ /\ credentials' \in {{"files", "store"}, Credentials}
          /\ Enter("issue") /\ UNCHANGED <<given, argument>>
       \/ credentials' \in {{}, {"files"}, {"files", "store"}, Credentials} /\ Exit(1)
    /\ UNCHANGED <<config, logger>> /\ Outside

\* executeHTTPSServe up to Serve
Issue ==
    /\ phase = "issue" /\ Alive
    /\ \/ Enter("serve") /\ UNCHANGED serveFailed
       \/ Enter("uninstall") /\ serveFailed' = TRUE
    /\ UNCHANGED <<vars, settingVars, credentials>>

\* what ServerRuntime does from the signal context on; only with certificates
\* can configureTLS fail
Serving == phase = "serve" /\ UNCHANGED processVars
ServeMain == Serving /\ Main /\ (main = "configure" /\ config.mode = "plain" => main' = "select")

AfterServe ==
    /\ phase = "serve" /\ main = "returned"
    /\ IF config.mode = "dynamic"
       THEN /\ Enter("uninstall") /\ serveFailed' = (outcome # "ok")
            /\ UNCHANGED <<given, argument>>
       ELSE Exit(IF outcome = "ok" THEN 0 ELSE 1) /\ UNCHANGED serveFailed
    /\ UNCHANGED <<vars, config, logger, credentials>>

\* Without an error the operating system no longer trusts the CA, but files whose removal
\* failed stay, and so does the CA in profiles when there is no certutil or a profile is not
\* found: neither is reported.
Removed == \E rest \in SUBSET (credentials \ {"store"}) : credentials' = rest

\* An error comes before the files are touched: from the installer, from its store, or from a
\* profile after that.
NotRemoved == \E gone \in {{}, {"store"}, {"store", "profiles"}} : credentials' = credentials \ gone

\* Mutant: the exit status counts the errors.
UninstallCounting ==
    /\ phase = "uninstall" /\ Alive
    /\ LET failed == IF serveFailed THEN 1 ELSE 0
       IN  (Removed /\ Exit(failed)) \/ (NotRemoved /\ Exit(failed + 1))
    /\ UNCHANGED <<config, logger>> /\ Outside

\* Mutant: only the error of serving is returned.
UninstallUnreported ==
    /\ phase = "uninstall" /\ Alive
    /\ Removed \/ NotRemoved
    /\ Exit(IF serveFailed THEN 1 ELSE 0)
    /\ UNCHANGED <<config, logger>> /\ Outside

\* runHTTPSUninstall, whatever serving returned; both errors are joined
Uninstall ==
    /\ phase = "uninstall" /\ Alive
    /\ \/ Removed /\ Exit(IF serveFailed THEN 1 ELSE 0)
       \/ NotRemoved /\ Exit(1)
    /\ UNCHANGED <<config, logger>> /\ Outside

Signal == phase # "exit" /\ SignalArrives /\ UNCHANGED processVars

ProcessStep == Boot \/ Parse \/ LoadConfigurationFile \/ Prepare \/ RunServe \/ Install
               \/ Issue \/ ServeMain \/ AfterServe \/ Uninstall

ProcessNext ==
    \/ ProcessStep \/ Signal
    \/ Serving /\ (WatchSignal \/ GraceExpires \/ Listener \/ \E c \in Conns : Connection(c))

\* Goroutines run, timers fire, and the commands the process waits for return.
\* Nothing makes a listener fail, a client act or a request end.
ProcessFairness ==
    /\ WF_allVars(ProcessStep)
    /\ WF_allVars(Serving /\ WatchSignal)
    /\ WF_allVars(Serving /\ Listen) /\ WF_allVars(Serving /\ ReportError)
    /\ WF_allVars(Serving /\ closing /\ StopAccepting)
    /\ WF_allVars(Serving /\ GraceExpires)

ProcessSpec == ProcessInit /\ [][ProcessNext]_allVars /\ ProcessFairness

-----------------------------------------------------------------------------
(* Properties *)

\* The precedence ARCHITECTURE.md:19-23 gives the sources.
Rank == [file |-> 1, env |-> 2, flag |-> 3]
Highest(sources) == CHOOSE s \in sources : \A other \in sources : Rank[other] <= Rank[s]
Documented(key, default) ==
    LET setting == {s \in Sources : given[s][key] # Unset}
    IN  IF setting = {} THEN default ELSE given[Highest(setting)][key]

\* The configuration that is served is what the documented precedence makes of
\* the sources, with the default port of the scheme, and the logger in use
\* from then on is of the configured type, whatever the environment alone
\* suggested before the flags and the file were known.
ConfiguredAsDocumented == phase = "run" =>
    LET type  == Documented("logging", "CONSOLE")
        asked == {s \in {"env", "file"} : given[s]["port"] # Unset}
    IN  /\ config.logging = IF type = "" THEN "CONSOLE" ELSE type
        /\ logger = config.logging
        /\ (config.mode = "dynamic") = Documented("https", FALSE)
        /\ config.port = IF argument = "port" THEN "argument"
                         ELSE IF asked # {} THEN Highest(asked)
                         ELSE IF config.mode = "dynamic" THEN "8443" ELSE "8000"

\* Exit status zero of a run that served says that it was asked to stop, that no request was
\* cut, and that the operating system no longer trusts the CA this run made it trust.  It does
\* not say that the credential files are gone, nor the CA in Firefox: what could not be removed
\* of those is not reported.
ZeroMeansDone == phase = "exit" /\ exitCode = 0 =>
    /\ "store" \notin credentials
    /\ listener # "none" => closing /\ \A c \in Conns : conns[c] # "active"

\* A signal ends the process, wherever it is: at once, or by way of the
\* shutdown and the uninstall.
SignalEndsProcess == signals > 0 ~> (phase = "exit" \/ ~Alive)

=============================================================================
