---- MODULE TrustInstallers ----
(***************************************************************************)
(* The trust store installers of Linux, macOS and Windows and the Firefox  *)
(* integration they share, called by one ghttp after another: Install      *)
(* before serving, Uninstall afterwards, and the credential files that go  *)
(* when Uninstall succeeded.  HttpsLifecycle has the files and certificates*)
(* of the Linux installer in detail; here is what the platforms do alike,  *)
(* with one development CA that stores and profiles hold or do not.        *)
(*                                                                         *)
(* certutil is the name of two programs: NSS's, which the integration is   *)
(* written for, and the one every Windows has, which manages the store of  *)
(* the operating system.  What each accepts is modelled from its use here. *)
(***************************************************************************)
EXTENDS Naturals

CONSTANTS
    Profiles,  \* names of directories of Firefox profiles
    Platforms, \* operating systems ghttp was built for
    Faults,    \* operations that may fail: commands, reads, writes, removals
    MaxKills,  \* bound on the number of kills
    NoProfile  \* the step is about no profile

FaultKinds == {"command", "read", "write", "remove"}
Calls      == {"install", "uninstall"}
Operations == {"copy", "store", "delete", "discover", "import", "prefer", "remove"}

ASSUME PlatformsAssumption == Platforms \subseteq {"linux", "darwin", "windows", "other"}
ASSUME FaultsAssumption    == Faults \subseteq FaultKinds
ASSUME KillsAssumption     == MaxKills \in Nat
ASSUME NoProfileAssumption == NoProfile \notin Profiles

VARIABLES
    platform,    \* GOOS
    certutil,    \* what exec.LookPath finds: "none", "nss" or "windows"
    at,          \* the step the running call is about to take, and its profile
    call,        \* the running call, or "none"
    last,        \* the last call that ended
    outcome,     \* how it ended
    found,       \* the profiles the call discovered
    remaining,   \* those its loop has still to visit
    failures,    \* integrationErrors, removalErrors: some were collected
    buffer,      \* user.js as the call read it
    store,       \* the store of the operating system holds the CA
    copy,        \* the anchor copy exists (Linux)
    database,    \* database[p]: profile p has no NSS database, or one with or without the CA
    prefs,       \* prefs[p]: user.js of p: the user's own lines, and ghttp's line
    credentials, \* the files of the certificate directory exist
    authored,    \* the profiles whose users wrote lines of their own
    exposed,     \* the profiles whose user.js was written in a way that may lose them
    kills        \* number of kills so far

callVars    == <<at, call, last, outcome, found, remaining, failures, buffer>>
profileVars == <<database, prefs, authored, exposed>>
systemVars  == <<platform, certutil, store, copy, credentials, kills>>
vars        == <<callVars, profileVars, systemVars>>

Idle    == <<"idle", NoProfile>>
UserJs  == [own : BOOLEAN, lines : Nat]
Missing == [own |-> FALSE, lines |-> 0]

TypeOK ==
    /\ platform \in Platforms
    /\ certutil \in {"none", "nss", "windows"}
    /\ at \in {Idle} \cup (Operations \X {NoProfile}) \cup ({"cut", "fill"} \X found)
    /\ call \in Calls \cup {"none"} /\ last \in Calls \cup {"none"}
    /\ (call = "none") = (at = Idle)
    /\ outcome \in {"none", "ok", "error", "killed"}
    /\ found \subseteq Profiles /\ remaining \subseteq found
    /\ {failures, store, copy, credentials} \subseteq BOOLEAN
    /\ buffer \in UserJs
    /\ database \in [Profiles -> {"none", "without", "with"}]
    /\ prefs \in [Profiles -> UserJs]
    /\ authored \subseteq Profiles /\ exposed \subseteq Profiles
    /\ kills \in Nat

Init ==
    /\ platform \in Platforms
    /\ certutil = "none"
    /\ at = Idle /\ call = "none" /\ last = "none" /\ outcome = "none"
    /\ found = {} /\ remaining = {} /\ failures = FALSE /\ buffer = Missing
    /\ store = FALSE /\ copy = FALSE /\ credentials = FALSE
    /\ database \in [Profiles -> {"none", "without"}]
    /\ prefs = [p \in Profiles |-> Missing]
    /\ authored = {} /\ exposed = {} /\ kills = 0

-----------------------------------------------------------------------------
(* Calls *)

\* certutil as the call will find it: on Windows there is always one
CertutilOn(system) == IF system = "windows" THEN {"windows", "nss"} ELSE {"none", "nss"}

Goto(op) == at' = <<op, NoProfile>>

\* a step within the call that looks at no profile
Within == UNCHANGED <<call, last, outcome, found, remaining, failures, buffer, credentials>>

\* The call ends.  After an uninstall that succeeded, runHTTPSUninstall
\* removes the credential files and ignores whether that works.
Return(how) ==
    /\ at' = Idle /\ call' = "none"
    /\ last' = call /\ outcome' = how
    /\ remaining' = {} /\ failures' = FALSE /\ buffer' = Missing
    /\ credentials' \in IF call = "install" \/ how # "ok" THEN {credentials}
                        ELSE {FALSE} \cup {kept \in {TRUE} : "remove" \in Faults}

Fail(kind) == kind \in Faults /\ Return("error") /\ UNCHANGED found

Installed == last = "install" /\ outcome = "ok"

\* The setup of a run, once the CA files exist, and the uninstall that
\* follows the serving of a run whose setup succeeded.
Begin ==
    /\ call = "none"
    /\ call' = IF Installed THEN "uninstall" ELSE "install"
    /\ certutil' \in CertutilOn(platform)
    /\ Goto(IF call' = "install" /\ platform = "linux" THEN "copy" ELSE "store")
    /\ last' = "none" /\ outcome' = "none"
    /\ found' = {}
    /\ credentials' = TRUE
    /\ UNCHANGED <<remaining, failures, buffer, profileVars, platform, store, copy, kills>>

\* Linux: the certificate is copied to where the anchor is kept
CopyCertificate ==
    /\ at = <<"copy", NoProfile>>
    /\ \/ copy' = TRUE /\ Goto("store") /\ Within
       \/ copy' \in {copy, TRUE} /\ (Fail("read") \/ Fail("write"))
    /\ UNCHANGED <<profileVars, platform, certutil, store, kills>>

\* The command that changes the store can run and has what it needs; for
\* other systems NewInstaller returns an error instead of an installer.
StoreCommandWorks ==
    /\ platform = "windows" => certutil = "windows"
    /\ platform = "linux" => copy
    /\ platform # "other"

\* Mutant: a failing command does not end the call.
ChangeStoreIgnoringError ==
    /\ at = <<"store", NoProfile>>
    /\ \/ store' = (call = "install")
       \/ "command" \in Faults /\ UNCHANGED store
    /\ Goto(IF call = "uninstall" /\ platform = "linux" THEN "delete" ELSE "discover")
    /\ Within
    /\ UNCHANGED <<profileVars, platform, certutil, copy, kills>>

\* trust, security or certutil on the store of the operating system.  Whether
\* a removal objects to a certificate the store does not hold is left open.
ChangeStore ==
    /\ at = <<"store", NoProfile>>
    /\ \/ /\ StoreCommandWorks
          /\ store' = (call = "install")
          /\ Goto(IF call = "uninstall" /\ platform = "linux" THEN "delete" ELSE "discover")
          /\ Within
       \/ /\ ~StoreCommandWorks \/ (call = "uninstall" /\ ~store)
          /\ Return("error") /\ UNCHANGED <<found, store>>
       \/ Fail("command") /\ UNCHANGED store
    /\ UNCHANGED <<profileVars, platform, certutil, copy, kills>>

\* Linux: the anchor copy goes after the anchor
DeleteCopy ==
    /\ at = <<"delete", NoProfile>>
    /\ \/ copy' = FALSE /\ Goto("discover") /\ Within
       \/ Fail("remove") /\ UNCHANGED copy
    /\ UNCHANGED <<profileVars, platform, certutil, store, kills>>

-----------------------------------------------------------------------------
(* Firefox: discoverFirefoxProfiles, then a loop over what it found *)

Discoverable == {p \in Profiles : database[p] # "none"}

\* Directories that cannot be read hold no profiles.
Discover ==
    /\ at = <<"discover", NoProfile>>
    /\ found' \in IF "read" \in Faults THEN SUBSET Discoverable ELSE {Discoverable}
    /\ IF found' = {} \/ (call = "uninstall" /\ certutil = "none")
       THEN Return("ok")
       ELSE /\ remaining' = found'
            /\ Goto(IF call = "uninstall" THEN "remove"
                    ELSE IF certutil = "none" THEN "prefer" ELSE "import")
            /\ UNCHANGED <<call, last, outcome, failures, buffer, credentials>>
    /\ UNCHANGED <<profileVars, platform, certutil, store, copy, kills>>

\* what a loop leaves alone while it goes from profile to profile
InLoop == UNCHANGED <<call, last, outcome, found, systemVars>>

Visit(p) == remaining' = remaining \ {p}

\* Mutant: the outcome of the last profile is taken for that of all.
ImportIntoLast(p) ==
    /\ at = <<"import", NoProfile>>
    /\ p \in remaining /\ Visit(p)
    /\ \/ certutil = "nss" /\ database' = [database EXCEPT ![p] = "with"] /\ failures' = FALSE
       \/ /\ certutil # "nss" \/ "command" \in Faults
          /\ failures' = TRUE /\ UNCHANGED database
    /\ InLoop /\ UNCHANGED <<at, buffer, prefs, authored, exposed>>

\* certutil -A: the other certutil knows no such option
ImportInto(p) ==
    /\ at = <<"import", NoProfile>>
    /\ p \in remaining /\ Visit(p)
    /\ \/ certutil = "nss" /\ database' = [database EXCEPT ![p] = "with"] /\ UNCHANGED failures
       \/ /\ certutil # "nss" \/ "command" \in Faults
          /\ failures' = TRUE /\ UNCHANGED database
    /\ InLoop /\ UNCHANGED <<at, buffer, prefs, authored, exposed>>

\* Mutant: every directory is given the preference, not only what was found.
AfterImportsEverywhere ==
    /\ at = <<"import", NoProfile>> /\ remaining = {}
    /\ IF failures
       THEN /\ Goto("prefer") /\ remaining' = Profiles /\ failures' = FALSE
            /\ UNCHANGED <<call, last, outcome, buffer, credentials>>
       ELSE Return("ok")
    /\ UNCHANGED <<found, profileVars, platform, certutil, store, copy, kills>>

\* One failed import is enough to fall back to the preference everywhere.
AfterImports ==
    /\ at = <<"import", NoProfile>> /\ remaining = {}
    /\ IF failures
       THEN /\ Goto("prefer") /\ remaining' = found /\ failures' = FALSE
            /\ UNCHANGED <<call, last, outcome, buffer, credentials>>
       ELSE Return("ok")
    /\ UNCHANGED <<found, profileVars, platform, certutil, store, copy, kills>>

\* Mutant: whatever user.js holds, the line is written to it.
ReadUserJsUnchecked(p) ==
    /\ at = <<"prefer", NoProfile>>
    /\ p \in remaining /\ Visit(p)
    /\ buffer' = prefs[p] /\ at' = <<"cut", p>>
    /\ UNCHANGED failures
    /\ InLoop /\ UNCHANGED profileVars

\* A user.js that has the line is left alone; one that is missing reads as
\* an empty one.
ReadUserJs(p) ==
    /\ at = <<"prefer", NoProfile>>
    /\ p \in remaining /\ Visit(p)
    /\ \/ prefs[p].lines > 0 /\ UNCHANGED <<at, buffer, failures>>
       \/ prefs[p].lines = 0 /\ buffer' = prefs[p] /\ at' = <<"cut", p>> /\ UNCHANGED failures
       \/ "read" \in Faults /\ failures' = TRUE /\ UNCHANGED <<at, buffer>>
    /\ InLoop /\ UNCHANGED profileVars

\* WriteFile truncates the file that is there, with what its user wrote to it
\* since it was read, ...
TruncateUserJs(p) ==
    /\ at = <<"cut", p>>
    /\ \/ /\ prefs' = [prefs EXCEPT ![p] = Missing]
          /\ exposed' = IF prefs[p] = buffer THEN exposed ELSE exposed \cup {p}
          /\ at' = <<"fill", p>>
          /\ UNCHANGED <<buffer, failures>>
       \/ /\ "write" \in Faults
          /\ failures' = TRUE /\ buffer' = Missing /\ Goto("prefer")
          /\ UNCHANGED <<prefs, exposed>>
    /\ InLoop /\ UNCHANGED <<remaining, database, authored>>

\* ... and writes what the call read, with the line appended.
FillUserJs(p) ==
    /\ at = <<"fill", p>>
    /\ \/ /\ prefs' = [prefs EXCEPT ![p] = [buffer EXCEPT !.lines = @ + 1]]
          /\ exposed' = IF prefs[p] = Missing THEN exposed ELSE exposed \cup {p}
          /\ UNCHANGED failures
       \/ /\ "write" \in Faults
          /\ failures' = TRUE /\ exposed' = exposed \cup {p} /\ UNCHANGED prefs
    /\ buffer' = Missing /\ Goto("prefer")
    /\ InLoop /\ UNCHANGED <<remaining, database, authored>>

AfterPreferences ==
    /\ at = <<"prefer", NoProfile>> /\ remaining = {}
    /\ Return(IF failures THEN "error" ELSE "ok")
    /\ UNCHANGED <<found, profileVars, platform, certutil, store, copy, kills>>

\* Mutant: a removal that fails is not remembered.
RemoveFromUnnoticed(p) ==
    /\ at = <<"remove", NoProfile>>
    /\ p \in remaining /\ Visit(p)
    /\ \/ certutil = "nss" /\ database' = [database EXCEPT ![p] = "without"]
       \/ certutil # "nss" /\ UNCHANGED database
       \/ "command" \in Faults /\ UNCHANGED database
    /\ InLoop /\ UNCHANGED <<at, failures, buffer, prefs, authored, exposed>>

\* certutil -D: fails for a profile that does not hold the certificate
RemoveFrom(p) ==
    /\ at = <<"remove", NoProfile>>
    /\ p \in remaining /\ Visit(p)
    /\ \/ /\ certutil = "nss" /\ database[p] = "with"
          /\ database' = [database EXCEPT ![p] = "without"] /\ UNCHANGED failures
       \/ /\ certutil # "nss" \/ database[p] # "with" \/ "command" \in Faults
          /\ failures' = TRUE /\ UNCHANGED database
    /\ InLoop /\ UNCHANGED <<at, buffer, prefs, authored, exposed>>

AfterRemovals ==
    /\ at = <<"remove", NoProfile>> /\ remaining = {}
    /\ Return(IF failures THEN "error" ELSE "ok")
    /\ UNCHANGED <<found, profileVars, platform, certutil, store, copy, kills>>

-----------------------------------------------------------------------------
(* The environment *)

\* SIGKILL, within a call or while serving
Kill ==
    /\ call # "none" \/ Installed
    /\ kills < MaxKills /\ kills' = kills + 1
    /\ Return("killed")
    /\ exposed' = IF at[1] = "fill" THEN exposed \cup {at[2]} ELSE exposed
    /\ UNCHANGED <<found, database, prefs, authored, platform, certutil, store, copy>>

\* Firefox creates a profile; directories of profiles have random names, so
\* that one the last call found does not come back.
ProfileAppears(p) ==
    /\ database[p] = "none" /\ p \notin found
    /\ database' = [database EXCEPT ![p] = "without"]
    /\ UNCHANGED <<callVars, prefs, authored, exposed, systemVars>>

\* A profile is deleted, user.js and all, while no call runs.
ProfileVanishes(p) ==
    /\ call = "none" /\ database[p] # "none"
    /\ database' = [database EXCEPT ![p] = "none"]
    /\ prefs' = [prefs EXCEPT ![p] = Missing]
    /\ authored' = authored \ {p} /\ exposed' = exposed \ {p}
    /\ UNCHANGED <<callVars, systemVars>>

\* The user writes lines of their own to user.js, at any time.
UserWrites(p) ==
    /\ database[p] # "none" /\ p \notin authored
    /\ prefs' = [prefs EXCEPT ![p].own = TRUE]
    /\ authored' = authored \cup {p}
    /\ UNCHANGED <<callVars, database, exposed, systemVars>>

ProfileStep(p) ==
    \/ ImportInto(p) \/ RemoveFrom(p)
    \/ ReadUserJs(p) \/ TruncateUserJs(p) \/ FillUserJs(p)

ProgramStep ==
    \/ CopyCertificate \/ ChangeStore \/ DeleteCopy \/ Discover
    \/ AfterImports \/ AfterPreferences \/ AfterRemovals
    \/ \E p \in Profiles : ProfileStep(p)

Next ==
    \/ Begin \/ ProgramStep \/ Kill
    \/ \E p \in Profiles : ProfileAppears(p) \/ ProfileVanishes(p) \/ UserWrites(p)

Spec == Init /\ [][Next]_vars

-----------------------------------------------------------------------------
(* Safety *)

Ended(c) == last = c /\ outcome = "ok"
Present(p) == database[p] # "none"

\* When Install succeeded the operating system trusts the CA, and so does
\* every Firefox profile it found that still exists: by an import, or by a
\* preference that makes Firefox follow the operating system.
InstallReachesProfiles == Ended("install") =>
    /\ store
    /\ \A p \in found : Present(p) => database[p] = "with" \/ prefs[p].lines > 0

\* When Uninstall succeeded nothing of the operating system trusts the CA and no copy of it is
\* left there.  A profile may still hold the CA, without a word, for two reasons and no other:
\* certutil was not there to remove it with, or the call did not find the profile, whose
\* directory it could not read.
UninstallClears == Ended("uninstall") =>
    /\ ~store /\ ~copy
    /\ \A p \in Profiles : database[p] = "with" => certutil = "none" \/ p \notin found

\* What users wrote to user.js stays, and the preference is added once,
\* however often ghttp runs; lines are only lost by a write that was cut
\* short or that met an edit of the same moment.
UserLinesKept == \A p \in Profiles :
    /\ prefs[p].lines <= 1
    /\ p \in authored \ exposed => prefs[p].own \/ at = <<"fill", p>>

Change == INSTANCE TrustChange WITH
    trusted  <- store,
    imported <- {p \in Profiles : database[p] = "with"}

\* The installers of all platforms keep the order TrustChange asks for.
ImplementsTrustChange == Change!Spec

\* README.md:63 says of ghttp --https that it "installs the development CA,
\* serves HTTPS, and removes credentials on exit".
RemovesOnExit == last = "uninstall" => ~credentials

=============================================================================
