---- MODULE TrustInstallersProofs ----
(***************************************************************************)
(* Theorems about TrustInstallers for any set of Firefox profiles, any     *)
(* platforms and faults and any number of kills: what the success of a     *)
(* call means for the stores and the profiles, what becomes of user.js,    *)
(* and that the installers implement TrustChange.                          *)
(***************************************************************************)
EXTENDS TrustInstallers, TLAPS

\* Where a call is says which call it is, nothing is known of it before it
\* ends, and nothing is left to do afterwards.  An anchor copy is a matter of Linux.
Order ==
    /\ call = "none" => remaining = {}
    /\ call # "none" => last = "none" /\ outcome = "none"
    /\ at[1] \in {"copy", "import", "prefer", "cut", "fill"} => call = "install"
    /\ at[1] \in {"delete", "remove"} => call = "uninstall"
    /\ at[1] = "copy" \/ copy => platform = "linux"

\* The store of the operating system is changed before any profile is
\* looked at, and the copy goes with the anchor.
StoreFirst ==
    /\ call = "install" /\ at[1] \in {"discover", "import", "prefer", "cut", "fill"} => store
    /\ call = "uninstall" /\ at[1] \in {"delete", "discover", "remove"} => ~store
    /\ call = "uninstall" /\ at[1] \in {"discover", "remove"} => ~copy

\* A loop has dealt with the profiles it visited, or remembers that it failed.
Reached ==
    /\ at[1] = "import" => failures \/ \A p \in found \ remaining : database[p] = "with"
    /\ at[1] \in {"prefer", "cut", "fill"} =>
          failures \/ \A p \in found \ remaining :
                         prefs[p].lines > 0 \/ at = <<"cut", p>> \/ at = <<"fill", p>>
    /\ at[1] = "remove" => failures \/ \A p \in found \ remaining : database[p] # "with"

\* What is about to be written to a truncated user.js is what was in it, and
\* lacks the line.
Kept ==
    /\ at[1] \in {"cut", "fill"} => buffer.lines = 0
    /\ \A p \in Profiles :
          at = <<"fill", p>> /\ p \in authored \ exposed => buffer.own \/ prefs[p] # Missing

Promises == InstallReachesProfiles /\ UninstallClears /\ UserLinesKept

IInv == TypeOK /\ Order /\ StoreFirst /\ Reached /\ Kept /\ Promises

-----------------------------------------------------------------------------
(* Calls that end, and calls that go on *)

\* What a returning call leaves has its type.
LEMMA Ending ==
    ASSUME TypeOK, NEW how \in {"ok", "error", "killed"}, Return(how),
           found' \subseteq Profiles
    PROVE  /\ at' = Idle /\ call' = "none" /\ last' \in Calls \cup {"none"}
           /\ outcome' \in {"none", "ok", "error", "killed"}
           /\ remaining' \subseteq found' /\ {failures', credentials'} \subseteq BOOLEAN
           /\ buffer' \in UserJs
<1>1. credentials' \in BOOLEAN
  <2>1. credentials \in BOOLEAN
    BY Zenon DEF TypeOK
  <2>2. credentials' \in {credentials} \cup {FALSE} \cup {kept \in {TRUE} : "remove" \in Faults}
    BY Zenon DEF Return
  <2> QED  BY <2>1, <2>2, Zenon
<1>2. failures' \in BOOLEAN
  BY Zenon DEF Return
<1> QED  BY <1>1, <1>2 DEF Return, Idle, Missing, UserJs, TypeOK

\* A call that goes on is at one of its operations.
LEMMA GoingOn ==
    ASSUME NEW op \in Operations, Goto(op)
    PROVE  /\ at' \in {Idle} \cup (Operations \X {NoProfile}) \cup ({"cut", "fill"} \X found')
           /\ at' # Idle /\ at'[1] = op
BY DEF Goto, Operations, Idle

\* What is no profile's business leaves the profiles' types alone.
ProfileTypes ==
    /\ database \in [Profiles -> {"none", "without", "with"}]
    /\ prefs \in [Profiles -> UserJs]
    /\ authored \subseteq Profiles /\ exposed \subseteq Profiles

\* A call that returns keeps its types, and nothing is claimed of a call any more.
LEMMA Returned ==
    ASSUME TypeOK, NEW how \in {"ok", "error", "killed"}, Return(how),
           found' \subseteq Profiles, ProfileTypes', {store', copy'} \subseteq BOOLEAN,
           UNCHANGED <<platform, certutil>>, kills' \in Nat, copy' => platform = "linux"
    PROVE  TypeOK' /\ Order' /\ StoreFirst' /\ Reached' /\ Kept'
<1>1. /\ at' = Idle /\ call' = "none" /\ last' \in Calls \cup {"none"}
      /\ outcome' \in {"none", "ok", "error", "killed"}
      /\ remaining' \subseteq found' /\ {failures', credentials'} \subseteq BOOLEAN
      /\ buffer' \in UserJs
  BY Ending
<1>2. (call' = "none") = (at' = Idle)
  BY <1>1
<1>3. TypeOK'
  BY <1>1, <1>2 DEF TypeOK, ProfileTypes
<1>4. at'[1] = "idle"
  BY <1>1 DEF Idle
<1>5. remaining' = {}
  BY DEF Return
<1> QED  BY <1>1, <1>3, <1>4, <1>5 DEF Order, StoreFirst, Reached, Kept, Idle

\* A call that goes to its next operation, and looks at no profile, keeps its types.
LEMMA Continued ==
    ASSUME TypeOK, call \in Calls, NEW op \in Operations, Goto(op), Within,
           UNCHANGED <<database, prefs, authored, exposed, platform, certutil, kills>>,
           {store', copy'} \subseteq BOOLEAN
    PROVE  TypeOK' /\ at'[1] = op
<1>1. /\ at' \in {Idle} \cup (Operations \X {NoProfile}) \cup ({"cut", "fill"} \X found')
      /\ at' # Idle /\ at'[1] = op
  BY GoingOn
<1>2. (call' = "none") = (at' = Idle)
  BY <1>1 DEF Within, Calls
<1> QED  BY <1>1, <1>2 DEF TypeOK, Within

-----------------------------------------------------------------------------
(* One lemma per action *)

\* A call begins with nothing found and nothing known.
LEMMA BeginKeeps ==
    ASSUME IInv, Begin
    PROVE  IInv'
<1> USE DEF IInv, Begin, Installed, Goto, callVars, profileVars, systemVars, Idle
<1>1. TypeOK'
  <2>1. PICK op \in {"copy", "store"} : Goto(op)
    BY Zenon
  <2>2. /\ at' \in {Idle} \cup (Operations \X {NoProfile}) \cup ({"cut", "fill"} \X found')
        /\ at' # Idle
    BY <2>1, GoingOn DEF Operations
  <2>3. call' \in Calls /\ (call' = "none") = (at' = Idle)
    BY <2>2 DEF Calls
  <2>4. {failures', store', copy', credentials'} \subseteq BOOLEAN
    BY Zenon DEF TypeOK
  <2>5. certutil' \in {"none", "nss", "windows"}
    BY DEF CertutilOn
  <2>6. remaining' = {}
    BY DEF Order
  <2> QED  BY <2>2, <2>3, <2>4, <2>5, <2>6 DEF TypeOK
<1>2. Order'
  BY DEF TypeOK, Order, Operations
<1>3. StoreFirst'
  BY DEF TypeOK, Order, StoreFirst, Operations
<1>4. Reached'
  BY DEF TypeOK, Reached, Operations, Missing, UserJs
<1>5. Kept'
  BY DEF TypeOK, Kept, Missing, UserJs, Promises, UserLinesKept, Operations
<1>6. InstallReachesProfiles'
  BY DEF TypeOK, Order, StoreFirst, Reached, Promises, InstallReachesProfiles, Ended, Present, Operations
<1>7. UninstallClears'
  BY DEF TypeOK, Order, StoreFirst, Reached, Promises, UninstallClears, Ended, Operations
<1>8. UserLinesKept'
  BY DEF TypeOK, Kept, Promises, UserLinesKept, Missing, UserJs, Operations
<1> QED  BY <1>1, <1>2, <1>3, <1>4, <1>5, <1>6, <1>7, <1>8 DEF Promises

\* The copy of the certificate is Linux's, and made before anything else.
LEMMA CopyKeeps ==
    ASSUME IInv, CopyCertificate
    PROVE  IInv'
<1>1. /\ call = "install" /\ platform = "linux" /\ last = "none" /\ outcome = "none"
      /\ call \in Calls /\ at[1] = "copy" /\ TypeOK
  BY DEF CopyCertificate, IInv, Order, TypeOK, Calls
<1>2. /\ UNCHANGED <<database, prefs, authored, exposed, platform, certutil, store, kills>>
      /\ copy \in BOOLEAN /\ store' \in BOOLEAN
  BY <1>1, Zenon DEF CopyCertificate, profileVars, TypeOK
<1>3. ProfileTypes' /\ kills' \in Nat
  BY <1>1, <1>2 DEF TypeOK, ProfileTypes
<1>4. CASE copy' = TRUE /\ Goto("store") /\ Within
  <2>1. copy' \in BOOLEAN
    BY <1>4, Zenon
  <2>2. TypeOK' /\ at'[1] = "store"
    BY <1>1, <1>2, <1>4, <2>1, Continued DEF Operations
  <2>3. Order' /\ StoreFirst' /\ Reached' /\ Kept'
    BY <1>1, <1>2, <1>4, <2>2 DEF Within, Goto, Order, StoreFirst, Reached, Kept
  <2>4. InstallReachesProfiles' /\ UninstallClears'
    BY <1>1, <1>4 DEF Within, InstallReachesProfiles, UninstallClears, Ended
  <2>5. UserLinesKept'
    BY <1>1, <1>2 DEF IInv, Promises, UserLinesKept
  <2> QED  BY <2>2, <2>3, <2>4, <2>5 DEF IInv, Promises
<1>5. CASE copy' \in {copy, TRUE} /\ Return("error") /\ found' = found
  <2>1. copy' \in BOOLEAN
    BY <1>2, <1>5, Zenon
  <2>2. TypeOK' /\ Order' /\ StoreFirst' /\ Reached' /\ Kept'
    BY <1>1, <1>2, <1>3, <1>5, <2>1, Returned DEF TypeOK
  <2>3. InstallReachesProfiles' /\ UninstallClears'
    BY <1>5 DEF Return, InstallReachesProfiles, UninstallClears, Ended
  <2>4. UserLinesKept'
    BY <1>1, <1>2 DEF IInv, Promises, UserLinesKept
  <2> QED  BY <2>2, <2>3, <2>4 DEF IInv, Promises
<1> QED  BY <1>4, <1>5 DEF CopyCertificate, Fail

\* The store of the operating system comes before the profiles.
LEMMA StoreKeeps ==
    ASSUME IInv, ChangeStore
    PROVE  IInv'
<1>1. /\ call \in Calls /\ last = "none" /\ outcome = "none" /\ at[1] = "store" /\ TypeOK
      /\ copy => platform = "linux"
  BY DEF ChangeStore, IInv, Order, TypeOK, Calls, Idle
<1>2. /\ UNCHANGED <<database, prefs, authored, exposed, platform, certutil, copy, kills>>
      /\ {store, copy, copy'} \subseteq BOOLEAN
  BY <1>1, Zenon DEF ChangeStore, profileVars, TypeOK
<1>3. ProfileTypes' /\ kills' \in Nat
  BY <1>1, <1>2 DEF TypeOK, ProfileTypes
<1>4. UserLinesKept'
  BY <1>1, <1>2 DEF IInv, Promises, UserLinesKept
<1>5. ASSUME NEW next \in {"delete", "discover"}, store' = (call = "install"), Within, Goto(next),
             next = "delete" <=> call = "uninstall" /\ platform = "linux"
      PROVE  IInv'
  <2>1. store' \in BOOLEAN
    BY <1>5, Zenon
  <2>2. TypeOK' /\ at'[1] = next
    BY <1>1, <1>2, <1>5, <2>1, Continued DEF Operations
  <2>3. (call = "install" => store') /\ (call = "uninstall" => ~store')
    BY <1>5
  <2>4. next = "discover" /\ call = "uninstall" => ~copy
    BY <1>1, <1>5
  <2>5. Order' /\ StoreFirst' /\ Reached' /\ Kept'
    BY <1>1, <1>2, <1>5, <2>2, <2>3, <2>4
       DEF Within, Goto, Calls, Order, StoreFirst, Reached, Kept
  <2>6. InstallReachesProfiles' /\ UninstallClears'
    BY <1>1, <1>5 DEF Within, InstallReachesProfiles, UninstallClears, Ended
  <2> QED  BY <1>4, <2>2, <2>5, <2>6 DEF IInv, Promises
<1>6. CASE Return("error") /\ UNCHANGED <<found, store>>
  <2>1. store' \in BOOLEAN /\ found' \subseteq Profiles
    BY <1>1, <1>6, Zenon DEF TypeOK
  <2>2. TypeOK' /\ Order' /\ StoreFirst' /\ Reached' /\ Kept'
    BY <1>1, <1>2, <1>3, <1>6, <2>1, Returned
  <2>3. InstallReachesProfiles' /\ UninstallClears'
    BY <1>6 DEF Return, InstallReachesProfiles, UninstallClears, Ended
  <2> QED  BY <1>4, <2>2, <2>3 DEF IInv, Promises
<1> QED  BY <1>5, <1>6 DEF ChangeStore, Fail

\* Linux: the anchor copy goes before the profiles.
LEMMA DeleteKeeps ==
    ASSUME IInv, DeleteCopy
    PROVE  IInv'
<1>1. /\ call = "uninstall" /\ ~store /\ last = "none" /\ outcome = "none"
      /\ call \in Calls /\ at[1] = "delete" /\ TypeOK /\ (copy => platform = "linux")
  BY DEF DeleteCopy, IInv, Order, StoreFirst, TypeOK, Calls
<1>2. /\ UNCHANGED <<database, prefs, authored, exposed, platform, certutil, store, kills>>
      /\ {copy, store, store'} \subseteq BOOLEAN
  BY <1>1, Zenon DEF DeleteCopy, profileVars, TypeOK
<1>3. ProfileTypes' /\ kills' \in Nat
  BY <1>1, <1>2 DEF TypeOK, ProfileTypes
<1>4. UserLinesKept'
  BY <1>1, <1>2 DEF IInv, Promises, UserLinesKept
<1>5. CASE copy' = FALSE /\ Goto("discover") /\ Within
  <2>1. copy' \in BOOLEAN
    BY <1>5, Zenon
  <2>2. TypeOK' /\ at'[1] = "discover"
    BY <1>1, <1>2, <1>5, <2>1, Continued DEF Operations
  <2>3. Order' /\ StoreFirst' /\ Reached' /\ Kept'
    BY <1>1, <1>2, <1>5, <2>2 DEF Within, Goto, Order, StoreFirst, Reached, Kept
  <2>4. InstallReachesProfiles' /\ UninstallClears'
    BY <1>1, <1>5 DEF Within, InstallReachesProfiles, UninstallClears, Ended
  <2> QED  BY <1>4, <2>2, <2>3, <2>4 DEF IInv, Promises
<1>6. CASE Return("error") /\ UNCHANGED <<found, copy>>
  <2>1. copy' \in BOOLEAN /\ found' \subseteq Profiles
    BY <1>1, <1>6, Zenon DEF TypeOK
  <2>2. TypeOK' /\ Order' /\ StoreFirst' /\ Reached' /\ Kept'
    BY <1>1, <1>2, <1>3, <1>6, <2>1, Returned
  <2>3. InstallReachesProfiles' /\ UninstallClears'
    BY <1>6 DEF Return, InstallReachesProfiles, UninstallClears, Ended
  <2> QED  BY <1>4, <2>2, <2>3 DEF IInv, Promises
<1> QED  BY <1>5, <1>6 DEF DeleteCopy, Fail

\* A call without profiles ends; otherwise a loop starts with all of them to visit.
LEMMA DiscoverKeeps ==
    ASSUME IInv, Discover
    PROVE  IInv'
<1>1. /\ last = "none" /\ outcome = "none" /\ call \in Calls /\ at[1] = "discover" /\ TypeOK
      /\ (copy => platform = "linux") /\ (call = "install" => store)
      /\ (call = "uninstall" => ~store /\ ~copy)
  BY DEF Discover, IInv, Order, StoreFirst, TypeOK, Calls, Idle
<1>2. /\ UNCHANGED <<database, prefs, authored, exposed, platform, certutil, store, copy, kills>>
      /\ {copy, store, copy', store'} \subseteq BOOLEAN
  BY <1>1, Zenon DEF Discover, profileVars, TypeOK
<1>3. ProfileTypes' /\ kills' \in Nat /\ found' \subseteq Profiles
  <2>1. found' \subseteq Profiles
    BY DEF Discover, Discoverable
  <2> QED  BY <1>1, <1>2, <2>1 DEF TypeOK, ProfileTypes
<1>4. UserLinesKept'
  BY <1>1, <1>2 DEF IInv, Promises, UserLinesKept, Discover, Goto, Return, Idle
<1>5. CASE Return("ok") /\ (found' = {} \/ (call = "uninstall" /\ certutil = "none"))
  <2>1. TypeOK' /\ Order' /\ StoreFirst' /\ Reached' /\ Kept'
    BY <1>1, <1>2, <1>3, <1>5, Returned
  <2>2. InstallReachesProfiles' /\ UninstallClears'
    BY <1>1, <1>2, <1>5 DEF Return, InstallReachesProfiles, UninstallClears, Ended
  <2> QED  BY <1>4, <2>1, <2>2 DEF IInv, Promises
<1>6. ASSUME NEW op \in {"remove", "prefer", "import"}, Goto(op), remaining' = found',
             op = "remove" <=> call = "uninstall",
             UNCHANGED <<call, last, outcome, failures, buffer, credentials>>
      PROVE  IInv'
  <2>1. /\ at' \in {Idle} \cup (Operations \X {NoProfile}) \cup ({"cut", "fill"} \X found')
        /\ at' # Idle /\ at'[1] = op
    BY <1>6, GoingOn DEF Operations
  <2>2. (call' = "none") = (at' = Idle)
    BY <1>1, <1>6, <2>1 DEF Calls
  <2>3. TypeOK'
    BY <1>1, <1>2, <1>3, <1>6, <2>1, <2>2 DEF TypeOK, ProfileTypes
  <2>4. Order' /\ StoreFirst' /\ Reached' /\ Kept'
    BY <1>1, <1>2, <1>6, <2>1 DEF Goto, Calls, Order, StoreFirst, Reached, Kept
  <2>5. InstallReachesProfiles' /\ UninstallClears'
    BY <1>1, <1>6 DEF InstallReachesProfiles, UninstallClears, Ended
  <2> QED  BY <1>4, <2>3, <2>4, <2>5 DEF IInv, Promises
<1> QED  BY <1>1, <1>5, <1>6 DEF Discover, Calls

\* After the imports the call ends, or falls back with every profile still to visit.
LEMMA AfterImportsKeeps ==
    ASSUME IInv, AfterImports
    PROVE  IInv'
<1>1. /\ call = "install" /\ store /\ last = "none" /\ outcome = "none"
      /\ call \in Calls /\ at[1] = "import" /\ TypeOK /\ (copy => platform = "linux")
  BY DEF AfterImports, IInv, Order, StoreFirst, TypeOK, Calls
<1>2. /\ UNCHANGED <<found, database, prefs, authored, exposed, platform, certutil, store, copy, kills>>
      /\ {copy, store, copy', store'} \subseteq BOOLEAN
  BY <1>1, Zenon DEF AfterImports, profileVars, TypeOK
<1>3. ProfileTypes' /\ kills' \in Nat /\ found' \subseteq Profiles
  BY <1>1, <1>2 DEF TypeOK, ProfileTypes
<1>4. UserLinesKept'
  BY <1>1, <1>2 DEF IInv, Promises, UserLinesKept
<1>5. CASE ~failures /\ Return("ok")
  <2>1. TypeOK' /\ Order' /\ StoreFirst' /\ Reached' /\ Kept'
    BY <1>1, <1>2, <1>3, <1>5, Returned
  <2>2. \A p \in found : database[p] = "with"
    BY <1>1, <1>5 DEF IInv, Reached, AfterImports
  <2>3. InstallReachesProfiles' /\ UninstallClears'
    BY <1>1, <1>2, <1>5, <2>2 DEF Return, InstallReachesProfiles, UninstallClears, Ended
  <2> QED  BY <1>4, <2>1, <2>3 DEF IInv, Promises
<1>6. CASE /\ Goto("prefer") /\ remaining' = found /\ failures' = FALSE
           /\ UNCHANGED <<call, last, outcome, buffer, credentials>>
  <2>1. /\ at' \in {Idle} \cup (Operations \X {NoProfile}) \cup ({"cut", "fill"} \X found')
        /\ at' # Idle /\ at'[1] = "prefer"
    BY <1>6, GoingOn DEF Operations
  <2>2. {failures', credentials'} \subseteq BOOLEAN
    BY <1>1, <1>6, Zenon DEF TypeOK
  <2>3. TypeOK'
    BY <1>1, <1>2, <1>3, <1>6, <2>1, <2>2 DEF TypeOK, ProfileTypes
  <2>4. Order' /\ StoreFirst' /\ Reached' /\ Kept'
    BY <1>1, <1>2, <1>6, <2>1 DEF Goto, Order, StoreFirst, Reached, Kept
  <2>5. InstallReachesProfiles' /\ UninstallClears'
    BY <1>1, <1>6 DEF InstallReachesProfiles, UninstallClears, Ended
  <2> QED  BY <1>4, <2>3, <2>4, <2>5 DEF IInv, Promises
<1> QED  BY <1>5, <1>6 DEF AfterImports

\* After the preferences the call ends, and says so when one failed.
LEMMA AfterPreferencesKeeps ==
    ASSUME IInv, AfterPreferences
    PROVE  IInv'
<1>1. /\ call = "install" /\ store /\ at[1] = "prefer" /\ remaining = {} /\ TypeOK
      /\ (copy => platform = "linux")
  BY DEF AfterPreferences, IInv, Order, StoreFirst, TypeOK
<1>2. /\ UNCHANGED <<found, database, prefs, authored, exposed, platform, certutil, store, copy, kills>>
      /\ {store', copy'} \subseteq BOOLEAN
  BY <1>1, Zenon DEF AfterPreferences, profileVars, TypeOK
<1>3. ProfileTypes' /\ kills' \in Nat /\ found' \subseteq Profiles
  BY <1>1, <1>2 DEF TypeOK, ProfileTypes
<1>4. UserLinesKept'
  BY <1>1, <1>2 DEF IInv, Promises, UserLinesKept, AfterPreferences
<1>5. PICK how \in {"ok", "error"} : Return(how) /\ (how = "ok" => ~failures)
  BY Zenon DEF AfterPreferences
<1>6. TypeOK' /\ Order' /\ StoreFirst' /\ Reached' /\ Kept'
  BY <1>1, <1>2, <1>3, <1>5, Returned
<1>7. ~failures => \A p \in found : prefs[p].lines > 0
  BY <1>1 DEF IInv, Reached, AfterPreferences
<1>8. InstallReachesProfiles' /\ UninstallClears'
  BY <1>1, <1>2, <1>5, <1>7 DEF Return, InstallReachesProfiles, UninstallClears, Ended
<1> QED  BY <1>4, <1>6, <1>8 DEF IInv, Promises

\* After the removals the call ends, and says so when one failed.
LEMMA AfterRemovalsKeeps ==
    ASSUME IInv, AfterRemovals
    PROVE  IInv'
<1>1. /\ call = "uninstall" /\ ~store /\ ~copy /\ at[1] = "remove" /\ remaining = {} /\ TypeOK
  BY DEF AfterRemovals, IInv, Order, StoreFirst, TypeOK
<1>2. /\ UNCHANGED <<found, database, prefs, authored, exposed, platform, certutil, store, copy, kills>>
      /\ {store', copy'} \subseteq BOOLEAN
  BY <1>1, Zenon DEF AfterRemovals, profileVars, TypeOK
<1>3. ProfileTypes' /\ kills' \in Nat /\ found' \subseteq Profiles
  BY <1>1, <1>2 DEF TypeOK, ProfileTypes
<1>4. UserLinesKept'
  BY <1>1, <1>2 DEF IInv, Promises, UserLinesKept, AfterRemovals
<1>5. PICK how \in {"ok", "error"} : Return(how) /\ (how = "ok" => ~failures)
  BY Zenon DEF AfterRemovals
<1>6. TypeOK' /\ Order' /\ StoreFirst' /\ Reached' /\ Kept'
  BY <1>1, <1>2, <1>3, <1>5, Returned
<1>7. ~failures => \A p \in found : database[p] # "with"
  BY <1>1 DEF IInv, Reached, AfterRemovals
<1>8. InstallReachesProfiles' /\ UninstallClears'
  BY <1>1, <1>2, <1>5, <1>7 DEF Return, InstallReachesProfiles, UninstallClears, Ended
<1> QED  BY <1>4, <1>6, <1>8 DEF IInv, Promises

\* A kill while a user.js is being written exposes what its user wrote.
LEMMA KillKeeps ==
    ASSUME IInv, Kill
    PROVE  IInv'
<1>1. TypeOK /\ (copy => platform = "linux") /\ Return("killed")
  BY DEF IInv, Order, Kill
<1>2. /\ UNCHANGED <<found, database, prefs, authored, platform, certutil, store, copy>>
      /\ {store', copy'} \subseteq BOOLEAN
  BY <1>1, Zenon DEF Kill, TypeOK
<1>3. exposed' \subseteq Profiles
  <2>1. at[1] = "fill" => at[2] \in Profiles
    BY <1>1 DEF TypeOK, Idle, Operations
  <2> QED  BY <1>1, <2>1 DEF Kill, TypeOK
<1>4. ProfileTypes' /\ kills' \in Nat /\ found' \subseteq Profiles
  BY <1>1, <1>2, <1>3 DEF TypeOK, ProfileTypes, Kill
<1>5. TypeOK' /\ Order' /\ StoreFirst' /\ Reached' /\ Kept'
  BY <1>1, <1>2, <1>4, Returned
<1>6. InstallReachesProfiles' /\ UninstallClears'
  BY <1>1 DEF Return, InstallReachesProfiles, UninstallClears, Ended
<1>7. UserLinesKept'
  <2>1. \A p \in Profiles : at = <<"fill", p>> => p \in exposed'
    BY DEF Kill
  <2>2. exposed \subseteq exposed'
    BY DEF Kill
  <2> QED  BY <1>2, <2>1, <2>2 DEF IInv, Promises, UserLinesKept
<1> QED  BY <1>5, <1>6, <1>7 DEF IInv, Promises

\* An import concerns one profile, and is remembered when it fails.
LEMMA ImportKeeps ==
    ASSUME IInv, NEW p \in Profiles, ImportInto(p)
    PROVE  IInv'
<1> USE DEF IInv, ImportInto, InLoop, Visit, callVars, profileVars, systemVars, Idle
<1>1. TypeOK'
  BY DEF TypeOK, UserJs, Missing, Operations, Calls
<1>2. Order'
  BY DEF TypeOK, Order, Operations
<1>3. StoreFirst'
  BY DEF TypeOK, Order, StoreFirst, Operations
<1>4. Reached'
  BY DEF TypeOK, Reached, Operations, Missing, UserJs
<1>5. Kept'
  BY DEF TypeOK, Kept, Missing, UserJs, Promises, UserLinesKept, Operations
<1>6. InstallReachesProfiles'
  BY DEF TypeOK, Order, StoreFirst, Reached, Promises, InstallReachesProfiles, Ended, Present, Operations
<1>7. UninstallClears'
  BY DEF TypeOK, Order, StoreFirst, Reached, Promises, UninstallClears, Ended, Operations
<1>8. UserLinesKept'
  BY DEF TypeOK, Kept, Promises, UserLinesKept, Missing, UserJs, Operations
<1> QED  BY <1>1, <1>2, <1>3, <1>4, <1>5, <1>6, <1>7, <1>8 DEF Promises

\* A removal concerns one profile, and is remembered when it fails.
LEMMA RemoveKeeps ==
    ASSUME IInv, NEW p \in Profiles, RemoveFrom(p)
    PROVE  IInv'
<1> USE DEF IInv, RemoveFrom, InLoop, Visit, callVars, profileVars, systemVars, Idle
<1>1. TypeOK'
  BY DEF TypeOK, UserJs, Missing, Operations, Calls
<1>2. Order'
  BY DEF TypeOK, Order, Operations
<1>3. StoreFirst'
  BY DEF TypeOK, Order, StoreFirst, Operations
<1>4. Reached'
  BY DEF TypeOK, Reached, Operations, Missing, UserJs
<1>5. Kept'
  BY DEF TypeOK, Kept, Missing, UserJs, Promises, UserLinesKept, Operations
<1>6. InstallReachesProfiles'
  BY DEF TypeOK, Order, StoreFirst, Reached, Promises, InstallReachesProfiles, Ended, Present, Operations
<1>7. UninstallClears'
  BY DEF TypeOK, Order, StoreFirst, Reached, Promises, UninstallClears, Ended, Operations
<1>8. UserLinesKept'
  BY DEF TypeOK, Kept, Promises, UserLinesKept, Missing, UserJs, Operations
<1> QED  BY <1>1, <1>2, <1>3, <1>4, <1>5, <1>6, <1>7, <1>8 DEF Promises

\* What is to be written is what was read, unless the line was in it.
LEMMA ReadKeeps ==
    ASSUME IInv, NEW p \in Profiles, ReadUserJs(p)
    PROVE  IInv'
<1> USE DEF IInv, ReadUserJs, InLoop, Visit, callVars, profileVars, systemVars, Idle
<1>1. TypeOK'
  <2>1. failures' \in BOOLEAN
    BY Zenon DEF TypeOK
  <2>2. at' \in {Idle} \cup (Operations \X {NoProfile}) \cup ({"cut", "fill"} \X found')
    BY DEF TypeOK, Operations
  <2>3. (call' = "none") = (at' = Idle)
    BY DEF TypeOK
  <2>4. /\ buffer' \in UserJs /\ prefs' \in [Profiles -> UserJs]
        /\ exposed' \subseteq Profiles /\ remaining' \subseteq found'
    BY DEF TypeOK, UserJs, Missing
  <2> QED  BY <2>1, <2>2, <2>3, <2>4 DEF TypeOK
<1>2. Order'
  BY DEF TypeOK, Order, Operations
<1>3. StoreFirst'
  BY DEF TypeOK, Order, StoreFirst, Operations
<1>4. Reached'
  BY DEF TypeOK, Reached, Operations, Missing, UserJs
<1>5. Kept'
  BY DEF TypeOK, Kept, Missing, UserJs, Promises, UserLinesKept, Operations
<1>6. InstallReachesProfiles'
  BY DEF TypeOK, Order, StoreFirst, Reached, Promises, InstallReachesProfiles, Ended, Present, Operations
<1>7. UninstallClears'
  BY DEF TypeOK, Order, StoreFirst, Reached, Promises, UninstallClears, Ended, Operations
<1>8. UserLinesKept'
  BY DEF TypeOK, Kept, Promises, UserLinesKept, Missing, UserJs, Operations
<1> QED  BY <1>1, <1>2, <1>3, <1>4, <1>5, <1>6, <1>7, <1>8 DEF Promises

\* A truncation that loses an edit of its user exposes the profile.
LEMMA TruncateKeeps ==
    ASSUME IInv, NEW p \in Profiles, TruncateUserJs(p)
    PROVE  IInv'
<1> USE DEF IInv, TruncateUserJs, InLoop, Goto, callVars, profileVars, systemVars, Idle
<1>1. TypeOK'
  <2>1. failures' \in BOOLEAN
    BY Zenon DEF TypeOK
  <2>2. at' \in {Idle} \cup (Operations \X {NoProfile}) \cup ({"cut", "fill"} \X found')
    BY DEF TypeOK, Operations
  <2>3. (call' = "none") = (at' = Idle)
    BY DEF TypeOK
  <2>4. buffer' \in UserJs /\ prefs' \in [Profiles -> UserJs]
    <3>1. Missing \in UserJs
      BY DEF UserJs, Missing
    <3> QED  BY <3>1 DEF TypeOK
  <2>5. exposed' \subseteq Profiles
    BY DEF TypeOK
  <2>6. remaining' \subseteq found'
    BY DEF TypeOK
  <2> QED  BY <2>1, <2>2, <2>3, <2>4, <2>5, <2>6 DEF TypeOK
<1>2. Order'
  BY DEF TypeOK, Order, Operations
<1>3. StoreFirst'
  BY DEF TypeOK, Order, StoreFirst, Operations
<1>4. Reached'
  BY DEF TypeOK, Reached, Operations, Missing, UserJs
<1>5. Kept'
  BY DEF TypeOK, Kept, Missing, UserJs, Promises, UserLinesKept, Operations
<1>6. InstallReachesProfiles'
  BY DEF TypeOK, Order, StoreFirst, Reached, Promises, InstallReachesProfiles, Ended, Present, Operations
<1>7. UninstallClears'
  BY DEF TypeOK, Order, StoreFirst, Reached, Promises, UninstallClears, Ended, Operations
<1>8. UserLinesKept'
  BY DEF TypeOK, Kept, Promises, UserLinesKept, Missing, UserJs, Operations
<1> QED  BY <1>1, <1>2, <1>3, <1>4, <1>5, <1>6, <1>7, <1>8 DEF Promises

\* What is written is what was read, and the line.
LEMMA FillKeeps ==
    ASSUME IInv, NEW p \in Profiles, FillUserJs(p)
    PROVE  IInv'
<1> USE DEF IInv, FillUserJs, InLoop, Goto, callVars, profileVars, systemVars, Idle
<1>1. TypeOK'
  <2>1. failures' \in BOOLEAN
    BY Zenon DEF TypeOK
  <2>2. at' \in {Idle} \cup (Operations \X {NoProfile}) \cup ({"cut", "fill"} \X found')
    BY DEF TypeOK, Operations
  <2>3. (call' = "none") = (at' = Idle)
    BY DEF TypeOK
  <2>4. /\ buffer' \in UserJs /\ prefs' \in [Profiles -> UserJs]
        /\ exposed' \subseteq Profiles /\ remaining' \subseteq found'
    BY DEF TypeOK, UserJs, Missing
  <2> QED  BY <2>1, <2>2, <2>3, <2>4 DEF TypeOK
<1>2. Order'
  BY DEF TypeOK, Order, Operations
<1>3. StoreFirst'
  BY DEF TypeOK, Order, StoreFirst, Operations
<1>4. Reached'
  BY DEF TypeOK, Reached, Operations, Missing, UserJs
<1>5. Kept'
  BY DEF TypeOK, Kept, Missing, UserJs, Promises, UserLinesKept, Operations
<1>6. InstallReachesProfiles'
  BY DEF TypeOK, Order, StoreFirst, Reached, Promises, InstallReachesProfiles, Ended, Present, Operations
<1>7. UninstallClears'
  BY DEF TypeOK, Order, StoreFirst, Reached, Promises, UninstallClears, Ended, Operations
<1>8. UserLinesKept'
  BY DEF TypeOK, Kept, Promises, UserLinesKept, Missing, UserJs, Operations
<1> QED  BY <1>1, <1>2, <1>3, <1>4, <1>5, <1>6, <1>7, <1>8 DEF Promises

\* No call has found a profile that appears.
LEMMA AppearKeeps ==
    ASSUME IInv, NEW p \in Profiles, ProfileAppears(p)
    PROVE  IInv'
<1> USE DEF IInv, ProfileAppears, callVars, profileVars, systemVars, Idle
<1>1. TypeOK'
  BY DEF TypeOK, UserJs, Missing, Operations, Calls
<1>2. Order'
  BY DEF TypeOK, Order, Operations
<1>3. StoreFirst'
  BY DEF TypeOK, Order, StoreFirst, Operations
<1>4. Reached'
  BY DEF TypeOK, Reached, Operations, Missing, UserJs
<1>5. Kept'
  BY DEF TypeOK, Kept, Missing, UserJs, Promises, UserLinesKept, Operations
<1>6. InstallReachesProfiles'
  BY DEF TypeOK, Order, StoreFirst, Reached, Promises, InstallReachesProfiles, Ended, Present, Operations
<1>7. UninstallClears'
  BY DEF TypeOK, Order, StoreFirst, Reached, Promises, UninstallClears, Ended, Operations
<1>8. UserLinesKept'
  BY DEF TypeOK, Kept, Promises, UserLinesKept, Missing, UserJs, Operations
<1> QED  BY <1>1, <1>2, <1>3, <1>4, <1>5, <1>6, <1>7, <1>8 DEF Promises

\* Nothing is claimed of a profile that vanished.
LEMMA VanishKeeps ==
    ASSUME IInv, NEW p \in Profiles, ProfileVanishes(p)
    PROVE  IInv'
<1> USE DEF IInv, ProfileVanishes, callVars, profileVars, systemVars, Idle
<1>1. TypeOK'
  BY DEF TypeOK, UserJs, Missing, Operations, Calls
<1>2. Order'
  BY DEF TypeOK, Order, Operations
<1>3. StoreFirst'
  BY DEF TypeOK, Order, StoreFirst, Operations
<1>4. Reached'
  BY DEF TypeOK, Reached, Operations, Missing, UserJs
<1>5. Kept'
  BY DEF TypeOK, Kept, Missing, UserJs, Promises, UserLinesKept, Operations
<1>6. InstallReachesProfiles'
  BY DEF TypeOK, Order, StoreFirst, Reached, Promises, InstallReachesProfiles, Ended, Present, Operations
<1>7. UninstallClears'
  BY DEF TypeOK, Order, StoreFirst, Reached, Promises, UninstallClears, Ended, Operations
<1>8. UserLinesKept'
  BY DEF TypeOK, Kept, Promises, UserLinesKept, Missing, UserJs, Operations
<1> QED  BY <1>1, <1>2, <1>3, <1>4, <1>5, <1>6, <1>7, <1>8 DEF Promises

\* A user who writes to a truncated user.js keeps what they wrote, or is exposed.
LEMMA WriteKeeps ==
    ASSUME IInv, NEW p \in Profiles, UserWrites(p)
    PROVE  IInv'
<1> USE DEF IInv, UserWrites, callVars, profileVars, systemVars, Idle
<1>1. TypeOK'
  BY DEF TypeOK, UserJs, Missing, Operations, Calls
<1>2. Order'
  BY DEF TypeOK, Order, Operations
<1>3. StoreFirst'
  BY DEF TypeOK, Order, StoreFirst, Operations
<1>4. Reached'
  BY DEF TypeOK, Reached, Operations, Missing, UserJs
<1>5. Kept'
  BY DEF TypeOK, Kept, Missing, UserJs, Promises, UserLinesKept, Operations
<1>6. InstallReachesProfiles'
  BY DEF TypeOK, Order, StoreFirst, Reached, Promises, InstallReachesProfiles, Ended, Present, Operations
<1>7. UninstallClears'
  BY DEF TypeOK, Order, StoreFirst, Reached, Promises, UninstallClears, Ended, Operations
<1>8. UserLinesKept'
  BY DEF TypeOK, Kept, Promises, UserLinesKept, Missing, UserJs, Operations
<1> QED  BY <1>1, <1>2, <1>3, <1>4, <1>5, <1>6, <1>7, <1>8 DEF Promises

-----------------------------------------------------------------------------
(* The invariant *)

\* Nothing is promised of a machine ghttp never ran on.
LEMMA InitInvariant == Init => IInv
<1> SUFFICES ASSUME Init PROVE IInv
  OBVIOUS
<1> USE DEF Init, Idle
<1>1. TypeOK
  <2>1. {failures, store, copy, credentials} \subseteq BOOLEAN
    BY Zenon
  <2>2. Missing \in UserJs
    BY DEF Missing, UserJs
  <2> QED  BY <2>1, <2>2 DEF TypeOK
<1>2. ~copy /\ authored = {} /\ at[1] = "idle" /\ \A p \in Profiles : prefs[p].lines = 0
  BY DEF Missing
<1>3. Order /\ StoreFirst /\ Reached /\ Kept
  BY <1>2 DEF Order, StoreFirst, Reached, Kept
<1>4. Promises
  BY <1>2 DEF Promises, InstallReachesProfiles, UninstallClears, UserLinesKept, Ended
<1> QED  BY <1>1, <1>3, <1>4 DEF IInv

\* Every step of the program and of its surroundings keeps the invariant.
LEMMA StepKeeps == IInv /\ [Next]_vars => IInv'
<1> SUFFICES ASSUME IInv, [Next]_vars PROVE IInv'
  OBVIOUS
<1>1. CASE UNCHANGED vars
  BY <1>1 DEF vars, callVars, profileVars, systemVars, IInv, TypeOK, Order, StoreFirst,
              Reached, Kept, Promises, InstallReachesProfiles, UninstallClears,
              UserLinesKept, Ended, Present
<1>2. CASE ProgramStep
  <2>1. ASSUME NEW p \in Profiles, ProfileStep(p) PROVE IInv'
    BY <2>1, ImportKeeps, RemoveKeeps, ReadKeeps, TruncateKeeps, FillKeeps DEF ProfileStep
  <2> QED  BY <1>2, <2>1, CopyKeeps, StoreKeeps, DeleteKeeps, DiscoverKeeps, AfterImportsKeeps,
              AfterPreferencesKeeps, AfterRemovalsKeeps DEF ProgramStep
<1>3. CASE \E p \in Profiles : ProfileAppears(p) \/ ProfileVanishes(p) \/ UserWrites(p)
  BY <1>3, AppearKeeps, VanishKeeps, WriteKeeps
<1> QED  BY <1>1, <1>2, <1>3, BeginKeeps, KillKeeps DEF Next

\* The invariant holds in every state the installers and Firefox reach.
THEOREM Invariance == Spec => []IInv
BY InitInvariant, StepKeeps, PTL DEF Spec

\* Every variable keeps its type: a call is idle exactly when none runs, and
\* a loop only has profiles to visit that were discovered.
THEOREM TypeCorrect == Spec => []TypeOK
<1>1. IInv => TypeOK
  BY DEF IInv
<1> QED  BY <1>1, Invariance, PTL

\* An Install that succeeded reached the operating system and every profile
\* it found, whatever failed on the way (integrateFirefoxCertificates).
THEOREM InstallReaches == Spec => []InstallReachesProfiles
<1>1. IInv => InstallReachesProfiles
  BY DEF IInv, Promises
<1> QED  BY <1>1, Invariance, PTL

\* An Uninstall that succeeded left no trust in the operating system, and none in a profile it
\* found and had certutil for (removeFirefoxCertificates, which skips what it cannot read).
THEOREM UninstallEnds == Spec => []UninstallClears
<1>1. IInv => UninstallClears
  BY DEF IInv, Promises
<1> QED  BY <1>1, Invariance, PTL

\* The preference is added to a user.js once, and a user's own lines survive
\* every write that is neither cut short nor races an edit
\* (ensureFirefoxEnterpriseRootsPreference).
THEOREM UserLines == Spec => []UserLinesKept
<1>1. IInv => UserLinesKept
  BY DEF IInv, Promises
<1> QED  BY <1>1, Invariance, PTL

-----------------------------------------------------------------------------
(* The refinement of TrustChange *)

\* the profiles that hold the CA, and what TrustChange sees of a state
Held   == {p \in Profiles : database[p] = "with"}
Unseen == UNCHANGED <<store, Held, call, outcome>>

\* A call that succeeds leaves the store as it was asked to.
LEMMA Succeeding ==
    ASSUME IInv, call # "none", at[1] \notin {"idle", "copy", "store"}, Return("ok"),
           UNCHANGED <<store, database>>
    PROVE  Change!Succeed
<1>1. store \in BOOLEAN
  BY Zenon DEF IInv, TypeOK
<1>2. at[1] \in {"delete", "discover", "import", "prefer", "remove", "cut", "fill"}
  BY DEF IInv, TypeOK, Idle, Operations
<1>3. call \in {"install", "uninstall"} /\ (call = "install" => store) /\ (call = "uninstall" => ~store)
  BY <1>2 DEF IInv, TypeOK, Order, StoreFirst, Calls
<1> QED  BY <1>1, <1>3 DEF Change!Succeed, Return

\* One import adds at most its own profile.
LEMMA Importing ==
    ASSUME IInv, NEW p \in Profiles, ImportInto(p)
    PROVE  Change!Import \/ Unseen
<1>1. /\ call = "install" /\ store /\ UNCHANGED <<store, call, outcome>>
      /\ database \in [Profiles -> {"none", "without", "with"}]
  BY DEF IInv, TypeOK, Order, StoreFirst, ImportInto, InLoop, systemVars
<1>2. CASE UNCHANGED database
  BY <1>1, <1>2 DEF Unseen, Held
<1>3. CASE database' = [database EXCEPT ![p] = "with"]
  <2>1. Held \subseteq Held' /\ Held' \ Held \subseteq {p}
    BY <1>1, <1>3 DEF Held
  <2> QED  BY <1>1, <2>1 DEF Change!Import, Held
<1> QED  BY <1>2, <1>3 DEF ImportInto

\* Profiles lose the CA to an uninstall, or are deleted while no call runs.
LEMMA Forgetting ==
    ASSUME IInv, NEW p \in Profiles, RemoveFrom(p) \/ ProfileVanishes(p)
    PROVE  Change!Forget
<1>1. database \in [Profiles -> {"none", "without", "with"}]
  BY DEF IInv, TypeOK
<1>2. UNCHANGED <<store, call, outcome>>
  BY DEF RemoveFrom, ProfileVanishes, InLoop, callVars, systemVars
<1>3. call = "none" \/ (call = "uninstall" /\ ~store)
  BY DEF IInv, Order, StoreFirst, RemoveFrom, ProfileVanishes
<1>4. Held' \subseteq Held
  BY <1>1 DEF Held, RemoveFrom, ProfileVanishes
<1> QED  BY <1>2, <1>3, <1>4 DEF Change!Forget, Held

\* The other steps on profiles are none of TrustChange's business.
LEMMA Invisible ==
    ASSUME IInv, NEW p \in Profiles,
           \/ ReadUserJs(p) \/ TruncateUserJs(p) \/ FillUserJs(p)
           \/ ProfileAppears(p) \/ UserWrites(p)
    PROVE  Unseen
<1>1. database \in [Profiles -> {"none", "without", "with"}]
  BY DEF IInv, TypeOK
<1>2. UNCHANGED <<store, call, outcome>>
  BY DEF ReadUserJs, TruncateUserJs, FillUserJs, ProfileAppears, UserWrites, InLoop,
         callVars, systemVars
<1>3. Held' = Held
  BY <1>1 DEF Held, ReadUserJs, TruncateUserJs, FillUserJs, ProfileAppears, UserWrites,
              profileVars
<1> QED  BY <1>2, <1>3 DEF Unseen

\* A call's steps outside the loops are TrustChange's, or it does not see them.
LEMMA CallSteps ==
    ASSUME IInv,
           \/ CopyCertificate \/ ChangeStore \/ DeleteCopy \/ Discover
           \/ AfterImports \/ AfterPreferences \/ AfterRemovals
    PROVE  Change!Next \/ Unseen
<1> USE DEF IInv, Idle, profileVars
<1>1. call \in Calls /\ call # "none"
  <2>1. PICK op \in Operations : at = <<op, NoProfile>>
    BY Zenon DEF Operations, CopyCertificate, ChangeStore, DeleteCopy, Discover,
                 AfterImports, AfterPreferences, AfterRemovals
  <2>2. at # Idle
    BY <2>1 DEF Operations
  <2> QED  BY <2>2, Zenon DEF TypeOK
<1>2. UNCHANGED database
  BY DEF CopyCertificate, ChangeStore, DeleteCopy, Discover,
         AfterImports, AfterPreferences, AfterRemovals
<1>3. ASSUME Return("error"), UNCHANGED store PROVE Change!Abort
  BY <1>2, <1>3 DEF Return, Change!Abort
<1>4. CASE CopyCertificate
  BY <1>2, <1>3, <1>4 DEF CopyCertificate, Fail, Within, Unseen, Held, Change!Next
<1>5. CASE ChangeStore
  <2>1. CASE Within /\ store' = (call = "install")
    BY <1>1, <1>2, <2>1 DEF Calls, Within, Held, Change!Next, Change!Trust, Change!Untrust
  <2>2. CASE Return("error") /\ UNCHANGED store
    BY <1>3, <2>2 DEF Change!Next
  <2> QED  BY <1>5, <2>1, <2>2 DEF ChangeStore, Fail
<1>6. CASE DeleteCopy
  BY <1>2, <1>3, <1>6 DEF DeleteCopy, Fail, Within, Unseen, Held, Change!Next
<1>7. CASE Discover \/ AfterImports
  <2>1. at[1] \in {"discover", "import"} /\ UNCHANGED store
    BY <1>7 DEF Discover, AfterImports
  <2>2. Return("ok") => Change!Succeed
    BY <1>1, <1>2, <2>1, Succeeding
  <2> QED  BY <1>2, <1>7, <2>1, <2>2 DEF Discover, AfterImports, Unseen, Held, Change!Next
<1>8. CASE AfterPreferences \/ AfterRemovals
  <2>1. at[1] \in {"prefer", "remove"} /\ UNCHANGED store
    BY <1>8 DEF AfterPreferences, AfterRemovals
  <2>2. PICK how \in {"ok", "error"} : Return(how)
    BY <1>8, Zenon DEF AfterPreferences, AfterRemovals
  <2>3. Return("ok") => Change!Succeed
    BY <1>1, <1>2, <2>1, Succeeding
  <2> QED  BY <1>3, <2>1, <2>2, <2>3 DEF Change!Next
<1> QED  BY <1>4, <1>5, <1>6, <1>7, <1>8

\* Every step of the installers is one of TrustChange's, or it sees nothing of it.
LEMMA StepRefines == IInv /\ [Next]_vars => Change!Next \/ Unseen
<1> SUFFICES ASSUME IInv, [Next]_vars PROVE Change!Next \/ Unseen
  OBVIOUS
<1>1. CASE UNCHANGED vars
  BY <1>1 DEF vars, callVars, profileVars, systemVars, Unseen, Held
<1>2. CASE Begin
  BY <1>2 DEF Begin, profileVars, Held, Change!Next, Change!Begin
<1>3. CASE ProgramStep
  <2>1. ASSUME NEW p \in Profiles, ProfileStep(p) PROVE Change!Next \/ Unseen
    BY <2>1, Importing, Forgetting, Invisible DEF ProfileStep, Change!Next
  <2> QED  BY <1>3, <2>1, CallSteps DEF ProgramStep
<1>4. CASE Kill
  BY <1>4 DEF Kill, Return, Held, Change!Next, Change!Abort
<1>5. CASE \E p \in Profiles : ProfileAppears(p) \/ ProfileVanishes(p) \/ UserWrites(p)
  BY <1>5, Forgetting, Invisible DEF Change!Next
<1> QED  BY <1>1, <1>2, <1>3, <1>4, <1>5 DEF Next

\* On every platform trust moves in the direction of the running call only,
\* the operating system's before the browsers', and success is reported only
\* when the store is as asked for: the installers implement TrustChange.
THEOREM Refinement == Spec => ImplementsTrustChange
<1>1. Init => Change!Init
  BY DEF Init, Change!Init
<1>2. IInv /\ [Next]_vars => [Change!Next]_<<store, Held, call, outcome>>
  BY StepRefines DEF Unseen
<1> QED  BY <1>1, <1>2, Invariance, PTL DEF Spec, ImplementsTrustChange, Change!Spec, Held

====
