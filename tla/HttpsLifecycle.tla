---- MODULE HttpsLifecycle ----
(***************************************************************************)
(* The dynamic HTTPS lifecycle of ghttp (serveWithDynamicHTTPS): every     *)
(* instance provisions a development certificate authority, installs it in *)
(* the trust store, issues (or reuses) a leaf certificate, serves, and     *)
(* uninstalls what it installed.  Instances of the program share one       *)
(* certificate directory, one anchor copy and one trust store; nothing     *)
(* locks them.                                                             *)
(*                                                                         *)
(* A key stands for a key pair and for the certificate issued to it: a     *)
(* certificate file holding k is the certificate of k, a private key file  *)
(* holding k is its private key.  A name nobody refers to any more is used *)
(* again for a new key pair, so that runs of the program may follow one    *)
(* another without end.                                                    *)
(***************************************************************************)
EXTENDS Naturals, FiniteSets

CONSTANTS
    Instances,   \* processes running ghttp with dynamic HTTPS
    Keys,        \* names for key pairs; bounds how many exist at a time
    Requests,    \* host lists an instance may be configured with
    Faults,      \* operations of the environment that may fail
    CrashPoints, \* steps at which a process may be killed
    MaxCrashes,  \* bound on the number of kills
    MayAge,      \* whether a certificate may come due for renewal
    Absent,      \* content of a missing file
    Torn,        \* content of a truncated file: it parses as nothing
    NoHosts      \* the host list of a CA certificate

CaFiles   == {"caCert", "caKey"}
LeafFiles == {"leafCert", "leafKey"}
Files     == CaFiles \cup LeafFiles \cup {"anchor"}
Content   == Keys \cup {Absent, Torn}

Operations == {"off", "read", "copy", "generate", "cut", "fill", "trust",
               "import", "pair", "bind", "serve", "untrust", "forget", "remove"}
Targets    == Files \cup {"none", "firefox"}
Steps      == Operations \X Targets
Results    == {"none", "served", "serveError", "setupError", "uninstallError", "killed"}
\* "delete" is of the anchor copy, which is reported, "remove" of the credential files
FaultKinds == {"read", "write", "trust", "firefox", "bind", "delete", "remove"}

ASSUME KeysAssumption   == /\ Absent \notin Keys
                           /\ Torn \notin Keys
                           /\ Absent # Torn
ASSUME HostsAssumption  == NoHosts \notin Requests
ASSUME FaultsAssumption == Faults \subseteq FaultKinds
ASSUME BoundsAssumption == /\ MaxCrashes \in Nat
                           /\ MayAge \in BOOLEAN

VARIABLES
    at,      \* at[p]: the step instance p is about to take
    stage,   \* stage[p]: which of setup, serve, cleanup p is in
    hosts,   \* hosts[p]: the host list p was started with
    held,    \* held[p][f]: what p read from, or is writing to, file f
    failed,  \* failed[p]: executeHTTPSServe of p returned an error
    result,  \* result[p]: how the last finished run of p ended
    disk,    \* disk[f]: the content of file f
    trust,   \* the CA keys whose certificates the trust store accepts
    certs,   \* certs[k]: who signed the certificate of k, for which hosts
    crashes  \* number of kills so far

procVars == <<at, stage, hosts, held, failed, result>>
vars == <<at, stage, hosts, held, failed, result, disk, trust, certs, crashes>>

Off         == <<"off", "none">>
Serving     == <<"serve", "leafCert">>
NothingHeld == [f \in Files |-> Absent]
Blank(k)    == [signer |-> k, hosts |-> NoHosts, due |-> FALSE]
Certificate == [signer : Keys, hosts : Requests \cup {NoHosts}, due : BOOLEAN]

TypeOK ==
    /\ at \in [Instances -> Steps]
    /\ stage \in [Instances -> {"setup", "serve", "cleanup"}]
    /\ hosts \in [Instances -> Requests \cup {NoHosts}]
    /\ held \in [Instances -> [Files -> Content]]
    /\ failed \in [Instances -> BOOLEAN]
    /\ result \in [Instances -> Results]
    /\ disk \in [Files -> Content]
    /\ trust \subseteq Keys
    /\ certs \in [Keys -> Certificate]
    /\ crashes \in Nat

Init ==
    /\ at = [p \in Instances |-> Off]
    /\ stage = [p \in Instances |-> "setup"]
    /\ hosts = [p \in Instances |-> NoHosts]
    /\ held = [p \in Instances |-> NothingHeld]
    /\ failed = [p \in Instances |-> FALSE]
    /\ result = [p \in Instances |-> "none"]
    /\ disk = NothingHeld
    /\ trust = {}
    /\ certs = [k \in Keys |-> Blank(k)]
    /\ crashes = 0

-----------------------------------------------------------------------------
(* Key names *)

Referenced ==
    {k \in Keys : \/ k \in trust
                  \/ \E f \in Files : disk[f] = k
                  \/ \E p \in Instances, f \in Files : held[p][f] = k}

InUse == Referenced \cup {certs[k].signer : k \in Referenced}

Unused == Keys \ InUse
FreshKey == CHOOSE k \in Unused : TRUE

\* A new certificate for FreshKey; the other unused names are blank again.
Certify(signer, request) ==
    certs' = [k \in Keys |->
        IF k = FreshKey THEN [signer |-> signer, hosts |-> request, due |-> FALSE]
        ELSE IF k \in Unused THEN Blank(k) ELSE certs[k]]

-----------------------------------------------------------------------------
(* Control: where a step leads, and how a run ends *)

Goto(p, step) == at' = [at EXCEPT ![p] = step]

Continue(p, step) ==
    /\ Goto(p, step)
    /\ UNCHANGED <<stage, hosts, failed, result>>

Exit(p, how) ==
    /\ Goto(p, Off)
    /\ stage' = [stage EXCEPT ![p] = "setup"]
    /\ hosts' = [hosts EXCEPT ![p] = NoHosts]
    /\ held' = [held EXCEPT ![p] = NothingHeld]
    /\ failed' = [failed EXCEPT ![p] = FALSE]
    /\ result' = [result EXCEPT ![p] = how]

\* executeHTTPSServe returns: its TLS material goes out of scope and the
\* uninstall starts whatever it returned.
BeginUninstall(p, withError) ==
    /\ Goto(p, <<"untrust", "anchor">>)
    /\ stage' = [stage EXCEPT ![p] = "cleanup"]
    /\ held' = [held EXCEPT ![p] = NothingHeld]
    /\ failed' = [failed EXCEPT ![p] = withError]
    /\ UNCHANGED <<hosts, result>>

\* An error return: from the setup it ends the run at once, from
\* executeHTTPSServe it leads to the uninstall, from the uninstall it ends
\* the run with what has not been removed left behind.
Fail(p) ==
    \/ stage[p] = "setup" /\ Exit(p, "setupError")
    \/ stage[p] = "serve" /\ BeginUninstall(p, TRUE)
    \/ stage[p] = "cleanup" /\ Exit(p, "uninstallError")

Fault(p, kind) == kind \in Faults /\ Fail(p)

Hold(p, f, content) == held' = [held EXCEPT ![p][f] = content]

-----------------------------------------------------------------------------
(* Start of a run: prepareHTTPSContext, then runHTTPSSetup *)

Start(p) ==
    /\ at[p] = Off
    /\ \E request \in Requests : hosts' = [hosts EXCEPT ![p] = request]
    /\ Goto(p, <<"read", "caCert">>)
    /\ result' = [result EXCEPT ![p] = "none"]
    /\ UNCHANGED <<stage, held, failed, disk, trust, certs, crashes>>

-----------------------------------------------------------------------------
(* EnsureCertificateAuthority, called by the setup and again by the serve.   *)
(* The existence checks before the reads make no difference: a file that is *)
(* gone at either is a reason to generate.                                  *)

AfterEnsure(p) == IF stage[p] = "setup" THEN <<"copy", "anchor">>
                                        ELSE <<"read", "leafCert">>

ReadCaCert(p) ==
    /\ at[p] = <<"read", "caCert">>
    /\ \/ /\ Hold(p, "caCert", disk["caCert"])
          /\ Continue(p, IF disk["caCert"] = Absent THEN <<"generate", "caCert">>
                                                    ELSE <<"read", "caKey">>)
       \/ Fault(p, "read")
    /\ UNCHANGED <<disk, trust, certs, crashes>>

\* Only the certificate's dates are looked at: nothing compares it with the
\* private key beside it.
ReadCaKey(p) ==
    /\ at[p] = <<"read", "caKey">>
    /\ LET cert == held[p]["caCert"]
           key  == disk["caKey"]
       IN  \/ /\ key = Absent
              /\ Hold(p, "caKey", key)
              /\ Continue(p, <<"generate", "caCert">>)
           \/ key # Absent /\ Torn \in {cert, key} /\ Fail(p)
           \/ /\ {cert, key} \subseteq Keys
              /\ Hold(p, "caKey", key)
              /\ Continue(p, IF certs[cert].due THEN <<"generate", "caCert">>
                                                ELSE AfterEnsure(p))
           \/ Fault(p, "read")
    /\ UNCHANGED <<disk, trust, certs, crashes>>

GenerateCa(p) ==
    /\ at[p] = <<"generate", "caCert">>
    /\ Unused # {}
    /\ Certify(FreshKey, NoHosts)
    /\ held' = [held EXCEPT ![p]["caCert"] = FreshKey, ![p]["caKey"] = FreshKey]
    /\ Continue(p, <<"cut", "caCert">>)
    /\ UNCHANGED <<disk, trust, crashes>>

-----------------------------------------------------------------------------
(* WriteFile truncates the file, then writes what the caller holds.          *)

AfterWrite(p, f) ==
    CASE f = "caCert"   -> <<"cut", "caKey">>
      [] f = "caKey"    -> AfterEnsure(p)
      [] f = "anchor"   -> <<"trust", "anchor">>
      [] f = "leafCert" -> <<"cut", "leafKey">>
      [] f = "leafKey"  -> <<"pair", "leafKey">>

TruncateFile(p, f) ==
    /\ at[p] = <<"cut", f>>
    /\ \/ /\ disk' = [disk EXCEPT ![f] = Torn]
          /\ Continue(p, <<"fill", f>>)
          /\ UNCHANGED held
       \/ Fault(p, "write") /\ UNCHANGED disk
    /\ UNCHANGED <<trust, certs, crashes>>

FillFile(p, f) ==
    /\ at[p] = <<"fill", f>>
    /\ \/ /\ disk' = [disk EXCEPT ![f] = held[p][f]]
          /\ Continue(p, AfterWrite(p, f))
          /\ UNCHANGED held
       \/ Fault(p, "write") /\ UNCHANGED disk
    /\ UNCHANGED <<trust, certs, crashes>>

-----------------------------------------------------------------------------
(* The Linux installer: copy the CA certificate, anchor the copy, and tell   *)
(* Firefox (whose profiles are not modelled here).                           *)

CopyCertificate(p) ==
    /\ at[p] = <<"copy", "anchor">>
    /\ \/ /\ disk["caCert"] # Absent
          /\ Hold(p, "anchor", disk["caCert"])
          /\ Continue(p, <<"cut", "anchor">>)
       \/ disk["caCert"] = Absent /\ Fail(p)
       \/ Fault(p, "read")
    /\ UNCHANGED <<disk, trust, certs, crashes>>

\* Mutant: whatever the copy holds is anchored.
TrustAnchorUnparsed(p) ==
    /\ at[p] = <<"trust", "anchor">>
    /\ trust' = trust \cup {disk["anchor"]}
    /\ Continue(p, <<"import", "firefox">>)
    /\ UNCHANGED <<held, disk, certs, crashes>>

\* Mutant: a failing trust command does not stop the setup.
TrustAnchorIgnoringError(p) ==
    /\ at[p] = <<"trust", "anchor">>
    /\ \/ trust' = trust \cup ({disk["anchor"]} \cap Keys)
       \/ "trust" \in Faults /\ UNCHANGED trust
    /\ Continue(p, <<"import", "firefox">>)
    /\ UNCHANGED <<held, disk, certs, crashes>>

TrustAnchor(p) ==
    /\ at[p] = <<"trust", "anchor">>
    /\ \/ /\ disk["anchor"] \in Keys
          /\ trust' = trust \cup {disk["anchor"]}
          /\ Continue(p, <<"import", "firefox">>)
          /\ UNCHANGED held
       \/ disk["anchor"] \notin Keys /\ Fail(p) /\ UNCHANGED trust
       \/ Fault(p, "trust") /\ UNCHANGED trust
    /\ UNCHANGED <<disk, certs, crashes>>

\* The last step of the setup: nothing of the CA material it read stays.
IntegrateFirefox(p) ==
    /\ at[p] = <<"import", "firefox">>
    /\ \/ /\ Goto(p, <<"read", "caCert">>)
          /\ stage' = [stage EXCEPT ![p] = "serve"]
          /\ held' = [held EXCEPT ![p] = NothingHeld]
          /\ UNCHANGED <<hosts, failed, result>>
       \/ Fault(p, "firefox")
    /\ UNCHANGED <<disk, trust, certs, crashes>>

-----------------------------------------------------------------------------
(* IssueServerCertificate *)

ReadLeafCert(p) ==
    /\ at[p] = <<"read", "leafCert">>
    /\ \/ /\ Hold(p, "leafCert", disk["leafCert"])
          /\ Continue(p, IF disk["leafCert"] = Absent THEN <<"generate", "leafCert">>
                                                      ELSE <<"read", "leafKey">>)
       \/ Fault(p, "read")
    /\ UNCHANGED <<disk, trust, certs, crashes>>

\* Mutant: a change of the hosts does not call for a new certificate.
ShouldRotateLeafByDate(k, request) == certs[k].due

\* shouldRotate of the issuer: dates and hosts, not the signer.
ShouldRotateLeaf(k, request) == certs[k].due \/ certs[k].hosts # request

ReadLeafKey(p) ==
    /\ at[p] = <<"read", "leafKey">>
    /\ LET cert == held[p]["leafCert"]
           key  == disk["leafKey"]
       IN  \/ /\ key = Absent
              /\ Hold(p, "leafKey", key)
              /\ Continue(p, <<"generate", "leafCert">>)
           \/ key # Absent /\ Torn \in {cert, key} /\ Fail(p)
           \/ /\ {cert, key} \subseteq Keys
              /\ Hold(p, "leafKey", key)
              /\ Continue(p, IF ShouldRotateLeaf(cert, hosts[p])
                             THEN <<"generate", "leafCert">>
                             ELSE <<"pair", "leafKey">>)
           \/ Fault(p, "read")
    /\ UNCHANGED <<disk, trust, certs, crashes>>

\* x509.CreateCertificate refuses a CA private key that is not the one of the
\* CA certificate.
GenerateLeaf(p) ==
    /\ at[p] = <<"generate", "leafCert">>
    /\ \/ /\ held[p]["caCert"] = held[p]["caKey"]
          /\ Unused # {}
          /\ Certify(held[p]["caCert"], hosts[p])
          /\ held' = [held EXCEPT ![p]["leafCert"] = FreshKey, ![p]["leafKey"] = FreshKey]
          /\ Continue(p, <<"cut", "leafCert">>)
       \/ held[p]["caCert"] # held[p]["caKey"] /\ Fail(p) /\ UNCHANGED certs
    /\ UNCHANGED <<disk, trust, crashes>>

-----------------------------------------------------------------------------
(* executeHTTPSServe after the issue: tls.X509KeyPair, the listener, serving *)

\* Mutant: certificate and key are taken as they were read.
PairKeysUnchecked(p) ==
    /\ at[p] = <<"pair", "leafKey">>
    /\ Continue(p, <<"bind", "leafCert">>)
    /\ UNCHANGED <<held, disk, trust, certs, crashes>>

PairKeys(p) ==
    /\ at[p] = <<"pair", "leafKey">>
    /\ \/ /\ held[p]["leafCert"] = held[p]["leafKey"]
          /\ Continue(p, <<"bind", "leafCert">>)
          /\ UNCHANGED held
       \/ held[p]["leafCert"] # held[p]["leafKey"] /\ Fail(p)
    /\ UNCHANGED <<disk, trust, certs, crashes>>

Bind(p) ==
    /\ at[p] = <<"bind", "leafCert">>
    /\ \/ Continue(p, Serving) /\ UNCHANGED held
       \/ Fault(p, "bind")
    /\ UNCHANGED <<disk, trust, certs, crashes>>

\* SIGINT or SIGTERM, with a clean shutdown
StopOnSignal(p) ==
    /\ at[p] = Serving
    /\ BeginUninstall(p, FALSE)
    /\ UNCHANGED <<disk, trust, certs, crashes>>

\* the listener breaks, or the shutdown runs out of its grace period
StopOnError(p) ==
    /\ at[p] = Serving
    /\ Fault(p, "bind")
    /\ UNCHANGED <<disk, trust, certs, crashes>>

-----------------------------------------------------------------------------
(* runHTTPSUninstall: a new installer, which knows the anchor by its path    *)

\* Mutant: the files are removed although the trust command failed.
UntrustIgnoringError(p) ==
    /\ at[p] = <<"untrust", "anchor">>
    /\ \/ trust' = trust \ {disk["anchor"]}
       \/ "trust" \in Faults /\ UNCHANGED trust
    /\ Continue(p, <<"remove", "anchor">>)
    /\ UNCHANGED <<held, disk, certs, crashes>>

\* The command needs a certificate to know what to remove; whether it objects
\* to one the store does not hold is left open.
Untrust(p) ==
    /\ at[p] = <<"untrust", "anchor">>
    /\ \/ /\ disk["anchor"] \in Keys
          /\ trust' = trust \ {disk["anchor"]}
          /\ Continue(p, <<"remove", "anchor">>)
          /\ UNCHANGED held
       \/ disk["anchor"] \notin trust /\ Fail(p) /\ UNCHANGED trust
       \/ Fault(p, "trust") /\ UNCHANGED trust
    /\ UNCHANGED <<disk, certs, crashes>>

RemoveAnchor(p) ==
    /\ at[p] = <<"remove", "anchor">>
    /\ \/ /\ disk' = [disk EXCEPT !["anchor"] = Absent]
          /\ Continue(p, <<"forget", "firefox">>)
          /\ UNCHANGED held
       \/ Fault(p, "delete") /\ UNCHANGED disk
    /\ UNCHANGED <<trust, certs, crashes>>

RemoveFromFirefox(p) ==
    /\ at[p] = <<"forget", "firefox">>
    /\ \/ Continue(p, <<"remove", "caCert">>) /\ UNCHANGED held
       \/ Fault(p, "firefox")
    /\ UNCHANGED <<disk, trust, certs, crashes>>

\* Mutant: the private key of the CA is not among the removal targets.
AfterRemovalKeepingCaKey(f) ==
    IF f = "caCert" THEN <<"remove", "leafCert">> ELSE <<"remove", "leafKey">>

AfterRemoval(f) ==
    CASE f = "caCert"   -> <<"remove", "caKey">>
      [] f = "caKey"    -> <<"remove", "leafCert">>
      [] f = "leafCert" -> <<"remove", "leafKey">>

\* Mutant: only the files of the CA are removed.
RemoveCredentialOfCa(p, f) ==
    /\ at[p] = <<"remove", f>>
    /\ f \in CaFiles
    /\ disk' = [disk EXCEPT ![f] = Absent]
    /\ IF f = "caKey"
       THEN Exit(p, IF failed[p] THEN "serveError" ELSE "served")
       ELSE Continue(p, AfterRemoval(f)) /\ UNCHANGED held
    /\ UNCHANGED <<trust, certs, crashes>>

\* An error of these removals is dropped: the loop goes on and the run ends
\* as if the file were gone.
RemoveCredential(p, f) ==
    /\ at[p] = <<"remove", f>>
    /\ f # "anchor"
    /\ \/ disk' = [disk EXCEPT ![f] = Absent]
       \/ "remove" \in Faults /\ UNCHANGED disk
    /\ IF f = "leafKey"
       THEN Exit(p, IF failed[p] THEN "serveError" ELSE "served")
       ELSE Continue(p, AfterRemoval(f)) /\ UNCHANGED held
    /\ UNCHANGED <<trust, certs, crashes>>

-----------------------------------------------------------------------------
(* The environment *)

\* SIGKILL at any step; SIGINT too wherever createSignalContext is not in
\* force, which is everywhere outside serving.
Crash(p) ==
    /\ at[p] # Off
    /\ at[p] \in CrashPoints
    /\ crashes < MaxCrashes
    /\ crashes' = crashes + 1
    /\ Exit(p, "killed")
    /\ UNCHANGED <<disk, trust, certs>>

\* Time passes: the renewal window of a certificate opens.
ComeDue(k) ==
    /\ MayAge
    /\ k \in InUse
    /\ ~certs[k].due
    /\ certs' = [certs EXCEPT ![k].due = TRUE]
    /\ UNCHANGED <<procVars, disk, trust, crashes>>

EnsureStep(p) == ReadCaCert(p) \/ ReadCaKey(p) \/ GenerateCa(p)
WriteStep(p)  == \E f \in Files : TruncateFile(p, f) \/ FillFile(p, f)
InstallStep(p) == CopyCertificate(p) \/ TrustAnchor(p) \/ IntegrateFirefox(p)
IssueStep(p)  == ReadLeafCert(p) \/ ReadLeafKey(p) \/ GenerateLeaf(p)
ServeStep(p)  == PairKeys(p) \/ Bind(p)
UninstallStep(p) ==
    \/ Untrust(p) \/ RemoveAnchor(p) \/ RemoveFromFirefox(p)
    \/ \E f \in Files : RemoveCredential(p, f)

\* what the program does on its own once started
ProgramStep(p) ==
    \/ EnsureStep(p) \/ WriteStep(p) \/ InstallStep(p)
    \/ IssueStep(p) \/ ServeStep(p) \/ UninstallStep(p)

Next ==
    \/ \E p \in Instances :
          Start(p) \/ ProgramStep(p) \/ StopOnSignal(p) \/ StopOnError(p) \/ Crash(p)
    \/ \E k \in Keys : ComeDue(k)

Spec == Init /\ [][Next]_vars

\* A started process runs on; whoever runs the program stops it at some point
\* and starts it again.
Fairness == \A p \in Instances :
    WF_vars(ProgramStep(p)) /\ WF_vars(StopOnSignal(p)) /\ WF_vars(Start(p))

FairSpec == Spec /\ Fairness

-----------------------------------------------------------------------------
(* Safety *)

IsServing(p) == at[p] = Serving
LeafTrusted(p) == certs[held[p]["leafCert"]].signer \in trust

\* An instance never serves a certificate with a private key that is not its
\* own, although certificate and key are two files written one after the
\* other that no load compares (tls.X509KeyPair does, after the issue).
ServedPairMatches == \A p \in Instances : IsServing(p) =>
    /\ held[p]["leafCert"] \in Keys
    /\ held[p]["leafKey"] = held[p]["leafCert"]

\* The certificate an instance serves names exactly the hosts this run was
\* configured with, whichever run or instance left the file it came from.
ServedForRequest == \A p \in Instances : IsServing(p) =>
    certs[held[p]["leafCert"]].hosts = hosts[p]

\* While an instance serves, the CA that signed its certificate is in the
\* trust store, so that clients of this machine accept it.
ServedLeafTrusted == \A p \in Instances : IsServing(p) => LeafTrusted(p)

\* A CA the next setup or serve replaces, although it is still trusted.
LapsedCas == {k \in trust : certs[k].due}

\* The same with the passing of time: a served certificate clients do not
\* accept is only possible when a CA came due, either the trusted one (the
\* serve then replaces the CA the setup had just anchored) or the signer of
\* a leaf that was reused.
LeafTrustedUnlessDue == \A p \in Instances : IsServing(p) =>
    \/ LeafTrusted(p)
    \/ LapsedCas # {}
    \/ certs[certs[held[p]["leafCert"]].signer].due

\* A run whose uninstall went through leaves no credential on the disk and no
\* CA in the trust store, whatever crashes and failed runs came before it,
\* except CAs that came due while they were trusted: the anchor copy by which
\* they could be removed has been overwritten with their successor.
CleanUnlessDue == \A p \in Instances :
    result[p] \in {"served", "serveError"} /\ at[p] = Off =>
        /\ trust = LapsedCas
        /\ \A f \in Files : disk[f] = Absent

Session == INSTANCE TlsSession WITH
    material <- \E f \in Files : disk[f] # Absent,
    trusted  <- trust # LapsedCas,
    lapsed   <- LapsedCas # {},
    serving  <- \E p \in Instances : IsServing(p)

\* A single instance keeps the order TlsSession asks for, across crashes and
\* failed commands: it serves only while a CA is trusted, withdraws the trust
\* after serving, and drops the files only once no CA is trusted but those
\* that came due.
ImplementsSession == Session!Spec

-----------------------------------------------------------------------------
(* Liveness *)

\* Whatever a kill at the crash points left behind, later runs whose reads, writes and commands
\* work get back to serving a certificate that clients trust.  A kill that truncates a file of
\* the CA is not among them: every later run fails on such a file.
SelfHealing == \A p \in Instances : []<>(IsServing(p) /\ LeafTrusted(p))

=============================================================================
