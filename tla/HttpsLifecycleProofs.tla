---- MODULE HttpsLifecycleProofs ----
(***************************************************************************)
(* Theorems about HttpsLifecycle for any number of instances, any keys,    *)
(* requests, faults and crash points: type correctness, and that what an   *)
(* instance serves is a matching pair made for its own hosts.              *)
(***************************************************************************)
EXTENDS HttpsLifecycle, TLAPS

\* The steps at which an instance works with CA material it has loaded or
\* generated, and those at which it has settled on a leaf certificate.
CaSteps   == ({"cut", "fill"} \X CaFiles)
               \cup {<<"read", "leafCert">>, <<"read", "leafKey">>, <<"generate", "leafCert">>}
PairedSteps == {<<"bind", "leafCert">>, Serving}
LeafSteps == ({"cut", "fill"} \X LeafFiles) \cup {<<"pair", "leafKey">>} \cup PairedSteps

CaChosen(p) == at[p] \in CaSteps =>
    held[p]["caCert"] \in Keys /\ held[p]["caKey"] \in Keys

LeafChosen(p) == at[p] \in LeafSteps =>
    /\ held[p]["leafCert"] \in Keys
    /\ certs[held[p]["leafCert"]].hosts = hosts[p]

Paired(p) == at[p] \in PairedSteps => held[p]["leafKey"] = held[p]["leafCert"]

Local(p) == CaChosen(p) /\ LeafChosen(p) /\ Paired(p)

IInv == TypeOK /\ \A p \in Instances : Local(p)

\* The initial state satisfies the invariant.
LEMMA InitIInv == Init => IInv
<1> SUFFICES ASSUME Init PROVE IInv
  OBVIOUS
<1> USE DEF Init
<1>1. \A k \in Keys : Blank(k) \in Certificate
  BY DEF Blank, Certificate
<1>2. TypeOK
  BY <1>1, SMT DEF TypeOK, Off, Steps, Operations, Targets, Files, CaFiles, LeafFiles,
     NothingHeld, Content, Results
<1>3. ASSUME NEW p \in Instances PROVE Local(p)
  BY DEF Local, CaChosen, LeafChosen, Paired, Off, CaSteps, LeafSteps, PairedSteps, Serving
<1> QED
  BY <1>2, <1>3 DEF IInv

\* A new certificate leaves those alone that anybody refers to.
LEMMA CertifyFrame ==
  ASSUME TypeOK, NEW s \in Keys, NEW r \in Requests \cup {NoHosts},
         Unused # {}, Certify(s, r)
  PROVE  /\ FreshKey \in Keys
         /\ certs' \in [Keys -> Certificate]
         /\ certs'[FreshKey].hosts = r
         /\ \A k \in Referenced : certs'[k] = certs[k]
<1>1. FreshKey \in Unused
  BY DEF FreshKey
<1>2. FreshKey \in Keys /\ FreshKey \notin Referenced
  BY <1>1 DEF Unused, InUse
<1>3. \A k \in Referenced : k \in Keys /\ k \notin Unused
  BY DEF Unused, InUse, Referenced
<1>4. certs' \in [Keys -> Certificate]
  BY SMT DEF Certify, TypeOK, Certificate, Blank
<1>5. certs'[FreshKey].hosts = r
  BY <1>2 DEF Certify
<1>6. \A k \in Referenced : certs'[k] = certs[k]
  BY <1>1, <1>2, <1>3 DEF Certify
<1> QED
  BY <1>2, <1>4, <1>5, <1>6

-----------------------------------------------------------------------------
(* What the control operators preserve *)

ProcTypeOK ==
    /\ at \in [Instances -> Steps]
    /\ stage \in [Instances -> {"setup", "serve", "cleanup"}]
    /\ hosts \in [Instances -> Requests \cup {NoHosts}]
    /\ held \in [Instances -> [Files -> Content]]
    /\ failed \in [Instances -> BOOLEAN]
    /\ result \in [Instances -> Results]

StoreTypeOK ==
    /\ disk \in [Files -> Content]
    /\ trust \subseteq Keys
    /\ certs \in [Keys -> Certificate]
    /\ crashes \in Nat

\* The type invariant, split into what processes hold and what they share.
LEMMA TypeParts == TypeOK <=> ProcTypeOK /\ StoreTypeOK
  BY DEF TypeOK, ProcTypeOK, StoreTypeOK

\* the certificates that are referred to keep their hosts
CertsKept == \A k \in Referenced : certs'[k].hosts = certs[k].hosts

\* An instance whose own state is unchanged keeps its part of the invariant.
LEMMA OthersKeep ==
  ASSUME IInv, NEW q \in Instances, CertsKept,
         at'[q] = at[q], held'[q] = held[q], hosts'[q] = hosts[q]
  PROVE  Local(q)'
<1>1. Local(q)
  BY DEF IInv
<1>2. CaChosen(q)' /\ Paired(q)'
  BY <1>1 DEF Local, CaChosen, Paired
<1>3. ASSUME at[q] \in LeafSteps PROVE held[q]["leafCert"] \in Referenced
  BY <1>1, <1>3 DEF Local, LeafChosen, Referenced, Files, LeafFiles
<1>4. LeafChosen(q)'
  BY <1>1, <1>3 DEF Local, LeafChosen, CertsKept
<1> QED
  BY <1>2, <1>4 DEF Local

\* An instance that returned, or begins its uninstall, owes nothing about what it holds.
LEMMA OffIsLocal ==
  ASSUME NEW p \in Instances, at'[p] \in {Off, <<"untrust", "anchor">>}
  PROVE  Local(p)'
  BY DEF Local, CaChosen, LeafChosen, Paired, Off, Serving,
     CaSteps, LeafSteps, PairedSteps

\* A process that holds nothing holds something of the right type.
LEMMA NothingHeldType == NothingHeld \in [Files -> Content]
  BY DEF NothingHeld, Content

\* A return keeps types and what every instance owes.
LEMMA ExitKeeps ==
  ASSUME IInv, NEW p \in Instances, NEW how \in Results, Exit(p, how), CertsKept
  PROVE  ProcTypeOK' /\ \A q \in Instances : Local(q)'
<1> USE DEF Exit, Goto
<1>1. TypeOK
  BY DEF IInv
<1>2. Off \in Steps
  BY DEF Off, Steps, Operations, Targets
<1>3. ProcTypeOK'
  BY <1>1, <1>2, NothingHeldType DEF TypeOK, ProcTypeOK
<1>4. ASSUME NEW q \in Instances, q # p PROVE Local(q)'
  BY <1>1, <1>4, OthersKeep DEF TypeOK
<1>5. Local(p)'
  BY <1>1, OffIsLocal DEF TypeOK
<1> QED
  BY <1>3, <1>4, <1>5

\* So does the beginning of the uninstall, ...
LEMMA BeginUninstallKeeps ==
  ASSUME IInv, NEW p \in Instances, NEW e \in BOOLEAN, BeginUninstall(p, e), CertsKept
  PROVE  ProcTypeOK' /\ \A q \in Instances : Local(q)'
<1> USE DEF BeginUninstall, Goto
<1>1. TypeOK
  BY DEF IInv
<1>2. <<"untrust", "anchor">> \in Steps
  BY DEF Steps, Operations, Targets, Files
<1>3. ProcTypeOK'
  BY <1>1, <1>2, NothingHeldType DEF TypeOK, ProcTypeOK
<1>4. ASSUME NEW q \in Instances, q # p PROVE Local(q)'
  BY <1>1, <1>4, OthersKeep DEF TypeOK
<1>5. Local(p)'
  BY <1>1, OffIsLocal DEF TypeOK
<1> QED
  BY <1>3, <1>4, <1>5

\* ... and every way a fault is handled.
LEMMA FailKeeps ==
  ASSUME IInv, NEW p \in Instances, Fail(p), CertsKept
  PROVE  ProcTypeOK' /\ \A q \in Instances : Local(q)'
<1>1. CASE Exit(p, "setupError")
  BY <1>1, ExitKeeps DEF Results
<1>2. CASE BeginUninstall(p, TRUE)
  BY <1>2, BeginUninstallKeeps
<1>3. CASE Exit(p, "uninstallError")
  BY <1>3, ExitKeeps DEF Results
<1> QED
  BY <1>1, <1>2, <1>3 DEF Fail

\* A step that goes on keeps the types, and the invariant of the others.
LEMMA ContinueKeeps ==
  ASSUME IInv, NEW p \in Instances, NEW step \in Steps, Continue(p, step), CertsKept,
         held' \in [Instances -> [Files -> Content]],
         \A q \in Instances \ {p} : held'[q] = held[q],
         Local(p)'
  PROVE  ProcTypeOK' /\ \A q \in Instances : Local(q)'
<1> USE DEF Continue, Goto
<1>1. TypeOK
  BY DEF IInv
<1>2. ProcTypeOK'
  BY <1>1 DEF TypeOK, ProcTypeOK
<1>3. ASSUME NEW q \in Instances, q # p PROVE Local(q)'
  BY <1>1, <1>3, OthersKeep DEF TypeOK
<1> QED
  BY <1>2, <1>3

-----------------------------------------------------------------------------
(* One lemma per action *)

\* An operation and a target make a step.
LEMMA StepPairs ==
    /\ Off \in Steps /\ Serving \in Steps
    /\ \A o \in Operations, t \in Files \cup {"firefox"} : <<o, t>> \in Steps
  BY DEF Off, Serving, Steps, Operations, Targets, Files, LeafFiles

\* A step that makes no certificate keeps the certificates in use.
LEMMA SameCertsKept == certs' = certs => CertsKept
  BY DEF CertsKept

\* A run starts with nothing held.
LEMMA StartKeeps ==
  ASSUME IInv, NEW p \in Instances, Start(p) PROVE IInv'
<1> USE DEF Start, Goto
<1>1. TypeOK /\ TypeOK'
  BY StepPairs DEF IInv, TypeOK, Operations, Files, CaFiles, Results
<1>2. ASSUME NEW q \in Instances, q # p PROVE Local(q)'
  BY <1>1, <1>2, OthersKeep, SameCertsKept DEF TypeOK
<1>3. Local(p)'
  BY <1>1 DEF TypeOK, Local, CaChosen, LeafChosen, Paired,
     Serving, CaSteps, LeafSteps, PairedSteps
<1> QED
  BY <1>1, <1>2, <1>3 DEF IInv

\* What a step amounts to that leaves the certificates alone: it fails, or it
\* goes on with the types and its own part of the invariant intact.
LEMMA StepKeeps ==
  ASSUME IInv, NEW p \in Instances, StoreTypeOK', CertsKept,
         \/ Fail(p)
         \/ \E step \in Steps :
               /\ Continue(p, step)
               /\ held' \in [Instances -> [Files -> Content]]
               /\ \A q \in Instances \ {p} : held'[q] = held[q]
               /\ Local(p)'
  PROVE  IInv'
<1>1. CASE Fail(p)
  BY <1>1, FailKeeps DEF IInv, TypeOK, ProcTypeOK, StoreTypeOK
<1>2. ASSUME NEW step \in Steps, Continue(p, step),
             held' \in [Instances -> [Files -> Content]],
             \A q \in Instances \ {p} : held'[q] = held[q], Local(p)'
      PROVE  IInv'
  BY <1>2, ContinueKeeps DEF IInv, TypeOK, ProcTypeOK, StoreTypeOK
<1> QED
  BY <1>1, <1>2

\* Reading the CA certificate chooses nothing yet.
LEMMA ReadCaCertKeeps ==
  ASSUME IInv, NEW p \in Instances, ReadCaCert(p) PROVE IInv'
<1> USE DEF ReadCaCert
<1>1. TypeOK /\ StoreTypeOK' /\ CertsKept
  BY SameCertsKept DEF IInv, TypeOK, StoreTypeOK
<1>2. CASE Fault(p, "read")
  BY <1>1, <1>2, StepKeeps DEF Fault
<1>3. CASE Hold(p, "caCert", disk["caCert"])
           /\ Continue(p, IF disk["caCert"] = Absent THEN <<"generate", "caCert">>
                                                     ELSE <<"read", "caKey">>)
  <2> DEFINE step == IF disk["caCert"] = Absent THEN <<"generate", "caCert">>
                                                ELSE <<"read", "caKey">>
  <2>1. step \in Steps
    BY StepPairs DEF Operations, Files, CaFiles
  <2>2. held' \in [Instances -> [Files -> Content]]
    BY <1>1, <1>3 DEF TypeOK, Hold, Files, CaFiles
  <2>3. \A q \in Instances \ {p} : held'[q] = held[q]
    BY <1>1, <1>3 DEF TypeOK, Hold
  <2>4. Local(p)'
    BY <1>1, <1>3 DEF TypeOK, Continue, Goto, Local, CaChosen, LeafChosen, Paired,
       Serving, CaSteps, LeafSteps, PairedSteps
  <2> QED
    BY <1>1, <1>3, <2>1, <2>2, <2>3, <2>4, StepKeeps
<1> QED
  BY <1>2, <1>3

\* A step at which an instance relies on nothing it has read.
LEMMA PlainStep ==
  ASSUME NEW p \in Instances, at'[p] \notin CaSteps \cup LeafSteps
  PROVE  Local(p)'
  BY DEF Local, CaChosen, LeafChosen, Paired, LeafSteps, PairedSteps

\* The steps at which a process owes nothing about its CA or leaf.
LEMMA SomePlainSteps ==
    /\ \A f \in Files : <<"remove", f>> \notin CaSteps \cup LeafSteps
    /\ \A f \in {"caCert", "caKey"} : <<"read", f>> \notin CaSteps \cup LeafSteps
    /\ <<"generate", "caCert">> \notin CaSteps \cup LeafSteps
    /\ <<"copy", "anchor">> \notin CaSteps \cup LeafSteps
    /\ <<"cut", "anchor">> \notin CaSteps \cup LeafSteps
    /\ <<"fill", "anchor">> \notin CaSteps \cup LeafSteps
    /\ <<"trust", "anchor">> \notin CaSteps \cup LeafSteps
    /\ <<"import", "firefox">> \notin CaSteps \cup LeafSteps
    /\ <<"forget", "firefox">> \notin CaSteps \cup LeafSteps
  BY DEF CaSteps, LeafSteps, PairedSteps, Serving, CaFiles, LeafFiles

\* Where a process goes once it has a CA is a step.
LEMMA AfterEnsureIsStep ==
  ASSUME NEW p \in Instances
  PROVE  /\ AfterEnsure(p) \in Steps
         /\ AfterEnsure(p) \notin LeafSteps
         /\ AfterEnsure(p) \in {<<"copy", "anchor">>, <<"read", "leafCert">>}
  BY StepPairs DEF AfterEnsure, Operations, Files, LeafFiles,
     LeafSteps, PairedSteps, Serving

\* With the key read, the CA is chosen when both parse and match.
LEMMA ReadCaKeyKeeps ==
  ASSUME IInv, NEW p \in Instances, ReadCaKey(p) PROVE IInv'
<1> USE DEF ReadCaKey
<1>1. TypeOK /\ StoreTypeOK' /\ CertsKept
  BY SameCertsKept DEF IInv, TypeOK, StoreTypeOK
<1>2. CASE Fail(p)
  BY <1>1, <1>2, StepKeeps
<1>3. ASSUME NEW step \in Steps, Hold(p, "caKey", disk["caKey"]), Continue(p, step),
             step \in CaSteps => held[p]["caCert"] \in Keys /\ disk["caKey"] \in Keys,
             step \notin LeafSteps
      PROVE  IInv'
  <2>1. held' \in [Instances -> [Files -> Content]]
    BY <1>1, <1>3 DEF TypeOK, Hold, Files, CaFiles
  <2>2. \A q \in Instances \ {p} : held'[q] = held[q]
    BY <1>1, <1>3 DEF TypeOK, Hold
  <2>3. at'[p] = step /\ held'[p]["caCert"] = held[p]["caCert"]
           /\ held'[p]["caKey"] = disk["caKey"]
    BY <1>1, <1>3 DEF TypeOK, Hold, Continue, Goto, Files, CaFiles
  <2>4. Local(p)'
    BY <1>3, <2>3 DEF Local, CaChosen, LeafChosen, Paired, LeafSteps, PairedSteps
  <2> QED
    BY <1>1, <1>3, <2>1, <2>2, <2>4, StepKeeps
<1>4. <<"generate", "caCert">> \in Steps
  BY StepPairs DEF Operations, Files, CaFiles
<1>5. CASE disk["caKey"] = Absent /\ Hold(p, "caKey", disk["caKey"])
           /\ Continue(p, <<"generate", "caCert">>)
  BY <1>3, <1>4, <1>5, SomePlainSteps
<1>6. CASE /\ {held[p]["caCert"], disk["caKey"]} \subseteq Keys
           /\ Hold(p, "caKey", disk["caKey"])
           /\ Continue(p, IF certs[held[p]["caCert"]].due THEN <<"generate", "caCert">>
                                                        ELSE AfterEnsure(p))
  BY <1>3, <1>4, <1>6, SomePlainSteps, AfterEnsureIsStep
<1> QED
  BY <1>2, <1>5, <1>6 DEF Fault

\* A generated CA takes a name nobody uses.
LEMMA GenerateCaKeeps ==
  ASSUME IInv, NEW p \in Instances, GenerateCa(p) PROVE IInv'
<1> USE DEF GenerateCa
<1>1. TypeOK
  BY DEF IInv
<1>2. FreshKey \in Keys /\ certs' \in [Keys -> Certificate] /\ CertsKept
  <2>1. FreshKey \in Keys
    BY DEF FreshKey, Unused
  <2> QED
    BY <1>1, <2>1, CertifyFrame DEF CertsKept
<1>3. StoreTypeOK'
  BY <1>1, <1>2 DEF TypeOK, StoreTypeOK
<1>4. <<"cut", "caCert">> \in Steps
  BY StepPairs DEF Operations, Files, CaFiles
<1>5. held' \in [Instances -> [Files -> Content]]
  BY <1>1, <1>2 DEF TypeOK, Files, CaFiles, Content
<1>6. \A q \in Instances \ {p} : held'[q] = held[q]
  BY <1>1 DEF TypeOK
<1>7. at'[p] = <<"cut", "caCert">> /\ held'[p]["caCert"] = FreshKey
         /\ held'[p]["caKey"] = FreshKey
  BY <1>1 DEF TypeOK, Continue, Goto, Files, CaFiles
<1>8. <<"cut", "caCert">> \notin LeafSteps
  BY DEF LeafSteps, PairedSteps, Serving, LeafFiles
<1>9. Local(p)'
  BY <1>2, <1>7, <1>8 DEF Local, CaChosen, LeafChosen, Paired, LeafSteps
<1> QED
  BY <1>2, <1>3, <1>4, <1>5, <1>6, <1>9, StepKeeps

\* A step that holds on to what it held keeps its own part of the invariant
\* when the next step relies on nothing more than this one.
LEMMA SameHeldKeeps ==
  ASSUME IInv, NEW p \in Instances, NEW step \in Steps, Continue(p, step),
         UNCHANGED <<held, certs>>, StoreTypeOK',
         step \in CaSteps => at[p] \in CaSteps,
         step \in LeafSteps => at[p] \in LeafSteps,
         step \in PairedSteps => held[p]["leafKey"] = held[p]["leafCert"]
  PROVE  IInv'
<1>1. TypeOK /\ Local(p)
  BY DEF IInv
<1>2. at'[p] = step /\ hosts' = hosts
  BY <1>1 DEF TypeOK, Continue, Goto
<1>3. Local(p)'
  BY <1>1, <1>2 DEF Local, CaChosen, LeafChosen, Paired
<1>4. held' \in [Instances -> [Files -> Content]]
  BY <1>1 DEF TypeOK
<1> QED
  BY <1>3, <1>4, SameCertsKept, StepKeeps

\* A truncation changes the disk only.
LEMMA TruncateFileKeeps ==
  ASSUME IInv, NEW p \in Instances, NEW f \in Files, TruncateFile(p, f) PROVE IInv'
<1> USE DEF TruncateFile
<1>1. TypeOK /\ StoreTypeOK' /\ certs' = certs
  BY DEF IInv, TypeOK, StoreTypeOK, Content
<1>2. CASE Fault(p, "write")
  BY <1>1, <1>2, StepKeeps, SameCertsKept DEF Fault
<1>3. CASE Continue(p, <<"fill", f>>) /\ UNCHANGED held
  <2>1. <<"fill", f>> \in Steps
    BY StepPairs DEF Operations
  <2>2. /\ <<"fill", f>> \in CaSteps => at[p] \in CaSteps
        /\ <<"fill", f>> \in LeafSteps => at[p] \in LeafSteps
        /\ <<"fill", f>> \notin PairedSteps
    BY DEF CaSteps, LeafSteps, PairedSteps, Serving
  <2> QED
    BY <1>1, <1>3, <2>1, <2>2, SameHeldKeeps
<1> QED
  BY <1>2, <1>3

\* Where a process goes after a write is a step.
LEMMA AfterWriteIsStep ==
  ASSUME NEW p \in Instances, NEW f \in Files
  PROVE  /\ AfterWrite(p, f) \in Steps
         /\ AfterWrite(p, f) \in CaSteps => <<"fill", f>> \in CaSteps
         /\ AfterWrite(p, f) \in LeafSteps => <<"fill", f>> \in LeafSteps
         /\ AfterWrite(p, f) \notin PairedSteps
<1> USE DEF AfterWrite
<1>1. CASE f = "caCert"
  BY <1>1, StepPairs DEF Operations, Files, CaFiles, LeafFiles, CaSteps, LeafSteps,
     PairedSteps, Serving
<1>2. CASE f = "caKey"
  BY <1>2, AfterEnsureIsStep DEF CaFiles, CaSteps, LeafSteps
<1>3. CASE f = "anchor"
  BY <1>3, StepPairs, SomePlainSteps DEF Operations, Files, LeafSteps
<1>4. CASE f = "leafCert"
  BY <1>4, StepPairs DEF Operations, Files, CaFiles, LeafFiles, CaSteps, LeafSteps,
     PairedSteps, Serving
<1>5. CASE f = "leafKey"
  BY <1>5, StepPairs DEF Operations, Files, CaFiles, LeafFiles, CaSteps, LeafSteps,
     PairedSteps, Serving
<1> QED
  BY <1>1, <1>2, <1>3, <1>4, <1>5 DEF Files, CaFiles, LeafFiles

\* A file is filled with what its process holds.
LEMMA FillFileKeeps ==
  ASSUME IInv, NEW p \in Instances, NEW f \in Files, FillFile(p, f) PROVE IInv'
<1> USE DEF FillFile
<1>1. TypeOK /\ StoreTypeOK' /\ certs' = certs
  BY DEF IInv, TypeOK, StoreTypeOK
<1>2. CASE Fault(p, "write")
  BY <1>1, <1>2, StepKeeps, SameCertsKept DEF Fault
<1>3. CASE Continue(p, AfterWrite(p, f)) /\ UNCHANGED held
  BY <1>1, <1>3, AfterWriteIsStep, SameHeldKeeps
<1> QED
  BY <1>2, <1>3

\* The anchor copy changes the disk only.
LEMMA CopyCertificateKeeps ==
  ASSUME IInv, NEW p \in Instances, CopyCertificate(p) PROVE IInv'
<1> USE DEF CopyCertificate
<1>1. TypeOK /\ StoreTypeOK' /\ CertsKept
  BY SameCertsKept DEF IInv, TypeOK, StoreTypeOK
<1>2. CASE Fail(p)
  BY <1>1, <1>2, StepKeeps
<1>3. CASE Hold(p, "anchor", disk["caCert"]) /\ Continue(p, <<"cut", "anchor">>)
  <2>1. <<"cut", "anchor">> \in Steps
    BY StepPairs DEF Operations, Files
  <2>2. held' \in [Instances -> [Files -> Content]]
    BY <1>1, <1>3 DEF TypeOK, Hold, Files, CaFiles
  <2>3. \A q \in Instances \ {p} : held'[q] = held[q]
    BY <1>1, <1>3 DEF TypeOK, Hold
  <2>4. Local(p)'
    BY <1>1, <1>3, PlainStep, SomePlainSteps DEF TypeOK, Continue, Goto
  <2> QED
    BY <1>1, <1>3, <2>1, <2>2, <2>3, <2>4, StepKeeps
<1> QED
  BY <1>2, <1>3 DEF Fault

\* The trust command changes the trust store only.
LEMMA TrustAnchorKeeps ==
  ASSUME IInv, NEW p \in Instances, TrustAnchor(p) PROVE IInv'
<1> USE DEF TrustAnchor
<1>1. TypeOK /\ StoreTypeOK' /\ certs' = certs
  BY DEF IInv, TypeOK, StoreTypeOK
<1>2. CASE Fail(p)
  BY <1>1, <1>2, StepKeeps, SameCertsKept
<1>3. CASE Continue(p, <<"import", "firefox">>) /\ UNCHANGED held
  BY <1>1, <1>3, StepPairs, SomePlainSteps, SameHeldKeeps DEF Operations, LeafSteps
<1> QED
  BY <1>2, <1>3 DEF Fault

\* The Firefox step changes nothing the invariant speaks of.
LEMMA IntegrateFirefoxKeeps ==
  ASSUME IInv, NEW p \in Instances, IntegrateFirefox(p) PROVE IInv'
<1> USE DEF IntegrateFirefox
<1>1. TypeOK /\ StoreTypeOK' /\ CertsKept
  BY SameCertsKept DEF IInv, TypeOK, StoreTypeOK
<1>2. CASE Fault(p, "firefox")
  BY <1>1, <1>2, StepKeeps DEF Fault
<1>3. CASE /\ Goto(p, <<"read", "caCert">>)
           /\ stage' = [stage EXCEPT ![p] = "serve"]
           /\ held' = [held EXCEPT ![p] = NothingHeld]
           /\ UNCHANGED <<hosts, failed, result>>
  <2>1. TypeOK'
    BY <1>1, <1>3, StepPairs, NothingHeldType
    DEF TypeOK, StoreTypeOK, Goto, Operations, Files, CaFiles
  <2>2. ASSUME NEW q \in Instances, q # p PROVE Local(q)'
    BY <1>1, <1>3, <2>2, OthersKeep DEF TypeOK, Goto
  <2>3. Local(p)'
    BY <1>1, <1>3, PlainStep, SomePlainSteps DEF TypeOK, Goto
  <2> QED
    BY <2>1, <2>2, <2>3 DEF IInv
<1> QED
  BY <1>2, <1>3

\* Reading the leaf certificate chooses nothing yet.
LEMMA ReadLeafCertKeeps ==
  ASSUME IInv, NEW p \in Instances, ReadLeafCert(p) PROVE IInv'
<1> USE DEF ReadLeafCert
<1>1. TypeOK /\ StoreTypeOK' /\ CertsKept
  BY SameCertsKept DEF IInv, TypeOK, StoreTypeOK
<1>2. CASE Fault(p, "read")
  BY <1>1, <1>2, StepKeeps DEF Fault
<1>3. CASE Hold(p, "leafCert", disk["leafCert"])
           /\ Continue(p, IF disk["leafCert"] = Absent THEN <<"generate", "leafCert">>
                                                       ELSE <<"read", "leafKey">>)
  <2> DEFINE step == IF disk["leafCert"] = Absent THEN <<"generate", "leafCert">>
                                                  ELSE <<"read", "leafKey">>
  <2>1. step \in Steps /\ step \in CaSteps /\ step \notin LeafSteps
    BY StepPairs DEF Operations, Files, LeafFiles, CaSteps, LeafSteps, PairedSteps, Serving
  <2>2. held' \in [Instances -> [Files -> Content]]
    BY <1>1, <1>3 DEF TypeOK, Hold, Files, LeafFiles
  <2>3. \A q \in Instances \ {p} : held'[q] = held[q]
    BY <1>1, <1>3 DEF TypeOK, Hold
  <2>4. held[p]["caCert"] \in Keys /\ held[p]["caKey"] \in Keys
    BY DEF IInv, Local, CaChosen, CaSteps
  <2>5. /\ held'[p]["caCert"] = held[p]["caCert"]
        /\ held'[p]["caKey"] = held[p]["caKey"]
        /\ at'[p] = step
    BY <1>1, <1>3 DEF TypeOK, Hold, Continue, Goto, Files, CaFiles
  <2>6. Local(p)'
    BY <2>1, <2>4, <2>5 DEF Local, CaChosen, LeafChosen, Paired, LeafSteps
  <2> QED
    BY <1>1, <1>3, <2>1, <2>2, <2>3, <2>6, StepKeeps
<1> QED
  BY <1>2, <1>3

\* A leaf that is reused names this run's hosts.
LEMMA ReadLeafKeyKeeps ==
  ASSUME IInv, NEW p \in Instances, ReadLeafKey(p) PROVE IInv'
<1> USE DEF ReadLeafKey
<1>1. TypeOK /\ StoreTypeOK' /\ certs' = certs /\ CertsKept
  BY SameCertsKept DEF IInv, TypeOK, StoreTypeOK
<1>2. CASE Fail(p)
  BY <1>1, <1>2, StepKeeps
<1> DEFINE generate == <<"generate", "leafCert">>
           pair     == <<"pair", "leafKey">>
<1>3. /\ generate \in Steps /\ generate \notin LeafSteps
      /\ pair \in Steps /\ pair \notin CaSteps \cup PairedSteps
  BY StepPairs DEF Operations, Files, LeafFiles, CaFiles, CaSteps, LeafSteps,
     PairedSteps, Serving
<1>4. held[p]["caCert"] \in Keys /\ held[p]["caKey"] \in Keys
  BY DEF IInv, Local, CaChosen, CaSteps
<1>5. ASSUME NEW step \in {generate, pair}, Hold(p, "leafKey", disk["leafKey"]),
             Continue(p, step),
             step = pair => /\ held[p]["leafCert"] \in Keys
                            /\ certs[held[p]["leafCert"]].hosts = hosts[p]
      PROVE  IInv'
  <2>1. held' \in [Instances -> [Files -> Content]]
    BY <1>1, <1>5 DEF TypeOK, Hold, Files, LeafFiles
  <2>2. \A q \in Instances \ {p} : held'[q] = held[q]
    BY <1>1, <1>5 DEF TypeOK, Hold
  <2>3. /\ held'[p]["caCert"] = held[p]["caCert"]
        /\ held'[p]["caKey"] = held[p]["caKey"]
        /\ held'[p]["leafCert"] = held[p]["leafCert"]
        /\ at'[p] = step /\ hosts' = hosts
    BY <1>1, <1>5 DEF TypeOK, Hold, Continue, Goto, Files, CaFiles, LeafFiles
  <2>4. CaChosen(p)'
    BY <1>4, <2>3 DEF CaChosen
  <2>5. LeafChosen(p)'
    BY <1>1, <1>3, <1>5, <2>3 DEF LeafChosen
  <2>6. Paired(p)'
    BY <1>3, <1>5, <2>3 DEF Paired, LeafSteps
  <2> QED
    BY <1>1, <1>3, <1>5, <2>1, <2>2, <2>4, <2>5, <2>6, StepKeeps DEF Local
<1>6. CASE disk["leafKey"] = Absent /\ Hold(p, "leafKey", disk["leafKey"])
           /\ Continue(p, <<"generate", "leafCert">>)
  <2>1. generate # pair
    OBVIOUS
  <2> QED
    BY <1>5, <1>6, <2>1
<1>7. CASE /\ {held[p]["leafCert"], disk["leafKey"]} \subseteq Keys
           /\ Hold(p, "leafKey", disk["leafKey"])
           /\ Continue(p, IF ShouldRotateLeaf(held[p]["leafCert"], hosts[p])
                          THEN <<"generate", "leafCert">>
                          ELSE <<"pair", "leafKey">>)
  <2>1. generate # pair
    OBVIOUS
  <2>2. CASE ShouldRotateLeaf(held[p]["leafCert"], hosts[p])
    BY <1>5, <1>7, <2>1, <2>2
  <2>3. CASE ~ShouldRotateLeaf(held[p]["leafCert"], hosts[p])
    BY <1>5, <1>7, <2>3 DEF ShouldRotateLeaf
  <2> QED
    BY <2>2, <2>3
<1> QED
  BY <1>2, <1>6, <1>7 DEF Fault

\* A new leaf takes a name nobody uses and this run's hosts.
LEMMA GenerateLeafKeeps ==
  ASSUME IInv, NEW p \in Instances, GenerateLeaf(p) PROVE IInv'
<1> USE DEF GenerateLeaf
<1>1. TypeOK
  BY DEF IInv
<1>2. CASE Fail(p) /\ UNCHANGED certs
  BY <1>1, <1>2, StepKeeps, SameCertsKept DEF TypeOK, StoreTypeOK
<1>3. CASE /\ Unused # {}
           /\ Certify(held[p]["caCert"], hosts[p])
           /\ held' = [held EXCEPT ![p]["leafCert"] = FreshKey, ![p]["leafKey"] = FreshKey]
           /\ Continue(p, <<"cut", "leafCert">>)
  <2>1. held[p]["caCert"] \in Keys
    BY DEF IInv, Local, CaChosen, CaSteps
  <2>2. /\ FreshKey \in Keys /\ certs' \in [Keys -> Certificate] /\ CertsKept
        /\ certs'[FreshKey].hosts = hosts[p]
    BY <1>1, <1>3, <2>1, CertifyFrame DEF CertsKept, TypeOK
  <2>3. StoreTypeOK'
    BY <1>1, <2>2 DEF TypeOK, StoreTypeOK
  <2>4. /\ <<"cut", "leafCert">> \in Steps
        /\ <<"cut", "leafCert">> \notin CaSteps \cup PairedSteps
    BY StepPairs DEF Operations, Files, LeafFiles, CaFiles, CaSteps, PairedSteps, Serving
  <2>5. held' \in [Instances -> [Files -> Content]]
    BY <1>1, <1>3, <2>2 DEF TypeOK, Files, LeafFiles, Content
  <2>6. \A q \in Instances \ {p} : held'[q] = held[q]
    BY <1>1, <1>3 DEF TypeOK
  <2>7. at'[p] = <<"cut", "leafCert">> /\ held'[p]["leafCert"] = FreshKey /\ hosts' = hosts
    BY <1>1, <1>3 DEF TypeOK, Continue, Goto, Files, LeafFiles
  <2>8. Local(p)'
    BY <2>2, <2>4, <2>7 DEF Local, CaChosen, LeafChosen, Paired
  <2> QED
    BY <1>3, <2>2, <2>3, <2>4, <2>5, <2>6, <2>8, StepKeeps
<1> QED
  BY <1>2, <1>3

\* The comparison lets only a matching pair through.
LEMMA PairKeysKeeps ==
  ASSUME IInv, NEW p \in Instances, PairKeys(p) PROVE IInv'
<1> USE DEF PairKeys
<1>1. TypeOK /\ StoreTypeOK' /\ certs' = certs
  BY DEF IInv, TypeOK, StoreTypeOK
<1>2. CASE Fail(p)
  BY <1>1, <1>2, StepKeeps, SameCertsKept
<1>3. CASE /\ held[p]["leafCert"] = held[p]["leafKey"]
           /\ Continue(p, <<"bind", "leafCert">>) /\ UNCHANGED held
  <2>1. /\ <<"bind", "leafCert">> \in Steps
        /\ <<"bind", "leafCert">> \notin CaSteps
        /\ at[p] \in LeafSteps
    BY StepPairs DEF Operations, Files, LeafFiles, CaFiles, CaSteps, LeafSteps
  <2> QED
    BY <1>1, <1>3, <2>1, SameHeldKeeps
<1> QED
  BY <1>2, <1>3

\* Serving starts with the pair that was compared.
LEMMA BindKeeps ==
  ASSUME IInv, NEW p \in Instances, Bind(p) PROVE IInv'
<1> USE DEF Bind
<1>1. TypeOK /\ StoreTypeOK' /\ certs' = certs
  BY DEF IInv, TypeOK, StoreTypeOK
<1>2. CASE Fault(p, "bind")
  BY <1>1, <1>2, StepKeeps, SameCertsKept DEF Fault
<1>3. CASE Continue(p, Serving) /\ UNCHANGED held
  <2>1. Serving \in Steps /\ Serving \notin CaSteps
    BY StepPairs DEF Serving, CaSteps
  <2>2. at[p] \in LeafSteps /\ at[p] \in PairedSteps
    BY DEF LeafSteps, PairedSteps
  <2>3. held[p]["leafKey"] = held[p]["leafCert"]
    BY <2>2 DEF IInv, Local, Paired
  <2> QED
    BY <1>1, <1>3, <2>1, <2>2, <2>3, SameHeldKeeps
<1> QED
  BY <1>2, <1>3

\* A stopped server goes on to its uninstall.
LEMMA StopKeeps ==
  ASSUME IInv, NEW p \in Instances, StopOnSignal(p) \/ StopOnError(p) PROVE IInv'
<1>1. StoreTypeOK' /\ CertsKept
  BY SameCertsKept DEF StopOnSignal, StopOnError, IInv, TypeOK, StoreTypeOK
<1>2. CASE BeginUninstall(p, FALSE)
  BY <1>1, <1>2, BeginUninstallKeeps DEF IInv, TypeOK, ProcTypeOK, StoreTypeOK
<1>3. CASE Fail(p)
  BY <1>1, <1>3, StepKeeps
<1> QED
  BY <1>2, <1>3 DEF StopOnSignal, StopOnError, Fault

\* Untrusting changes the trust store only.
LEMMA UntrustKeeps ==
  ASSUME IInv, NEW p \in Instances, Untrust(p) PROVE IInv'
<1> USE DEF Untrust
<1>1. TypeOK /\ StoreTypeOK' /\ certs' = certs
  BY DEF IInv, TypeOK, StoreTypeOK
<1>2. CASE Fail(p)
  BY <1>1, <1>2, StepKeeps, SameCertsKept
<1>3. CASE Continue(p, <<"remove", "anchor">>) /\ UNCHANGED held
  BY <1>1, <1>3, StepPairs, SomePlainSteps, SameHeldKeeps DEF Operations, Files, LeafSteps
<1> QED
  BY <1>2, <1>3 DEF Fault

\* Removing the anchor copy changes the disk only.
LEMMA RemoveAnchorKeeps ==
  ASSUME IInv, NEW p \in Instances, RemoveAnchor(p) PROVE IInv'
<1> USE DEF RemoveAnchor
<1>1. TypeOK /\ StoreTypeOK' /\ certs' = certs
  BY DEF IInv, TypeOK, StoreTypeOK, Content
<1>2. CASE Fault(p, "delete")
  BY <1>1, <1>2, StepKeeps, SameCertsKept DEF Fault
<1>3. CASE Continue(p, <<"forget", "firefox">>) /\ UNCHANGED held
  BY <1>1, <1>3, StepPairs, SomePlainSteps, SameHeldKeeps DEF Operations, LeafSteps
<1> QED
  BY <1>2, <1>3

\* The Firefox removal changes nothing the invariant speaks of.
LEMMA RemoveFromFirefoxKeeps ==
  ASSUME IInv, NEW p \in Instances, RemoveFromFirefox(p) PROVE IInv'
<1> USE DEF RemoveFromFirefox
<1>1. TypeOK /\ StoreTypeOK' /\ certs' = certs
  BY DEF IInv, TypeOK, StoreTypeOK
<1>2. CASE Fault(p, "firefox")
  BY <1>1, <1>2, StepKeeps, SameCertsKept DEF Fault
<1>3. CASE Continue(p, <<"remove", "caCert">>) /\ UNCHANGED held
  BY <1>1, <1>3, StepPairs, SomePlainSteps, SameHeldKeeps
  DEF Operations, Files, CaFiles, LeafSteps
<1> QED
  BY <1>2, <1>3

\* Removing a credential changes the disk, not what anybody holds.
LEMMA RemoveCredentialKeeps ==
  ASSUME IInv, NEW p \in Instances, NEW f \in Files, RemoveCredential(p, f) PROVE IInv'
<1> USE DEF RemoveCredential
<1>1. TypeOK /\ StoreTypeOK' /\ certs' = certs
  BY DEF IInv, TypeOK, StoreTypeOK, Content
<1>2. CASE f = "leafKey"
  <2>1. (IF failed[p] THEN "serveError" ELSE "served") \in Results
    BY DEF Results
  <2> QED
    BY <1>1, <1>2, <2>1, ExitKeeps, SameCertsKept DEF IInv, TypeOK, ProcTypeOK, StoreTypeOK
<1>3. CASE f # "leafKey"
  <2>1. f \in {"caCert", "caKey", "leafCert"}
    BY <1>3 DEF Files, CaFiles, LeafFiles
  <2>2. AfterRemoval(f) \in {"remove"} \X Files
    BY <2>1 DEF AfterRemoval, Files, CaFiles, LeafFiles
  <2>3. AfterRemoval(f) \in Steps /\ AfterRemoval(f) \notin CaSteps \cup LeafSteps
    BY <2>2, StepPairs, SomePlainSteps DEF Operations
  <2> QED
    BY <1>1, <1>3, <2>3, SameHeldKeeps DEF LeafSteps
<1> QED
  BY <1>2, <1>3

\* A killed process holds nothing any more.
LEMMA CrashKeeps ==
  ASSUME IInv, NEW p \in Instances, Crash(p) PROVE IInv'
<1>1. StoreTypeOK' /\ CertsKept
  BY SameCertsKept, SMT DEF Crash, IInv, TypeOK, StoreTypeOK
<1> QED
  BY <1>1, ExitKeeps DEF Crash, Results, IInv, TypeOK, ProcTypeOK, StoreTypeOK

\* A certificate that comes due keeps its key, signer and hosts.
LEMMA ComeDueKeeps ==
  ASSUME IInv, NEW k \in Keys, ComeDue(k) PROVE IInv'
<1>1. TypeOK /\ TypeOK' /\ CertsKept
  BY DEF ComeDue, IInv, TypeOK, procVars, Certificate, CertsKept, Referenced
<1>2. ASSUME NEW q \in Instances PROVE Local(q)'
  BY <1>1, OthersKeep DEF ComeDue, procVars
<1> QED
  BY <1>1, <1>2 DEF IInv

-----------------------------------------------------------------------------
(* The theorems *)

\* Stuttering keeps the invariant.
LEMMA StutterKeeps == IInv /\ UNCHANGED vars => IInv'
  BY DEF vars, IInv, TypeOK, Local, CaChosen, LeafChosen, Paired

\* Every step keeps the invariant.
LEMMA NextIInv == IInv /\ [Next]_vars => IInv'
<1> SUFFICES ASSUME IInv, Next PROVE IInv'
  BY StutterKeeps
<1>1. ASSUME NEW p \in Instances, EnsureStep(p) PROVE IInv'
  BY <1>1, ReadCaCertKeeps, ReadCaKeyKeeps, GenerateCaKeeps DEF EnsureStep
<1>2. ASSUME NEW p \in Instances, WriteStep(p) PROVE IInv'
  BY <1>2, TruncateFileKeeps, FillFileKeeps DEF WriteStep
<1>3. ASSUME NEW p \in Instances, InstallStep(p) PROVE IInv'
  BY <1>3, CopyCertificateKeeps, TrustAnchorKeeps, IntegrateFirefoxKeeps DEF InstallStep
<1>4. ASSUME NEW p \in Instances, IssueStep(p) PROVE IInv'
  BY <1>4, ReadLeafCertKeeps, ReadLeafKeyKeeps, GenerateLeafKeeps DEF IssueStep
<1>5. ASSUME NEW p \in Instances, ServeStep(p) PROVE IInv'
  BY <1>5, PairKeysKeeps, BindKeeps DEF ServeStep
<1>6. ASSUME NEW p \in Instances, UninstallStep(p) PROVE IInv'
  BY <1>6, UntrustKeeps, RemoveAnchorKeeps, RemoveFromFirefoxKeeps, RemoveCredentialKeeps
  DEF UninstallStep
<1>7. ASSUME NEW p \in Instances, ProgramStep(p) PROVE IInv'
  BY <1>1, <1>2, <1>3, <1>4, <1>5, <1>6, <1>7 DEF ProgramStep
<1> QED
  BY <1>7, StartKeeps, StopKeeps, CrashKeeps, ComeDueKeeps DEF Next

\* The inductive invariant holds throughout.
THEOREM Invariance == Spec => []IInv
  BY InitIInv, NextIInv, PTL DEF Spec

\* Every variable keeps its type, whatever the environment does.
THEOREM TypeCorrect == Spec => []TypeOK
<1>1. IInv => TypeOK
  BY DEF IInv
<1> QED
  BY <1>1, Invariance, PTL

\* However many instances run at once and wherever any of them is killed, a
\* serving instance serves a certificate together with its own private key.
THEOREM PairMatches == Spec => []ServedPairMatches
<1>1. IInv => ServedPairMatches
  BY DEF IInv, Local, LeafChosen, Paired, ServedPairMatches, IsServing,
     LeafSteps, PairedSteps
<1> QED
  BY <1>1, Invariance, PTL

\* and that certificate names the hosts this very run was started with, though
\* the file may come from another run or another instance.
THEOREM ForRequest == Spec => []ServedForRequest
<1>1. IInv => ServedForRequest
  BY DEF IInv, Local, LeafChosen, ServedForRequest, IsServing,
     LeafSteps, PairedSteps
<1> QED
  BY <1>1, Invariance, PTL
====
