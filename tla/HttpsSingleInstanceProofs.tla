---- MODULE HttpsSingleInstanceProofs ----
(***************************************************************************)
(* Theorems about HttpsLifecycle when one instance runs at a time, for any *)
(* keys, requests and faults and any number of kills: it keeps the order   *)
(* TlsSession asks for, a run whose uninstall went through leaves nothing  *)
(* behind, and what it serves was signed by a CA the trust store holds.    *)
(*                                                                         *)
(* Several instances share their files without a lock; what holds of any   *)
(* number of them is in HttpsLifecycleProofs.                              *)
(***************************************************************************)
EXTENDS HttpsLifecycleProofs

\* Nothing else runs ghttp on this machine, ...
Alone(p) == Instances = {p}

\* ... an uninstall never leaves a file behind unnoticed, ...
NoSilentFault == "remove" \notin Faults

\* ... and no process is killed between the removal of the CA and that of the leaf it signed.
HalfRemoved == {<<"remove", "caKey">>, <<"remove", "leafCert">>}
NoneHalfRemoved == CrashPoints \cap HalfRemoved = {}

\* Where a process is in its run.
RenewSteps   == {<<"generate", "caCert">>, <<"cut", "caCert">>, <<"fill", "caCert">>,
                 <<"cut", "caKey">>, <<"fill", "caKey">>}
EnsureSteps  == {<<"read", "caCert">>, <<"read", "caKey">>} \cup RenewSteps
AnchorSteps  == {<<"copy", "anchor">>, <<"cut", "anchor">>, <<"fill", "anchor">>,
                 <<"trust", "anchor">>, <<"import", "firefox">>}
ChooseSteps  == {<<"read", "leafCert">>, <<"read", "leafKey">>, <<"generate", "leafCert">>}
WriteSteps   == {<<"cut", "leafCert">>, <<"fill", "leafCert">>,
                 <<"cut", "leafKey">>, <<"fill", "leafKey">>}
IssueSteps   == ChooseSteps \cup WriteSteps \cup {<<"pair", "leafKey">>, <<"bind", "leafCert">>, Serving}
RemovalSteps == {<<"remove", "anchor">>, <<"forget", "firefox">>, <<"remove", "caCert">>,
                 <<"remove", "caKey">>, <<"remove", "leafCert">>, <<"remove", "leafKey">>}

\* Every step belongs to one stage of a run.
Phased(p) ==
    \/ at[p] = Off /\ stage[p] = "setup"
    \/ at[p] \in EnsureSteps /\ stage[p] \in {"setup", "serve"}
    \/ at[p] \in AnchorSteps /\ stage[p] = "setup"
    \/ at[p] \in IssueSteps /\ stage[p] = "serve"
    \/ at[p] \in RemovalSteps \cup {<<"untrust", "anchor">>} /\ stage[p] = "cleanup"

\* A CA that clients accept and the next ensure keeps.
Current(k) == k \in trust /\ ~certs[k].due
NoneCurrent == \A k \in Keys : ~Current(k)

\* A CA that is trusted and not due is the one on the disk.
CurrentOnDisk == \A k \in Keys : Current(k) => k = disk["caCert"] /\ disk["caKey"] # Absent

\* A CA is replaced, and files are removed, only when none is current.
Withdrawn(p) == at[p] \in RenewSteps \cup RemovalSteps => NoneCurrent

\* What was read or written as the CA certificate is still on the disk.
HoldsCa(p) ==
    at[p] \in {<<"read", "caKey">>, <<"cut", "caKey">>, <<"fill", "caKey">>}
                \cup ChooseSteps \cup WriteSteps =>
    held[p]["caCert"] = disk["caCert"]

\* From the setup's copy to the end of serving the files of the CA exist.
CaReady(p) == stage[p] = "serve" \/ at[p] \in AnchorSteps =>
    disk["caCert"] # Absent /\ disk["caKey"] # Absent

\* The anchor is a copy of the CA certificate, and trusted at the end of the setup.
Copied(p) ==
    /\ at[p] \in {<<"cut", "anchor">>, <<"fill", "anchor">>} => held[p]["anchor"] = disk["caCert"]
    /\ at[p] \in {<<"trust", "anchor">>, <<"import", "firefox">>} => disk["anchor"] = disk["caCert"]
    /\ at[p] = <<"import", "firefox">> => disk["anchor"] \in trust

\* While serving, and until the trust is withdrawn, the anchor names the only current CA.
Anchored(p) ==
    /\ stage[p] = "serve" => disk["anchor"] \in trust
    /\ stage[p] = "serve" \/ at[p] = <<"untrust", "anchor">> =>
          \A k \in Keys : Current(k) => k = disk["anchor"]

\* The inductive invariant behind the order of TlsSession.
Ordered(p) ==
    /\ Phased(p) /\ CurrentOnDisk /\ Withdrawn(p) /\ HoldsCa(p)
    /\ CaReady(p) /\ Copied(p) /\ Anchored(p)

\* The files the uninstall has removed so far; all of them when it went through.
Emptied(p) ==
    /\ at[p] \in RemovalSteps \ {<<"remove", "anchor">>} => disk["anchor"] = Absent
    /\ at[p] \in HalfRemoved \cup {<<"remove", "leafKey">>} => disk["caCert"] = Absent
    /\ at[p] \in {<<"remove", "leafCert">>, <<"remove", "leafKey">>} => disk["caKey"] = Absent
    /\ at[p] = <<"remove", "leafKey">> => disk["leafCert"] = Absent
    /\ at[p] = Off /\ result[p] \in {"served", "serveError"} =>
          NoneCurrent /\ \A f \in Files : disk[f] = Absent

\* The certificate of k was signed by ca, or its signer came due.
SignedBy(k, ca) == certs[k].signer = ca \/ certs[certs[k].signer].due

-----------------------------------------------------------------------------
(* What a step of one instance amounts to *)

\* Certificates somebody refers to keep their signer, and due ones stay due.
DueGrows == \A k \in InUse : /\ certs'[k].signer = certs[k].signer
                             /\ certs[k].due => certs'[k].due

\* Certificates that stay as they are keep their signers.
LEMMA SameDueGrows == certs' = certs => DueGrows
  BY DEF DueGrows

\* A certificate that is made, or comes due, makes no CA current.
LEMMA CurrentShrinks ==
  ASSUME TypeOK, DueGrows, trust' \subseteq trust, NEW k \in Keys, Current(k)'
  PROVE  Current(k)
<1>1. k \in trust /\ k \in Referenced
  BY DEF Current, Referenced
<1>2. k \in InUse
  BY <1>1 DEF InUse
<1> QED
  BY <1>1, <1>2 DEF Current, DueGrows

\* A step that goes on changes its place and nothing else of the run.
LEMMA Moved ==
  ASSUME TypeOK, NEW p \in Instances, NEW step, Continue(p, step)
  PROVE  /\ at'[p] = step /\ stage'[p] = stage[p]
         /\ hosts'[p] = hosts[p] /\ result'[p] = result[p]
  BY DEF TypeOK, Continue, Goto

\* What a step takes in hand is that file's content; the rest of the hand stays.
LEMMA Kept ==
  ASSUME TypeOK, NEW p \in Instances, NEW f \in Files, NEW content, Hold(p, f, content)
  PROVE  /\ held'[p][f] = content
         /\ \A g \in Files \ {f} : held'[p][g] = held[p][g]
  BY DEF TypeOK, Hold

\* An error ends the run from the setup or the uninstall, and leads from serving to the uninstall.
LEMMA Failed ==
  ASSUME TypeOK, NEW p \in Instances, Fail(p)
  PROVE  \/ /\ at'[p] = Off /\ stage'[p] = "setup" /\ stage[p] # "serve"
            /\ result'[p] \in {"setupError", "uninstallError"}
         \/ /\ at'[p] = <<"untrust", "anchor">> /\ stage'[p] = "cleanup"
            /\ stage[p] = "serve"
  BY DEF TypeOK, Fail, Exit, BeginUninstall, Goto

\* A run that ends, or goes on to its uninstall, keeps the order.
LEMMA EndsOrdered ==
  ASSUME TypeOK, NEW p \in Instances, Ordered(p), DueGrows, UNCHANGED <<disk, trust>>,
         \/ at'[p] = Off /\ stage'[p] = "setup"
         \/ at'[p] = <<"untrust", "anchor">> /\ stage'[p] = "cleanup" /\ stage[p] = "serve"
  PROVE  Ordered(p)'
<1>1. \A k \in Keys : Current(k)' => Current(k)
  BY CurrentShrinks
<1>2. at'[p] \in {Off, <<"untrust", "anchor">>}
  OBVIOUS
<1>3. at'[p] \notin RenewSteps \cup AnchorSteps \cup ChooseSteps \cup WriteSteps \cup RemovalSteps
      /\ at'[p] # <<"read", "caKey">>
  BY <1>2 DEF Off, RenewSteps, AnchorSteps, ChooseSteps, WriteSteps, RemovalSteps
<1>4. Phased(p)'
  BY DEF Phased
<1>5. CurrentOnDisk'
  BY <1>1 DEF Ordered, CurrentOnDisk
<1>6. Withdrawn(p)' /\ HoldsCa(p)' /\ CaReady(p)' /\ Copied(p)'
  BY <1>3 DEF Withdrawn, HoldsCa, CaReady, Copied, RenewSteps, AnchorSteps
<1>7. Anchored(p)'
  BY <1>1, <1>3 DEF Ordered, Anchored, Off
<1> QED
  BY <1>4, <1>5, <1>6, <1>7 DEF Ordered

\* A step that leaves files and trust store alone: what remains to be shown is what the
\* place it leads to says of the files and of what the process holds.
LEMMA GoesOnOrdered ==
  ASSUME TypeOK, NEW p \in Instances, Ordered(p), DueGrows, UNCHANGED <<disk, trust>>,
         stage'[p] = stage[p], at'[p] # <<"untrust", "anchor">>,
         Phased(p)', Withdrawn(p)', HoldsCa(p)', CaReady(p)', Copied(p)'
  PROVE  Ordered(p)'
<1>1. \A k \in Keys : Current(k)' => Current(k)
  BY CurrentShrinks
<1>2. CurrentOnDisk'
  BY <1>1 DEF Ordered, CurrentOnDisk
<1>3. Anchored(p)'
  BY <1>1 DEF Ordered, Anchored
<1> QED
  BY <1>2, <1>3 DEF Ordered

-----------------------------------------------------------------------------
(* The order: one lemma per action *)

\* A run starts in its setup, with reading the CA.
LEMMA StartOrdered ==
  ASSUME TypeOK, NEW p \in Instances, Ordered(p), Start(p) PROVE Ordered(p)'
<1>1. /\ at'[p] = <<"read", "caCert">> /\ stage'[p] = stage[p]
      /\ stage[p] = "setup" /\ UNCHANGED <<held, disk, trust, certs>>
  BY DEF Start, Goto, TypeOK, Ordered, Phased, Off, EnsureSteps, RenewSteps, AnchorSteps,
     IssueSteps, ChooseSteps, WriteSteps, RemovalSteps, Serving
<1>2. /\ Phased(p)' /\ Withdrawn(p)' /\ HoldsCa(p)' /\ CaReady(p)' /\ Copied(p)'
  BY <1>1 DEF Phased, Withdrawn, HoldsCa, CaReady, Copied, EnsureSteps, RenewSteps,
     AnchorSteps, ChooseSteps, WriteSteps, RemovalSteps
<1> QED
  BY <1>1, <1>2, GoesOnOrdered, SameDueGrows

\* A missing CA certificate means that no CA is current: one may be generated.
LEMMA ReadCaCertOrdered ==
  ASSUME TypeOK, NEW p \in Instances, Ordered(p), ReadCaCert(p) PROVE Ordered(p)'
<1>1. UNCHANGED <<disk, trust, certs>> /\ at[p] = <<"read", "caCert">>
  BY DEF ReadCaCert
<1>2. CASE Fail(p)
  BY <1>1, <1>2, Failed, EndsOrdered, SameDueGrows
<1>3. CASE /\ Hold(p, "caCert", disk["caCert"])
           /\ Continue(p, IF disk["caCert"] = Absent THEN <<"generate", "caCert">>
                                                     ELSE <<"read", "caKey">>)
  <2>1. /\ at'[p] = IF disk["caCert"] = Absent THEN <<"generate", "caCert">>
                                               ELSE <<"read", "caKey">>
        /\ stage'[p] = stage[p] /\ held'[p]["caCert"] = disk["caCert"]
    BY <1>3, Moved, Kept DEF Files, CaFiles
  <2>2. stage[p] \in {"setup", "serve"}
    BY <1>1 DEF Ordered, Phased, Off, AnchorSteps, IssueSteps, ChooseSteps, WriteSteps,
       RemovalSteps, Serving
  <2>3. disk["caCert"] = Absent => NoneCurrent /\ NoneCurrent'
    BY <1>1, KeysAssumption DEF Ordered, CurrentOnDisk, NoneCurrent, Current
  <2>4. /\ Phased(p)' /\ Withdrawn(p)' /\ HoldsCa(p)' /\ CaReady(p)' /\ Copied(p)'
    BY <1>1, <2>1, <2>2, <2>3 DEF Ordered, Phased, Withdrawn, HoldsCa, CaReady, Copied,
       EnsureSteps, RenewSteps, AnchorSteps, ChooseSteps, WriteSteps, RemovalSteps
  <2> QED
    BY <1>1, <2>1, <2>4, GoesOnOrdered, SameDueGrows
<1> QED
  BY <1>2, <1>3 DEF ReadCaCert, Fault

\* So does a missing key, or a certificate that is due.
LEMMA ReadCaKeyOrdered ==
  ASSUME TypeOK, NEW p \in Instances, Ordered(p), ReadCaKey(p) PROVE Ordered(p)'
<1>1. UNCHANGED <<disk, trust, certs>> /\ at[p] = <<"read", "caKey">>
  BY DEF ReadCaKey
<1>2. CASE Fail(p)
  BY <1>1, <1>2, Failed, EndsOrdered, SameDueGrows
<1>3. held[p]["caCert"] = disk["caCert"] /\ stage[p] \in {"setup", "serve"}
  BY <1>1 DEF Ordered, Phased, HoldsCa, Off, AnchorSteps, IssueSteps, ChooseSteps,
     WriteSteps, RemovalSteps, Serving
<1>4. ASSUME Hold(p, "caKey", disk["caKey"]), Continue(p, <<"generate", "caCert">>),
             NoneCurrent
      PROVE  Ordered(p)'
  <2>1. at'[p] = <<"generate", "caCert">> /\ stage'[p] = stage[p]
    BY <1>4, Moved
  <2>2. NoneCurrent'
    BY <1>1, <1>4 DEF NoneCurrent, Current
  <2>3. /\ Phased(p)' /\ Withdrawn(p)' /\ HoldsCa(p)' /\ CaReady(p)' /\ Copied(p)'
    BY <1>1, <1>3, <2>1, <2>2 DEF Ordered, Phased, Withdrawn, HoldsCa, CaReady, Copied,
       EnsureSteps, RenewSteps, AnchorSteps, ChooseSteps, WriteSteps, RemovalSteps
  <2> QED
    BY <1>1, <2>1, <2>3, GoesOnOrdered, SameDueGrows
<1>5. disk["caKey"] = Absent => NoneCurrent
  BY DEF Ordered, CurrentOnDisk, NoneCurrent
<1>6. certs[held[p]["caCert"]].due => NoneCurrent
  BY <1>3 DEF Ordered, CurrentOnDisk, NoneCurrent, Current
<1>7. ASSUME {held[p]["caCert"], disk["caKey"]} \subseteq Keys,
             Hold(p, "caKey", disk["caKey"]), Continue(p, AfterEnsure(p))
      PROVE  Ordered(p)'
  <2>1. /\ at'[p] = IF stage[p] = "setup" THEN <<"copy", "anchor">> ELSE <<"read", "leafCert">>
        /\ stage'[p] = stage[p] /\ held'[p]["caCert"] = held[p]["caCert"]
    BY <1>7, Moved, Kept DEF Files, CaFiles, AfterEnsure
  <2>2. disk["caCert"] # Absent /\ disk["caKey"] # Absent
    BY <1>3, <1>7, KeysAssumption
  <2>3. /\ Phased(p)' /\ Withdrawn(p)' /\ HoldsCa(p)' /\ CaReady(p)' /\ Copied(p)'
    BY <1>1, <1>3, <2>1, <2>2 DEF Phased, Withdrawn, HoldsCa, CaReady, Copied,
       EnsureSteps, RenewSteps, AnchorSteps, IssueSteps, ChooseSteps, WriteSteps, RemovalSteps
  <2> QED
    BY <1>1, <2>1, <2>3, GoesOnOrdered, SameDueGrows
<1> QED
  BY <1>2, <1>4, <1>5, <1>6, <1>7 DEF ReadCaKey, Fault

\* A certificate that is made leaves every certificate alone that anybody refers to.
LEMMA CertifyGrows ==
  ASSUME TypeOK, NEW s, NEW r, Unused # {}, Certify(s, r)
  PROVE  DueGrows /\ FreshKey \in Unused /\ certs'[FreshKey].signer = s
<1>1. FreshKey \in Unused
  BY DEF FreshKey
<1>2. \A k \in InUse : k \in Keys /\ k \notin Unused
  BY DEF InUse, Unused, Referenced, TypeOK, Certificate
<1>3. FreshKey \in Keys
  BY <1>1 DEF Unused
<1>4. \A k \in InUse : certs'[k] = certs[k]
  BY <1>1, <1>2 DEF Certify
<1> QED
  BY <1>1, <1>3, <1>4 DEF Certify, DueGrows

\* A generated CA is not trusted yet.
LEMMA GenerateCaOrdered ==
  ASSUME TypeOK, NEW p \in Instances, Ordered(p), GenerateCa(p) PROVE Ordered(p)'
<1>1. UNCHANGED <<disk, trust>> /\ at[p] = <<"generate", "caCert">> /\ DueGrows
  BY CertifyGrows DEF GenerateCa
<1>2. at'[p] = <<"cut", "caCert">> /\ stage'[p] = stage[p]
  BY Moved DEF GenerateCa
<1>3. stage[p] \in {"setup", "serve"} /\ NoneCurrent
  BY <1>1 DEF Ordered, Withdrawn, Phased, Off, AnchorSteps, IssueSteps, ChooseSteps,
     WriteSteps, RemovalSteps, RenewSteps, Serving
<1>4. NoneCurrent'
  BY <1>1, <1>3, CurrentShrinks DEF NoneCurrent
<1>5. /\ Phased(p)' /\ Withdrawn(p)' /\ HoldsCa(p)' /\ CaReady(p)' /\ Copied(p)'
  BY <1>1, <1>2, <1>3, <1>4 DEF Ordered, Phased, Withdrawn, HoldsCa, CaReady, Copied,
     EnsureSteps, RenewSteps, AnchorSteps, ChooseSteps, WriteSteps, RemovalSteps
<1> QED
  BY <1>1, <1>2, <1>5, GoesOnOrdered

\* Where a process that writes a file is, and in what state.
LEMMA WritePlaces ==
  ASSUME NEW p \in Instances, Phased(p), NEW f \in Files, at[p] \in {<<"cut", f>>, <<"fill", f>>}
  PROVE  /\ f \in CaFiles => stage[p] \in {"setup", "serve"}
         /\ f = "anchor" => stage[p] = "setup"
         /\ f \in LeafFiles => stage[p] = "serve"
  BY DEF Phased, Off, EnsureSteps, RenewSteps, AnchorSteps, IssueSteps, ChooseSteps,
     WriteSteps, RemovalSteps, Serving, Files, CaFiles, LeafFiles

\* A file that is no longer or not yet read, and is neither of the CA nor the anchor in
\* use, may be written.
LEMMA WriteOrdered ==
  ASSUME TypeOK, NEW p \in Instances, Ordered(p), UNCHANGED <<trust, certs>>,
         stage'[p] = stage[p], at'[p] # <<"untrust", "anchor">>,
         Phased(p)', Withdrawn(p)', HoldsCa(p)', CaReady(p)', Copied(p)',
         NoneCurrent \/ UNCHANGED <<disk["caCert"], disk["caKey"]>>,
         stage[p] = "serve" => disk'["anchor"] = disk["anchor"]
  PROVE  Ordered(p)'
<1>1. \A k \in Keys : Current(k)' <=> Current(k)
  BY DEF Current
<1>2. CurrentOnDisk'
  BY <1>1 DEF Ordered, CurrentOnDisk, NoneCurrent
<1>3. Anchored(p)'
  BY <1>1 DEF Ordered, Anchored
<1> QED
  BY <1>2, <1>3 DEF Ordered

\* The files of the CA are only truncated when no CA is current, the anchor only in the setup.
LEMMA TruncateFileOrdered ==
  ASSUME TypeOK, NEW p \in Instances, Ordered(p), NEW f \in Files, TruncateFile(p, f)
  PROVE  Ordered(p)'
<1>1. UNCHANGED <<trust, certs>> /\ at[p] = <<"cut", f>> /\ Phased(p)
  BY DEF TruncateFile, Ordered
<1>2. CASE Fail(p) /\ UNCHANGED disk
  BY <1>1, <1>2, Failed, EndsOrdered, SameDueGrows
<1>3. CASE disk' = [disk EXCEPT ![f] = Torn] /\ Continue(p, <<"fill", f>>) /\ UNCHANGED held
  <2>1. at'[p] = <<"fill", f>> /\ stage'[p] = stage[p] /\ UNCHANGED held
    BY <1>3, Moved
  <2>2. disk'[f] = Torn /\ (\A g \in Files \ {f} : disk'[g] = disk[g])
    BY <1>3 DEF TypeOK
  <2>3. f \in CaFiles => NoneCurrent
    BY <1>1 DEF Ordered, Withdrawn, RenewSteps, CaFiles
  <2>4. NoneCurrent => NoneCurrent'
    BY <1>1 DEF NoneCurrent, Current
  <2>5. Phased(p)' /\ Withdrawn(p)'
    BY <1>1, <2>1, <2>3, <2>4, WritePlaces DEF Phased, Withdrawn, Files, CaFiles, LeafFiles,
       EnsureSteps, RenewSteps, AnchorSteps, IssueSteps, WriteSteps, RemovalSteps
  <2>6. HoldsCa(p)'
    BY <1>1, <2>1, <2>2 DEF Ordered, HoldsCa, Files, CaFiles, LeafFiles, ChooseSteps, WriteSteps
  <2>7. CaReady(p)' /\ Copied(p)'
    BY <1>1, <2>1, <2>2, KeysAssumption DEF Ordered, CaReady, Copied, Files, CaFiles, LeafFiles,
       AnchorSteps
  <2>8. /\ NoneCurrent \/ UNCHANGED <<disk["caCert"], disk["caKey"]>>
        /\ stage[p] = "serve" => disk'["anchor"] = disk["anchor"]
    BY <1>1, <2>2, <2>3, WritePlaces DEF Files, CaFiles, LeafFiles
  <2> QED
    BY <1>1, <2>1, <2>5, <2>6, <2>7, <2>8, WriteOrdered
<1> QED
  BY <1>2, <1>3 DEF TruncateFile, Fault

\* Nor are they written at another time; what is written is what is held.
LEMMA FillFileOrdered ==
  ASSUME IInv, NEW p \in Instances, Ordered(p), NEW f \in Files, FillFile(p, f)
  PROVE  Ordered(p)'
<1>1. UNCHANGED <<trust, certs>> /\ at[p] = <<"fill", f>> /\ Phased(p) /\ TypeOK
  BY DEF FillFile, Ordered, IInv
<1>2. CASE Fail(p) /\ UNCHANGED disk
  BY <1>1, <1>2, Failed, EndsOrdered, SameDueGrows
<1>3. CASE disk' = [disk EXCEPT ![f] = held[p][f]] /\ Continue(p, AfterWrite(p, f)) /\ UNCHANGED held
  <2>1. at'[p] = AfterWrite(p, f) /\ stage'[p] = stage[p] /\ UNCHANGED held
    BY <1>1, <1>3, Moved
  <2>2. disk'[f] = held[p][f] /\ (\A g \in Files \ {f} : disk'[g] = disk[g])
    BY <1>1, <1>3 DEF TypeOK
  <2>3. f \in CaFiles => NoneCurrent /\ held[p]["caCert"] \in Keys /\ held[p]["caKey"] \in Keys
    BY <1>1 DEF Ordered, Withdrawn, RenewSteps, CaFiles, IInv, Local, CaChosen, CaSteps
  <2>4. NoneCurrent => NoneCurrent'
    BY <1>1 DEF NoneCurrent, Current
  <2>5. /\ f \in CaFiles => disk'["caCert"] # Absent /\ disk'["caKey"] = disk'["caKey"]
        /\ f = "caKey" => disk'["caKey"] # Absent
        /\ f \notin CaFiles => UNCHANGED <<disk["caCert"], disk["caKey"]>>
    BY <1>1, <2>2, <2>3, KeysAssumption DEF Ordered, HoldsCa, Files, CaFiles, LeafFiles
  <2>6. CASE f = "caCert"
    <3>1. at'[p] = <<"cut", "caKey">>
      BY <2>1, <2>6 DEF AfterWrite
    <3>2. Phased(p)' /\ Withdrawn(p)' /\ HoldsCa(p)' /\ CaReady(p)' /\ Copied(p)'
      BY <1>1, <2>1, <2>2, <2>3, <2>4, <2>5, <2>6, <3>1, WritePlaces
      DEF Ordered, Phased, Withdrawn, HoldsCa, CaReady, Copied, EnsureSteps, RenewSteps,
          AnchorSteps, ChooseSteps, WriteSteps, RemovalSteps, Files, CaFiles
    <3> QED
      BY <1>1, <2>1, <2>2, <2>3, <2>6, <3>1, <3>2, WriteOrdered DEF Files, CaFiles
  <2>7. CASE f = "caKey"
    <3>1. at'[p] = IF stage[p] = "setup" THEN <<"copy", "anchor">> ELSE <<"read", "leafCert">>
      BY <2>1, <2>7 DEF AfterWrite, AfterEnsure
    <3>2. held[p]["caCert"] = disk["caCert"] /\ stage[p] \in {"setup", "serve"}
      BY <1>1, <2>7, WritePlaces DEF Ordered, HoldsCa, CaFiles
    <3>3. Phased(p)' /\ Withdrawn(p)' /\ HoldsCa(p)' /\ CaReady(p)' /\ Copied(p)'
      BY <1>1, <2>1, <2>2, <2>3, <2>5, <2>7, <3>1, <3>2, KeysAssumption
      DEF Phased, Withdrawn, HoldsCa, CaReady, Copied, EnsureSteps, RenewSteps,
          AnchorSteps, IssueSteps, ChooseSteps, WriteSteps, RemovalSteps, Files, CaFiles
    <3> QED
      BY <1>1, <2>1, <2>2, <2>3, <2>7, <3>1, <3>3, WriteOrdered DEF Files, CaFiles
  <2>8. CASE f = "anchor"
    <3>1. at'[p] = <<"trust", "anchor">> /\ stage[p] = "setup"
      BY <1>1, <2>1, <2>8, WritePlaces DEF AfterWrite
    <3>2. Phased(p)' /\ Withdrawn(p)' /\ HoldsCa(p)' /\ CaReady(p)' /\ Copied(p)'
      BY <1>1, <2>1, <2>2, <2>5, <2>8, <3>1
      DEF Ordered, Phased, Withdrawn, HoldsCa, CaReady, Copied, EnsureSteps, RenewSteps,
          AnchorSteps, ChooseSteps, WriteSteps, RemovalSteps, Files, CaFiles, LeafFiles
    <3> QED
      BY <1>1, <2>1, <2>5, <2>8, <3>1, <3>2, WriteOrdered DEF CaFiles
  <2>9. CASE f \in LeafFiles
    <3>1. at'[p] \in {<<"cut", "leafKey">>, <<"pair", "leafKey">>} /\ stage[p] = "serve"
      BY <1>1, <2>1, <2>9, WritePlaces DEF AfterWrite, LeafFiles
    <3>2. Phased(p)' /\ Withdrawn(p)' /\ HoldsCa(p)' /\ CaReady(p)' /\ Copied(p)'
      BY <1>1, <2>1, <2>2, <2>5, <2>9, <3>1
      DEF Ordered, Phased, Withdrawn, HoldsCa, CaReady, Copied, EnsureSteps, RenewSteps,
          AnchorSteps, IssueSteps, ChooseSteps, WriteSteps, RemovalSteps, Files, CaFiles, LeafFiles
    <3> QED
      BY <1>1, <2>1, <2>2, <2>5, <2>9, <3>1, <3>2, WriteOrdered DEF Files, CaFiles, LeafFiles
  <2> QED
    BY <2>6, <2>7, <2>8, <2>9 DEF Files, CaFiles
<1> QED
  BY <1>2, <1>3 DEF FillFile, Fault

\* The copy that is taken in hand is the CA certificate on the disk.
LEMMA CopyCertificateOrdered ==
  ASSUME TypeOK, NEW p \in Instances, Ordered(p), CopyCertificate(p) PROVE Ordered(p)'
<1>1. UNCHANGED <<disk, trust, certs>> /\ at[p] = <<"copy", "anchor">>
  BY DEF CopyCertificate
<1>2. CASE Fail(p)
  BY <1>1, <1>2, Failed, EndsOrdered, SameDueGrows
<1>3. CASE Hold(p, "anchor", disk["caCert"]) /\ Continue(p, <<"cut", "anchor">>)
  <2>1. /\ at'[p] = <<"cut", "anchor">> /\ stage'[p] = stage[p]
        /\ held'[p]["anchor"] = disk["caCert"]
    BY <1>3, Moved, Kept DEF Files
  <2>2. /\ Phased(p)' /\ Withdrawn(p)' /\ HoldsCa(p)' /\ CaReady(p)' /\ Copied(p)'
    BY <1>1, <2>1 DEF Ordered, Phased, Withdrawn, HoldsCa, CaReady, Copied, Off,
       EnsureSteps, RenewSteps, AnchorSteps, IssueSteps, ChooseSteps, WriteSteps, RemovalSteps, Serving
  <2> QED
    BY <1>1, <2>1, <2>2, GoesOnOrdered, SameDueGrows
<1> QED
  BY <1>2, <1>3 DEF CopyCertificate, Fault

\* The CA that becomes trusted is the one on the disk.
LEMMA TrustAnchorOrdered ==
  ASSUME TypeOK, NEW p \in Instances, Ordered(p), TrustAnchor(p) PROVE Ordered(p)'
<1>1. UNCHANGED <<disk, certs>> /\ at[p] = <<"trust", "anchor">>
  BY DEF TrustAnchor
<1>2. CASE Fail(p) /\ UNCHANGED trust
  BY <1>1, <1>2, Failed, EndsOrdered, SameDueGrows
<1>3. CASE /\ disk["anchor"] \in Keys /\ trust' = trust \cup {disk["anchor"]}
           /\ Continue(p, <<"import", "firefox">>)
  <2>1. at'[p] = <<"import", "firefox">> /\ stage'[p] = stage[p]
    BY <1>3, Moved
  <2>2. stage[p] = "setup" /\ disk["anchor"] = disk["caCert"] /\ disk["caKey"] # Absent
    BY <1>1 DEF Ordered, Phased, Copied, CaReady, Off, EnsureSteps, RenewSteps, AnchorSteps,
       IssueSteps, ChooseSteps, WriteSteps, RemovalSteps, Serving
  <2>3. /\ Phased(p)' /\ Withdrawn(p)' /\ HoldsCa(p)' /\ CaReady(p)' /\ Copied(p)'
    BY <1>1, <1>3, <2>1, <2>2 DEF Ordered, Phased, Withdrawn, HoldsCa, CaReady, Copied,
       EnsureSteps, RenewSteps, AnchorSteps, ChooseSteps, WriteSteps, RemovalSteps
  <2>4. CurrentOnDisk'
    BY <1>1, <1>3, <2>2 DEF Ordered, CurrentOnDisk, Current
  <2>5. Anchored(p)'
    BY <2>1, <2>2 DEF Anchored
  <2> QED
    BY <2>3, <2>4, <2>5 DEF Ordered
<1> QED
  BY <1>2, <1>3 DEF TrustAnchor, Fault

\* The setup ends with the anchored CA trusted and its files there.
LEMMA IntegrateFirefoxOrdered ==
  ASSUME TypeOK, NEW p \in Instances, Ordered(p), IntegrateFirefox(p) PROVE Ordered(p)'
<1>1. UNCHANGED <<disk, trust, certs>> /\ at[p] = <<"import", "firefox">>
  BY DEF IntegrateFirefox
<1>2. CASE Fail(p)
  BY <1>1, <1>2, Failed, EndsOrdered, SameDueGrows
<1>3. CASE Goto(p, <<"read", "caCert">>) /\ stage' = [stage EXCEPT ![p] = "serve"]
  <2>1. at'[p] = <<"read", "caCert">> /\ stage'[p] = "serve"
    BY <1>3 DEF TypeOK, Goto
  <2>2. /\ disk["anchor"] = disk["caCert"] /\ disk["anchor"] \in trust
        /\ disk["caCert"] # Absent /\ disk["caKey"] # Absent
    BY <1>1 DEF Ordered, Copied, CaReady, AnchorSteps
  <2>3. /\ Phased(p)' /\ Withdrawn(p)' /\ HoldsCa(p)' /\ CaReady(p)' /\ Copied(p)'
    BY <1>1, <2>1, <2>2 DEF Phased, Withdrawn, HoldsCa, CaReady, Copied,
       EnsureSteps, RenewSteps, AnchorSteps, ChooseSteps, WriteSteps, RemovalSteps
  <2>4. CurrentOnDisk' /\ Anchored(p)'
    BY <1>1, <2>1, <2>2 DEF Ordered, CurrentOnDisk, Anchored, Current
  <2> QED
    BY <2>3, <2>4 DEF Ordered
<1> QED
  BY <1>2, <1>3 DEF IntegrateFirefox, Fault

\* From here to serving the files of the CA and the anchor are only read.
LEMMA IssueOrdered ==
  ASSUME TypeOK, NEW p \in Instances, Ordered(p), DueGrows, UNCHANGED <<disk, trust>>,
         at[p] \in IssueSteps, at'[p] \in IssueSteps, stage'[p] = stage[p],
         at'[p] \in ChooseSteps \cup WriteSteps =>
             at[p] \in ChooseSteps \cup WriteSteps /\ held'[p]["caCert"] = held[p]["caCert"]
  PROVE  Ordered(p)'
<1>1. stage[p] = "serve"
  BY DEF Ordered, Phased, Off, EnsureSteps, RenewSteps, AnchorSteps, IssueSteps, ChooseSteps,
     WriteSteps, RemovalSteps, Serving
<1>2. at'[p] \notin EnsureSteps \cup AnchorSteps \cup RemovalSteps \cup {<<"untrust", "anchor">>}
  BY DEF EnsureSteps, RenewSteps, AnchorSteps, IssueSteps, ChooseSteps, WriteSteps,
     RemovalSteps, Serving
<1>3. /\ Phased(p)' /\ Withdrawn(p)' /\ HoldsCa(p)' /\ CaReady(p)' /\ Copied(p)'
  BY <1>1, <1>2 DEF Ordered, Phased, Withdrawn, HoldsCa, CaReady, Copied, EnsureSteps, RenewSteps,
     AnchorSteps
<1> QED
  BY <1>2, <1>3, GoesOnOrdered

\* Reading a leaf touches neither CA nor anchor.
LEMMA ReadLeafOrdered ==
  ASSUME TypeOK, NEW p \in Instances, Ordered(p), ReadLeafCert(p) \/ ReadLeafKey(p)
  PROVE  Ordered(p)'
<1>1. /\ UNCHANGED <<disk, trust, certs>>
      /\ at[p] \in {<<"read", "leafCert">>, <<"read", "leafKey">>}
  BY DEF ReadLeafCert, ReadLeafKey
<1>2. CASE Fail(p)
  BY <1>1, <1>2, Failed, EndsOrdered, SameDueGrows
<1>3. ASSUME NEW f \in LeafFiles, Hold(p, f, disk[f]),
             NEW step \in {<<"generate", "leafCert">>, <<"read", "leafKey">>, <<"pair", "leafKey">>},
             Continue(p, step)
      PROVE  Ordered(p)'
  <2>1. at'[p] = step /\ stage'[p] = stage[p] /\ held'[p]["caCert"] = held[p]["caCert"]
    BY <1>3, Moved, Kept DEF Files, CaFiles, LeafFiles
  <2> QED
    BY <1>1, <2>1, IssueOrdered, SameDueGrows DEF IssueSteps, ChooseSteps
<1> QED
  BY <1>2, <1>3 DEF ReadLeafCert, ReadLeafKey, Fault, LeafFiles

\* Nor does generating one.
LEMMA GenerateLeafOrdered ==
  ASSUME IInv, NEW p \in Instances, Ordered(p), GenerateLeaf(p) PROVE Ordered(p)'
<1>1. UNCHANGED <<disk, trust>> /\ at[p] = <<"generate", "leafCert">> /\ TypeOK
  BY DEF GenerateLeaf, IInv
<1>2. CASE Fail(p) /\ UNCHANGED certs
  BY <1>1, <1>2, Failed, EndsOrdered, SameDueGrows
<1>3. CASE /\ Unused # {} /\ Certify(held[p]["caCert"], hosts[p])
           /\ held' = [held EXCEPT ![p]["leafCert"] = FreshKey, ![p]["leafKey"] = FreshKey]
           /\ Continue(p, <<"cut", "leafCert">>)
  <2>1. DueGrows
    BY <1>1, <1>3, CertifyGrows
  <2>2. at'[p] = <<"cut", "leafCert">> /\ stage'[p] = stage[p]
    BY <1>1, <1>3, Moved
  <2>3. held'[p]["caCert"] = held[p]["caCert"]
    BY <1>1, <1>3 DEF TypeOK, Files, CaFiles
  <2> QED
    BY <1>1, <2>1, <2>2, <2>3, IssueOrdered DEF IssueSteps, ChooseSteps, WriteSteps
<1> QED
  BY <1>2, <1>3 DEF GenerateLeaf

\* Nor do pairing and binding.
LEMMA ServeOrdered ==
  ASSUME TypeOK, NEW p \in Instances, Ordered(p), ServeStep(p) PROVE Ordered(p)'
<1>1. UNCHANGED <<disk, trust, certs>> /\ at[p] \in {<<"pair", "leafKey">>, <<"bind", "leafCert">>}
  BY DEF ServeStep, PairKeys, Bind
<1>2. CASE Fail(p)
  BY <1>1, <1>2, Failed, EndsOrdered, SameDueGrows
<1>3. ASSUME NEW step \in {<<"bind", "leafCert">>, Serving}, Continue(p, step)
      PROVE  Ordered(p)'
  <2>1. at'[p] = step /\ stage'[p] = stage[p]
    BY <1>3, Moved
  <2> QED
    BY <1>1, <2>1, IssueOrdered, SameDueGrows DEF IssueSteps, ChooseSteps, WriteSteps, Serving
<1> QED
  BY <1>2, <1>3 DEF ServeStep, PairKeys, Bind, Fault

\* While it serves, a process is in the stage that leads to the uninstall.
LEMMA ServingStage ==
  ASSUME NEW p \in Instances, Phased(p), at[p] = Serving
  PROVE  stage[p] = "serve"
  BY DEF Phased, Off, EnsureSteps, RenewSteps, AnchorSteps, IssueSteps, ChooseSteps,
     WriteSteps, RemovalSteps, Serving

\* Whatever ends the serving leads to the uninstall.
LEMMA StopOrdered ==
  ASSUME TypeOK, NEW p \in Instances, Ordered(p), StopOnSignal(p) \/ StopOnError(p)
  PROVE  Ordered(p)'
<1>1. UNCHANGED <<disk, trust, certs>> /\ stage[p] = "serve"
  BY ServingStage DEF StopOnSignal, StopOnError, Ordered
<1>2. CASE Fail(p)
  BY <1>1, <1>2, Failed, EndsOrdered, SameDueGrows
<1>3. CASE BeginUninstall(p, FALSE)
  <2>1. at'[p] = <<"untrust", "anchor">> /\ stage'[p] = "cleanup"
    BY <1>3 DEF BeginUninstall, Goto, TypeOK
  <2> QED
    BY <1>1, <2>1, EndsOrdered, SameDueGrows
<1> QED
  BY <1>2, <1>3 DEF StopOnSignal, StopOnError, Fault

\* A kill leaves files and trust store as they are.
LEMMA CrashOrdered ==
  ASSUME TypeOK, NEW p \in Instances, Ordered(p), Crash(p) PROVE Ordered(p)'
<1>1. at'[p] = Off /\ stage'[p] = "setup" /\ UNCHANGED <<disk, trust, certs>>
  BY DEF Crash, Exit, Goto, TypeOK
<1> QED
  BY <1>1, EndsOrdered, SameDueGrows

\* A process in its uninstall, or at the end of it, with no CA left to withdraw.
LEMMA RemovesOrdered ==
  ASSUME TypeOK, NEW p \in Instances, NoneCurrent, trust' \subseteq trust, certs' = certs,
         \/ at'[p] \in RemovalSteps /\ stage'[p] = "cleanup"
         \/ at'[p] = Off /\ stage'[p] = "setup"
  PROVE  Ordered(p)' /\ NoneCurrent'
<1>1. NoneCurrent'
  BY CurrentShrinks, SameDueGrows DEF NoneCurrent
<1>2. at'[p] \notin EnsureSteps \cup AnchorSteps \cup ChooseSteps \cup WriteSteps
                      \cup {<<"untrust", "anchor">>}
  BY DEF EnsureSteps, RenewSteps, AnchorSteps, ChooseSteps, WriteSteps, RemovalSteps, Off
<1> QED
  BY <1>1, <1>2 DEF Ordered, Phased, CurrentOnDisk, Withdrawn, HoldsCa, CaReady, Copied, Anchored,
     NoneCurrent, EnsureSteps, RenewSteps, AnchorSteps

\* The anchor names the only current CA: once it is withdrawn none is.
LEMMA UntrustOrdered ==
  ASSUME TypeOK, NEW p \in Instances, Ordered(p), Untrust(p) PROVE Ordered(p)'
<1>1. UNCHANGED <<disk, certs>> /\ at[p] = <<"untrust", "anchor">>
  BY DEF Untrust
<1>2. stage[p] = "cleanup"
  BY <1>1 DEF Ordered, Phased, Off, EnsureSteps, RenewSteps, AnchorSteps, IssueSteps, ChooseSteps,
     WriteSteps, RemovalSteps, Serving
<1>3. CASE Fail(p) /\ UNCHANGED trust
  BY <1>1, <1>3, Failed, EndsOrdered, SameDueGrows
<1>4. CASE trust' = trust \ {disk["anchor"]} /\ Continue(p, <<"remove", "anchor">>)
  <2>1. at'[p] = <<"remove", "anchor">> /\ stage'[p] = "cleanup"
    BY <1>2, <1>4, Moved
  <2>2. NoneCurrent'
    BY <1>1, <1>4 DEF Ordered, Anchored, NoneCurrent, Current
  <2> QED
    BY <2>1, <2>2 DEF Ordered, Phased, CurrentOnDisk, Withdrawn, HoldsCa, CaReady, Copied, Anchored,
       NoneCurrent, EnsureSteps, RenewSteps, AnchorSteps, ChooseSteps, WriteSteps, RemovalSteps
<1> QED
  BY <1>3, <1>4 DEF Untrust, Fault

\* The removals begin with no CA current, and keep it so.
LEMMA RemovalOrdered ==
  ASSUME TypeOK, NEW p \in Instances, Ordered(p),
         RemoveAnchor(p) \/ RemoveFromFirefox(p) \/ \E f \in Files : RemoveCredential(p, f)
  PROVE  Ordered(p)' /\ NoneCurrent'
<1>1. trust' = trust /\ certs' = certs /\ at[p] \in RemovalSteps
  BY DEF RemoveAnchor, RemoveFromFirefox, RemoveCredential, RemovalSteps, Files, CaFiles, LeafFiles
<1>2. stage[p] = "cleanup" /\ NoneCurrent
  BY <1>1 DEF Ordered, Phased, Withdrawn, Off, EnsureSteps, RenewSteps, AnchorSteps, IssueSteps,
     ChooseSteps, WriteSteps, RemovalSteps, Serving
<1>3. \/ at'[p] \in RemovalSteps /\ stage'[p] = "cleanup"
      \/ at'[p] = Off /\ stage'[p] = "setup"
  <2>1. ASSUME NEW step \in RemovalSteps, Continue(p, step)
        PROVE  at'[p] \in RemovalSteps /\ stage'[p] = "cleanup"
    BY <1>2, <2>1, Moved
  <2>2. ASSUME NEW how, Exit(p, how) PROVE at'[p] = Off /\ stage'[p] = "setup"
    BY <2>2 DEF Exit, Goto, TypeOK
  <2>3. CASE Fail(p)
    BY <1>2, <2>2, <2>3, Failed
  <2>4. CASE RemoveAnchor(p) \/ RemoveFromFirefox(p)
    BY <2>1, <2>3, <2>4 DEF RemoveAnchor, RemoveFromFirefox, Fault, RemovalSteps
  <2>5. ASSUME NEW f \in Files, RemoveCredential(p, f)
        PROVE  \/ at'[p] \in RemovalSteps /\ stage'[p] = "cleanup"
               \/ at'[p] = Off /\ stage'[p] = "setup"
    <3>1. CASE f = "leafKey"
      BY <2>2, <2>5, <3>1 DEF RemoveCredential
    <3>2. CASE f # "leafKey"
      <4>1. AfterRemoval(f) \in RemovalSteps
        BY <2>5, <3>2 DEF RemoveCredential, AfterRemoval, RemovalSteps, Files, CaFiles, LeafFiles
      <4> QED
        BY <2>1, <2>5, <3>2, <4>1 DEF RemoveCredential
    <3> QED
      BY <3>1, <3>2
  <2> QED
    BY <2>4, <2>5
<1> QED
  BY <1>1, <1>2, <1>3, RemovesOrdered

\* A CA that comes due is not current any more.
LEMMA ComeDueOrdered ==
  ASSUME TypeOK, NEW p \in Instances, Ordered(p), NEW k \in Keys, ComeDue(k) PROVE Ordered(p)'
<1>1. UNCHANGED <<at, stage, held, disk, trust>>
  BY DEF ComeDue, procVars
<1>2. \A j \in Keys : Current(j)' => Current(j)
  BY DEF ComeDue, Current, TypeOK, Certificate
<1> QED
  BY <1>1, <1>2 DEF Ordered, Phased, CurrentOnDisk, Withdrawn, HoldsCa, CaReady, Copied, Anchored,
     NoneCurrent

\* Every step of the one instance, or of time, keeps the order.
LEMMA NextOrdered ==
  ASSUME IInv, NEW p, Alone(p), Ordered(p), [Next]_vars PROVE Ordered(p)'
<1> USE DEF Alone
<1>1. TypeOK /\ p \in Instances
  BY DEF IInv
<1>2. CASE UNCHANGED vars
  BY <1>2 DEF vars, Ordered, Phased, CurrentOnDisk, Withdrawn, HoldsCa, CaReady, Copied, Anchored,
     NoneCurrent, Current
<1>3. CASE \E k \in Keys : ComeDue(k)
  BY <1>1, <1>3, ComeDueOrdered
<1>4. CASE EnsureStep(p)
  BY <1>1, <1>4, ReadCaCertOrdered, ReadCaKeyOrdered, GenerateCaOrdered DEF EnsureStep
<1>5. CASE WriteStep(p)
  BY <1>1, <1>5, TruncateFileOrdered, FillFileOrdered DEF WriteStep
<1>6. CASE InstallStep(p)
  BY <1>1, <1>6, CopyCertificateOrdered, TrustAnchorOrdered, IntegrateFirefoxOrdered DEF InstallStep
<1>7. CASE IssueStep(p)
  BY <1>1, <1>7, ReadLeafOrdered, GenerateLeafOrdered DEF IssueStep
<1>8. CASE ServeStep(p)
  BY <1>1, <1>8, ServeOrdered
<1>9. CASE UninstallStep(p)
  BY <1>1, <1>9, UntrustOrdered, RemovalOrdered DEF UninstallStep
<1>10. CASE Start(p) \/ StopOnSignal(p) \/ StopOnError(p) \/ Crash(p)
  BY <1>1, <1>10, StartOrdered, StopOrdered, CrashOrdered
<1> QED
  BY <1>2, <1>3, <1>4, <1>5, <1>6, <1>7, <1>8, <1>9, <1>10 DEF Next, ProgramStep

\* Before the first run nothing is trusted.
LEMMA InitOrdered == ASSUME Init, NEW p \in Instances PROVE Ordered(p)
<1>1. at[p] = Off /\ stage[p] = "setup" /\ trust = {}
  BY DEF Init
<1> QED
  BY <1>1 DEF Ordered, Phased, CurrentOnDisk, Current, Withdrawn, HoldsCa, CaReady, Copied, Anchored,
     EnsureSteps, RenewSteps, AnchorSteps, ChooseSteps, WriteSteps, RemovalSteps, Off

\* A single instance keeps the order in every state, whatever fails and wherever it is killed.
LEMMA OrderInvariance == ASSUME NEW p, Alone(p) PROVE Spec => []Ordered(p)
<1>1. Init => Ordered(p)
  BY InitOrdered DEF Alone
<1>2. IInv /\ Ordered(p) /\ [Next]_vars => Ordered(p)'
  BY NextOrdered
<1> QED
  BY <1>1, <1>2, Invariance, PTL DEF Spec

-----------------------------------------------------------------------------
(* The refinement of TlsSession *)

\* What TlsSession sees of a state.
Material == \E f \in Files : disk[f] # Absent
Accepted == trust # LapsedCas
Lapsed   == LapsedCas # {}
Offered  == \E p \in Instances : IsServing(p)

\* Its actions, in these terms.
LEMMA SessionActions ==
    LET SameMaterial == Material' <=> Material
        SameAccepted == Accepted' <=> Accepted
        SameLapsed   == Lapsed' <=> Lapsed
        SameOffered  == Offered' <=> Offered
    IN  /\ SameMaterial /\ SameAccepted /\ SameLapsed /\ SameOffered => UNCHANGED Session!session
        /\ ~Offered /\ Material' /\ SameAccepted /\ SameLapsed /\ SameOffered => Session!Provide
        /\ ~Offered /\ Material /\ Accepted' /\ SameMaterial /\ SameLapsed /\ SameOffered => Session!Trust
        /\ ~Offered /\ Material /\ Lapsed' /\ SameMaterial /\ SameAccepted /\ SameOffered => Session!Trust
        /\ Accepted /\ Lapsed' /\ SameMaterial /\ SameOffered => Session!Lapse
        /\ Material /\ (Accepted \/ Lapsed) /\ Offered' /\ SameMaterial /\ SameAccepted /\ SameLapsed
              => Session!Serve
        /\ Offered /\ ~Offered' /\ SameMaterial /\ SameAccepted /\ SameLapsed => Session!Stop
        /\ ~Offered /\ ~Accepted' /\ SameMaterial /\ SameLapsed /\ SameOffered => Session!Revoke
        /\ ~Offered /\ ~Lapsed' /\ SameMaterial /\ SameAccepted /\ SameOffered => Session!Revoke
        /\ ~Offered /\ ~Accepted /\ ~Material' /\ SameAccepted /\ SameLapsed /\ SameOffered
              => Session!Discard
  BY DEF Material, Accepted, Lapsed, Offered, Session!session, Session!Provide, Session!Trust,
     Session!Lapse, Session!Serve, Session!Stop, Session!Revoke, Session!Discard

SessionStep == Session!Next \/ UNCHANGED Session!session

\* What the trust store accepts, for a single instance.
LEMMA SessionState ==
  ASSUME TypeOK, NEW p, Alone(p)
  PROVE  /\ Accepted <=> ~NoneCurrent
         /\ Offered <=> at[p] = Serving
  BY DEF TypeOK, Accepted, LapsedCas, NoneCurrent, Current, Offered, IsServing, Alone

\* Steps that only read, decide or hold on to something.
LEMMA QuietSession ==
  ASSUME TypeOK, TypeOK', NEW p, Alone(p), UNCHANGED <<disk, trust>>,
         \A k \in trust : certs'[k] = certs[k],
         at'[p] # Serving
  PROVE  SessionStep
<1>1. (Material' <=> Material) /\ (Accepted' <=> Accepted) /\ (Lapsed' <=> Lapsed)
  BY DEF Material, Accepted, Lapsed, LapsedCas
<1>2. (Offered <=> at[p] = Serving) /\ ~Offered'
  BY SessionState DEF Offered, IsServing, Alone
<1>3. CASE Offered
  BY <1>1, <1>2, <1>3, SessionActions DEF SessionStep, Session!Next
<1>4. CASE ~Offered
  <2>1. (Offered' <=> Offered)
    BY <1>2, <1>4
  <2> QED
    BY <1>1, <2>1, SessionActions DEF SessionStep
<1> QED
  BY <1>3, <1>4

\* A process begins to serve in one way only.
LEMMA NotServingNext ==
  ASSUME TypeOK, NEW p \in Instances,
         Start(p) \/ EnsureStep(p) \/ WriteStep(p) \/ InstallStep(p) \/ IssueStep(p) \/ PairKeys(p)
           \/ UninstallStep(p) \/ StopOnSignal(p) \/ StopOnError(p) \/ Crash(p)
  PROVE  at'[p] # Serving
<1>1. ASSUME Fail(p) PROVE at'[p] # Serving
  BY <1>1, Failed DEF Off, Serving
<1>2. ASSUME NEW step, Continue(p, step), step # Serving PROVE at'[p] # Serving
  BY <1>2, Moved
<1>3. ASSUME NEW how, Exit(p, how) PROVE at'[p] # Serving
  BY <1>3 DEF Exit, Goto, TypeOK, Off, Serving
<1>4. CASE Start(p) \/ EnsureStep(p)
  BY <1>1, <1>2, <1>4 DEF Start, EnsureStep, ReadCaCert, ReadCaKey, GenerateCa, Goto, TypeOK,
     Fault, AfterEnsure, Serving
<1>5. CASE WriteStep(p)
  BY <1>1, <1>2, <1>5 DEF WriteStep, TruncateFile, FillFile, Fault, AfterWrite, AfterEnsure, Serving,
     Files, CaFiles, LeafFiles
<1>6. CASE InstallStep(p)
  BY <1>1, <1>2, <1>6 DEF InstallStep, CopyCertificate, TrustAnchor, IntegrateFirefox, Goto, TypeOK,
     Fault, Serving
<1>7. CASE IssueStep(p) \/ PairKeys(p)
  BY <1>1, <1>2, <1>7 DEF IssueStep, ReadLeafCert, ReadLeafKey, GenerateLeaf, PairKeys, Fault, Serving
<1>8. CASE UninstallStep(p)
  <2>1. CASE \E f \in Files : RemoveCredential(p, f)
    <3>1. PICK f \in Files : RemoveCredential(p, f)
      BY <2>1
    <3>2. CASE f = "leafKey"
      BY <1>3, <3>1, <3>2 DEF RemoveCredential
    <3>3. CASE f # "leafKey"
      <4>1. AfterRemoval(f) # Serving
        BY <3>1, <3>3 DEF RemoveCredential, AfterRemoval, Serving, Files, CaFiles, LeafFiles
      <4> QED
        BY <1>2, <3>1, <3>3, <4>1 DEF RemoveCredential
    <3> QED
      BY <3>2, <3>3
  <2> QED
    BY <1>1, <1>2, <1>8, <2>1 DEF UninstallStep, Untrust, RemoveAnchor, RemoveFromFirefox, Fault, Serving
<1>9. CASE StopOnSignal(p) \/ StopOnError(p) \/ Crash(p)
  BY <1>1, <1>3, <1>9 DEF StopOnSignal, StopOnError, Crash, BeginUninstall, Goto, TypeOK, Fault, Serving
<1> QED
  BY <1>4, <1>5, <1>6, <1>7, <1>8, <1>9

\* A file that is being written is not the only one, or not empty any more.
LEMMA WriteSession ==
  ASSUME IInv, TypeOK', NEW p \in Instances, Alone(p), Ordered(p), WriteStep(p) PROVE SessionStep
<1>1. PICK f \in Files : TruncateFile(p, f) \/ FillFile(p, f)
  BY DEF WriteStep
<1>2. UNCHANGED <<trust, certs>> /\ at[p] \in {<<"cut", f>>, <<"fill", f>>} /\ at'[p] # Serving /\ TypeOK
  BY <1>1, NotServingNext DEF TruncateFile, FillFile, IInv
<1>3. CASE UNCHANGED disk
  BY <1>2, <1>3, QuietSession
<1>4. CASE disk' = [disk EXCEPT ![f] = Torn]
  <2>1. Material'
    BY <1>2, <1>4, KeysAssumption DEF Material, TypeOK
  <2> QED
    BY <1>2, <2>1, SessionState, SessionActions
    DEF Accepted, Lapsed, LapsedCas, Offered, IsServing, Alone, SessionStep, Session!Next, Serving
<1>5. CASE disk' = [disk EXCEPT ![f] = held[p][f]] /\ at[p] = <<"fill", f>>
  <2>1. Material'
    <3>1. CASE f \in CaFiles
      <4>1. held[p][f] \in Keys
        <5>1. at[p] \in CaSteps
          BY <1>5, <3>1 DEF CaSteps
        <5>2. held[p]["caCert"] \in Keys /\ held[p]["caKey"] \in Keys
          BY <5>1 DEF IInv, Local, CaChosen
        <5> QED
          BY <3>1, <5>2 DEF CaFiles
      <4> QED
        BY <1>2, <1>5, <4>1, KeysAssumption DEF Material, TypeOK
    <3>2. CASE f \notin CaFiles
      <4>1. disk["caCert"] # Absent
        BY <1>5, <3>2, WritePlaces DEF Ordered, CaReady, AnchorSteps, Files
      <4>2. disk'["caCert"] = disk["caCert"]
        BY <1>2, <1>5, <3>2 DEF TypeOK, Files, CaFiles
      <4> QED
        BY <4>1, <4>2 DEF Material, Files, CaFiles
    <3> QED
      BY <3>1, <3>2
  <2> QED
    BY <1>2, <1>5, <2>1, SessionState, SessionActions
    DEF Accepted, Lapsed, LapsedCas, Offered, IsServing, Alone, SessionStep, Session!Next, Serving
<1> QED
  BY <1>1, <1>3, <1>4, <1>5 DEF TruncateFile, FillFile

\* The trust command accepts a CA whose certificate is on the disk.
LEMMA TrustSession ==
  ASSUME TypeOK, TypeOK', NEW p \in Instances, Alone(p), TrustAnchor(p) PROVE SessionStep
<1>1. UNCHANGED <<disk, certs>> /\ at[p] = <<"trust", "anchor">> /\ at'[p] # Serving
  BY NotServingNext DEF TrustAnchor, InstallStep
<1>2. ~Offered /\ ~Offered' /\ (Material' <=> Material)
  BY <1>1, SessionState DEF Offered, IsServing, Alone, Material, Serving
<1>3. CASE UNCHANGED trust
  BY <1>1, <1>3, QuietSession
<1>4. CASE disk["anchor"] \in Keys /\ trust' = trust \cup {disk["anchor"]}
  <2>1. Material
    BY <1>4, KeysAssumption DEF Material, Files
  <2>2. CASE certs[disk["anchor"]].due
    <3>1. Lapsed' /\ (Accepted' <=> Accepted)
      BY <1>1, <1>4, <2>2 DEF Lapsed, Accepted, LapsedCas
    <3> QED
      BY <1>2, <2>1, <3>1, SessionActions DEF SessionStep, Session!Next
  <2>3. CASE ~certs[disk["anchor"]].due
    <3>1. Accepted' /\ (Lapsed' <=> Lapsed)
      BY <1>1, <1>4, <2>3 DEF Lapsed, Accepted, LapsedCas
    <3> QED
      BY <1>2, <2>1, <3>1, SessionActions DEF SessionStep, Session!Next
  <2> QED
    BY <2>2, <2>3
<1> QED
  BY <1>3, <1>4 DEF TrustAnchor

\* Serving begins while the anchored CA is accepted.
LEMMA BindSession ==
  ASSUME TypeOK, TypeOK', NEW p \in Instances, Alone(p), Ordered(p), Bind(p) PROVE SessionStep
<1>1. UNCHANGED <<disk, trust, certs>> /\ at[p] = <<"bind", "leafCert">>
  BY DEF Bind
<1>2. CASE Fail(p)
  <2>1. at'[p] # Serving
    BY <1>2, Failed DEF Off, Serving
  <2> QED
    BY <1>1, <2>1, QuietSession
<1>3. CASE Continue(p, Serving)
  <2>1. stage[p] = "serve"
    BY <1>1 DEF Ordered, Phased, Off, EnsureSteps, RenewSteps, AnchorSteps, IssueSteps, ChooseSteps,
       WriteSteps, RemovalSteps, Serving
  <2>2. disk["anchor"] \in trust /\ disk["caCert"] # Absent
    BY <2>1 DEF Ordered, Anchored, CaReady
  <2>3. Material /\ (Accepted \/ Lapsed)
    BY <2>2 DEF Material, Accepted, Lapsed, Files, CaFiles
  <2>4. Offered' /\ (Material' <=> Material) /\ (Accepted' <=> Accepted) /\ (Lapsed' <=> Lapsed)
    BY <1>1, <1>3, Moved DEF Offered, IsServing, Material, Accepted, Lapsed, LapsedCas
  <2> QED
    BY <2>3, <2>4, SessionActions DEF SessionStep, Session!Next
<1> QED
  BY <1>2, <1>3 DEF Bind, Fault

\* The trust that is withdrawn is the only one in force, if it is not due.
LEMMA UntrustSession ==
  ASSUME TypeOK, TypeOK', NEW p \in Instances, Alone(p), Ordered(p), Untrust(p) PROVE SessionStep
<1>1. UNCHANGED <<disk, certs>> /\ at[p] = <<"untrust", "anchor">> /\ at'[p] # Serving
  BY NotServingNext DEF Untrust, UninstallStep
<1>2. ~Offered /\ ~Offered' /\ (Material' <=> Material)
  BY <1>1, SessionState DEF Offered, IsServing, Alone, Material, Serving
<1>3. CASE UNCHANGED trust
  BY <1>1, <1>3, QuietSession
<1>4. CASE disk["anchor"] \in trust /\ trust' = trust \ {disk["anchor"]}
  <2>1. \A k \in trust : certs[k].due \/ k = disk["anchor"]
    BY <1>1 DEF Ordered, Anchored, Current, TypeOK
  <2>2. ~Accepted'
    BY <1>1, <1>4, <2>1 DEF Accepted, LapsedCas
  <2>3. CASE certs[disk["anchor"]].due
    <3>1. ~Accepted
      BY <2>1, <2>3 DEF Accepted, LapsedCas
    <3>2. CASE Lapsed'
      <4>1. Lapsed
        BY <1>1, <1>4, <3>2 DEF Lapsed, LapsedCas
      <4> QED
        BY <1>2, <2>2, <3>1, <3>2, <4>1, SessionActions DEF SessionStep
    <3>3. CASE ~Lapsed'
      BY <1>2, <2>2, <3>1, <3>3, SessionActions DEF SessionStep, Session!Next
    <3> QED
      BY <3>2, <3>3
  <2>4. CASE ~certs[disk["anchor"]].due
    <3>1. (Lapsed' <=> Lapsed)
      BY <1>1, <1>4, <2>4 DEF Lapsed, LapsedCas
    <3> QED
      BY <1>2, <2>2, <3>1, SessionActions DEF SessionStep, Session!Next
  <2> QED
    BY <2>3, <2>4
<1>5. trust' = trust \ {disk["anchor"]} /\ disk["anchor"] \notin trust => UNCHANGED trust
  OBVIOUS
<1> QED
  BY <1>3, <1>4, <1>5 DEF Untrust

\* Files go once nothing is accepted that they could withdraw.
LEMMA RemovalSession ==
  ASSUME TypeOK, TypeOK', NEW p \in Instances, Alone(p), Ordered(p),
         RemoveAnchor(p) \/ RemoveFromFirefox(p) \/ \E f \in Files : RemoveCredential(p, f)
  PROVE  SessionStep
<1>1. UNCHANGED <<trust, certs>> /\ at[p] \in RemovalSteps
  BY DEF RemoveAnchor, RemoveFromFirefox, RemoveCredential, RemovalSteps, Files, CaFiles, LeafFiles
<1>2. at'[p] # Serving /\ at[p] # Serving
  BY <1>1, NotServingNext DEF UninstallStep, RemovalSteps, Serving
<1>3. ~Offered /\ ~Offered' /\ (Accepted' <=> Accepted) /\ (Lapsed' <=> Lapsed)
  BY <1>1, <1>2 DEF Offered, IsServing, Alone, Accepted, Lapsed, LapsedCas
<1>4. ~Accepted
  BY <1>1, SessionState DEF Ordered, Withdrawn
<1>5. UNCHANGED disk \/ \E f \in Files : disk' = [disk EXCEPT ![f] = Absent]
  BY DEF RemoveAnchor, RemoveFromFirefox, RemoveCredential, Files
<1>6. Material' => Material
  BY <1>5 DEF Material, TypeOK
<1>7. CASE Material'
  BY <1>3, <1>6, <1>7, SessionActions DEF SessionStep
<1>8. CASE ~Material'
  BY <1>3, <1>4, <1>8, SessionActions DEF SessionStep, Session!Next
<1> QED
  BY <1>7, <1>8

\* A trusted CA that comes due lapses.
LEMMA ComeDueSession ==
  ASSUME TypeOK, TypeOK', NEW p, Alone(p), NEW k \in Keys, ComeDue(k) PROVE SessionStep
<1>1. UNCHANGED <<at, disk, trust>> /\ ~certs[k].due
  BY DEF ComeDue, procVars
<1>2. certs'[k].due /\ \A j \in Keys \ {k} : certs'[j] = certs[j]
  BY DEF ComeDue, TypeOK, Certificate
<1>3. (Material' <=> Material) /\ (Offered' <=> Offered)
  BY <1>1 DEF Material, Offered, IsServing
<1>4. CASE k \in trust
  <2>1. Accepted /\ Lapsed'
    BY <1>1, <1>2, <1>4 DEF Accepted, Lapsed, LapsedCas
  <2> QED
    BY <1>3, <2>1, SessionActions DEF SessionStep, Session!Next
<1>5. CASE k \notin trust
  <2>1. LapsedCas' = LapsedCas
    BY <1>1, <1>2, <1>5 DEF LapsedCas, TypeOK
  <2>2. (Accepted' <=> Accepted) /\ (Lapsed' <=> Lapsed)
    BY <1>1, <2>1 DEF Accepted, Lapsed
  <2> QED
    BY <1>3, <2>2, SessionActions DEF SessionStep
<1> QED
  BY <1>4, <1>5

\* A new certificate is not that of a CA the trust store knows.
LEMMA GenerateSession ==
  ASSUME IInv, TypeOK', NEW p \in Instances, Alone(p), GenerateCa(p) \/ GenerateLeaf(p)
  PROVE  SessionStep
<1>1. UNCHANGED <<disk, trust>> /\ at'[p] # Serving /\ TypeOK
  BY NotServingNext DEF GenerateCa, GenerateLeaf, EnsureStep, IssueStep, IInv
<1>2. \A k \in trust : certs'[k] = certs[k]
  <2>1. \A k \in trust : k \in InUse /\ k \in Keys
    BY <1>1 DEF InUse, Referenced, TypeOK
  <2>2. ASSUME NEW s, NEW r, Unused # {}, Certify(s, r) PROVE \A k \in trust : certs'[k] = certs[k]
    <3>1. FreshKey \in Unused
      BY <2>2, <1>1, CertifyGrows
    <3> QED
      BY <2>1, <2>2, <3>1 DEF Certify, Unused
  <2> QED
    BY <2>2 DEF GenerateCa, GenerateLeaf
<1> QED
  BY <1>1, <1>2, QuietSession

\* Every step is one of TlsSession's, or it sees nothing of it.
LEMMA NextSession ==
  ASSUME IInv, IInv', NEW p, Alone(p), Ordered(p), [Next]_vars PROVE SessionStep
<1> USE DEF Alone
<1>1. TypeOK /\ TypeOK' /\ p \in Instances
  BY DEF IInv
<1>2. CASE UNCHANGED vars
  <2>1. (Material' <=> Material) /\ (Accepted' <=> Accepted) /\ (Lapsed' <=> Lapsed) /\ (Offered' <=> Offered)
    BY <1>2 DEF vars, Material, Accepted, Lapsed, LapsedCas, Offered, IsServing
  <2> QED
    BY <2>1, SessionActions DEF SessionStep
<1>3. CASE \E k \in Keys : ComeDue(k)
  BY <1>1, <1>3, ComeDueSession
<1>4. CASE WriteStep(p) \/ TrustAnchor(p) \/ Bind(p) \/ UninstallStep(p)
  BY <1>1, <1>4, WriteSession, TrustSession, BindSession, UntrustSession, RemovalSession
  DEF UninstallStep
<1>5. CASE GenerateCa(p) \/ GenerateLeaf(p)
  BY <1>1, <1>5, GenerateSession
<1>6. CASE \/ Start(p) \/ ReadCaCert(p) \/ ReadCaKey(p) \/ CopyCertificate(p) \/ IntegrateFirefox(p)
           \/ ReadLeafCert(p) \/ ReadLeafKey(p) \/ PairKeys(p)
           \/ StopOnSignal(p) \/ StopOnError(p) \/ Crash(p)
  <2>1. UNCHANGED <<disk, trust, certs>>
    BY <1>6 DEF Start, ReadCaCert, ReadCaKey, CopyCertificate, IntegrateFirefox, ReadLeafCert,
       ReadLeafKey, PairKeys, StopOnSignal, StopOnError, Crash
  <2>2. at'[p] # Serving
    BY <1>1, <1>6, NotServingNext DEF EnsureStep, InstallStep, IssueStep
  <2> QED
    BY <1>1, <2>1, <2>2, QuietSession
<1> QED
  BY <1>2, <1>3, <1>4, <1>5, <1>6 DEF Next, ProgramStep, EnsureStep, InstallStep, IssueStep, ServeStep

\* A single instance keeps the order TlsSession asks for: whatever fails and wherever it
\* is killed, it serves only while a CA is accepted, withdraws the trust after serving, and
\* drops the files only once no CA is accepted but those that came due.
THEOREM SessionOrder == ASSUME NEW p, Alone(p) PROVE Spec => ImplementsSession
<1>1. Init => Session!Init
  BY DEF Init, Session!Init, NothingHeld, LapsedCas, IsServing, Off, Serving
<1>2. IInv /\ IInv' /\ Ordered(p) /\ [Next]_vars => [Session!Next]_(Session!session)
  BY NextSession DEF SessionStep
<1> QED
  BY <1>1, <1>2, Invariance, OrderInvariance, PTL DEF Spec, ImplementsSession, Session!Spec

-----------------------------------------------------------------------------
(* A clean uninstall *)

\* Neither in the uninstall after the trust was withdrawn, nor at the end of one.
Elsewhere(p) ==
    /\ at[p] \notin RemovalSteps
    /\ at[p] = Off => result[p] \notin {"served", "serveError"}

\* Outside the uninstall nothing is owed about removed files.
LEMMA ElsewhereEmptied ==
  ASSUME NEW p \in Instances, Elsewhere(p)' PROVE Emptied(p)'
<1>1. at'[p] \notin HalfRemoved \cup {<<"remove", "leafKey">>}
  BY DEF Elsewhere, RemovalSteps, HalfRemoved
<1> QED
  BY <1>1 DEF Elsewhere, Emptied, RemovalSteps, HalfRemoved

\* Only the uninstall leads into the uninstall, and to the end of a run that served.
LEMMA ElsewhereNext ==
  ASSUME TypeOK, NEW p \in Instances,
         Start(p) \/ EnsureStep(p) \/ WriteStep(p) \/ InstallStep(p) \/ IssueStep(p) \/ ServeStep(p)
           \/ StopOnSignal(p) \/ StopOnError(p) \/ Crash(p)
  PROVE  Elsewhere(p)'
<1>1. ASSUME Fail(p) PROVE Elsewhere(p)'
  BY <1>1, Failed DEF Elsewhere, Off, RemovalSteps
<1>2. ASSUME NEW step \in RenewSteps \cup AnchorSteps \cup IssueSteps \cup {<<"read", "caKey">>},
             Continue(p, step)
      PROVE  Elsewhere(p)'
  BY <1>2, Moved DEF Elsewhere, RenewSteps, AnchorSteps, IssueSteps, ChooseSteps, WriteSteps,
     RemovalSteps, Serving, Off
<1>3. CASE Start(p) \/ IntegrateFirefox(p)
  <2>1. CASE at'[p] = <<"read", "caCert">>
    BY <2>1 DEF Elsewhere, RemovalSteps, Off
  <2> QED
    BY <1>1, <1>3, <2>1 DEF Start, IntegrateFirefox, Fault, Goto, TypeOK
<1>4. CASE EnsureStep(p)
  BY <1>1, <1>2, <1>4 DEF EnsureStep, ReadCaCert, ReadCaKey, GenerateCa, Fault, AfterEnsure,
     RenewSteps, AnchorSteps, IssueSteps, ChooseSteps
<1>5. CASE WriteStep(p)
  <2>1. PICK f \in Files : TruncateFile(p, f) \/ FillFile(p, f)
    BY <1>5 DEF WriteStep
  <2>2. {<<"fill", f>>, AfterWrite(p, f)}
            \subseteq RenewSteps \cup AnchorSteps \cup IssueSteps \cup {<<"read", "caKey">>}
    BY DEF AfterWrite, AfterEnsure, Files, CaFiles, LeafFiles, RenewSteps, AnchorSteps,
       IssueSteps, ChooseSteps, WriteSteps
  <2> QED
    BY <1>1, <1>2, <2>1, <2>2 DEF TruncateFile, FillFile, Fault
<1>6. CASE CopyCertificate(p) \/ TrustAnchor(p)
  BY <1>1, <1>2, <1>6 DEF CopyCertificate, TrustAnchor, Fault, AnchorSteps
<1>7. CASE IssueStep(p) \/ ServeStep(p)
  BY <1>1, <1>2, <1>7 DEF IssueStep, ReadLeafCert, ReadLeafKey, GenerateLeaf, ServeStep, PairKeys,
     Bind, Fault, IssueSteps, ChooseSteps, WriteSteps
<1>8. CASE StopOnSignal(p) \/ StopOnError(p)
  <2>1. CASE BeginUninstall(p, FALSE)
    BY <2>1 DEF BeginUninstall, Goto, TypeOK, Elsewhere, RemovalSteps, Off
  <2> QED
    BY <1>1, <1>8, <2>1 DEF StopOnSignal, StopOnError, Fault
<1>9. CASE Crash(p)
  BY <1>9 DEF Crash, Exit, Goto, TypeOK, Elsewhere, RemovalSteps, Off
<1> QED
  BY <1>3, <1>4, <1>5, <1>6, <1>7, <1>8, <1>9 DEF InstallStep

\* Every removal keeps account of what is gone, and the last one finds everything gone.
LEMMA RemovalEmptied ==
  ASSUME TypeOK, NEW p \in Instances, Ordered(p), Emptied(p), NoSilentFault,
         RemoveAnchor(p) \/ RemoveFromFirefox(p) \/ \E f \in Files : RemoveCredential(p, f)
  PROVE  Emptied(p)'
<1>1. NoneCurrent' /\ stage[p] = "cleanup"
  <2>1. at[p] \in RemovalSteps
    BY DEF RemoveAnchor, RemoveFromFirefox, RemoveCredential, RemovalSteps, Files, CaFiles, LeafFiles
  <2> QED
    BY <2>1, RemovalOrdered DEF Ordered, Phased, Off, EnsureSteps, RenewSteps, AnchorSteps,
       IssueSteps, ChooseSteps, WriteSteps, RemovalSteps, Serving
<1>2. CASE Fail(p)
  <2>1. Elsewhere(p)'
    BY <1>1, <1>2, Failed DEF Elsewhere, RemovalSteps, Off
  <2> QED
    BY <2>1, ElsewhereEmptied
<1>3. CASE disk' = [disk EXCEPT !["anchor"] = Absent] /\ Continue(p, <<"forget", "firefox">>)
  <2>1. disk'["anchor"] = Absent /\ at'[p] = <<"forget", "firefox">>
    BY <1>3, Moved DEF TypeOK, Files
  <2> QED
    BY <2>1 DEF Emptied, HalfRemoved, Off
<1>4. CASE RemoveFromFirefox(p) /\ Continue(p, <<"remove", "caCert">>)
  <2>1. UNCHANGED disk /\ at[p] = <<"forget", "firefox">> /\ at'[p] = <<"remove", "caCert">>
    BY <1>4, Moved DEF RemoveFromFirefox
  <2> QED
    BY <2>1 DEF Emptied, HalfRemoved, Off, RemovalSteps
<1>5. ASSUME NEW f \in Files, RemoveCredential(p, f) PROVE Emptied(p)'
  <2>1. /\ at[p] = <<"remove", f>> /\ f \in CaFiles \cup LeafFiles
        /\ disk'[f] = Absent /\ \A g \in Files \ {f} : disk'[g] = disk[g]
    BY <1>5 DEF RemoveCredential, NoSilentFault, TypeOK, Files
  <2>2. disk["anchor"] = Absent /\ disk'["anchor"] = Absent
    BY <2>1 DEF Emptied, RemovalSteps, Files, CaFiles, LeafFiles
  <2>3. CASE f = "caCert"
    <3>1. at'[p] = <<"remove", "caKey">>
      BY <1>5, <2>3, Moved DEF RemoveCredential, AfterRemoval
    <3> QED
      BY <2>1, <2>2, <2>3, <3>1 DEF Emptied, HalfRemoved, Off
  <2>4. CASE f = "caKey"
    <3>1. at'[p] = <<"remove", "leafCert">>
      BY <1>5, <2>4, Moved DEF RemoveCredential, AfterRemoval
    <3>2. disk["caCert"] = Absent
      BY <2>1, <2>4 DEF Emptied, HalfRemoved
    <3>3. disk'["caCert"] = Absent
      BY <2>1, <2>4, <3>2 DEF Files, CaFiles
    <3> QED
      BY <2>1, <2>2, <2>4, <3>1, <3>3 DEF Emptied, HalfRemoved, Off
  <2>5. CASE f = "leafCert"
    <3>1. at'[p] = <<"remove", "leafKey">>
      BY <1>5, <2>5, Moved DEF RemoveCredential, AfterRemoval
    <3>2. disk["caCert"] = Absent /\ disk["caKey"] = Absent
      BY <2>1, <2>5 DEF Emptied, HalfRemoved
    <3>3. disk'["caCert"] = Absent /\ disk'["caKey"] = Absent
      BY <2>1, <2>5, <3>2 DEF Files, CaFiles
    <3> QED
      BY <2>1, <2>2, <2>5, <3>1, <3>3 DEF Emptied, HalfRemoved, Off
  <2>6. CASE f = "leafKey"
    <3>1. at'[p] = Off
      BY <1>5, <2>6 DEF RemoveCredential, Exit, Goto, TypeOK
    <3>2. \A g \in Files \ {f} : disk[g] = Absent
      BY <2>1, <2>2, <2>6 DEF Emptied, HalfRemoved, Files, CaFiles, LeafFiles
    <3> QED
      BY <1>1, <2>1, <3>1, <3>2 DEF Emptied, HalfRemoved, Off, RemovalSteps
  <2> QED
    BY <2>1, <2>3, <2>4, <2>5, <2>6 DEF CaFiles, LeafFiles
<1> QED
  BY <1>2, <1>3, <1>4, <1>5 DEF RemoveAnchor, RemoveFromFirefox, Fault

\* Every step of the one instance, or of time, keeps account of the files that are gone.
LEMMA NextEmptied ==
  ASSUME IInv, NEW p, Alone(p), NoSilentFault, Ordered(p), Emptied(p), [Next]_vars
  PROVE  Emptied(p)'
<1> USE DEF Alone
<1>1. TypeOK /\ p \in Instances
  BY DEF IInv
<1>2. CASE UNCHANGED vars
  BY <1>2 DEF vars, Emptied, NoneCurrent, Current
<1>3. CASE \E k \in Keys : ComeDue(k)
  <2>1. UNCHANGED <<at, result, disk, trust>>
    BY <1>3 DEF ComeDue, procVars
  <2>2. \A j \in Keys : Current(j)' => Current(j)
    BY <1>1, <1>3 DEF ComeDue, Current, TypeOK, Certificate
  <2> QED
    BY <2>1, <2>2 DEF Emptied, NoneCurrent
<1>4. CASE \/ Start(p) \/ EnsureStep(p) \/ WriteStep(p) \/ InstallStep(p) \/ IssueStep(p)
           \/ ServeStep(p) \/ StopOnSignal(p) \/ StopOnError(p) \/ Crash(p)
  BY <1>1, <1>4, ElsewhereNext, ElsewhereEmptied
<1>5. CASE Untrust(p)
  <2>1. CASE Fail(p)
    <3>1. stage[p] # "serve"
      BY <1>5 DEF Untrust, Ordered, Phased, Off, EnsureSteps, RenewSteps, AnchorSteps,
         IssueSteps, ChooseSteps, WriteSteps, RemovalSteps, Serving
    <3>2. Elsewhere(p)'
      BY <1>1, <2>1, <3>1, Failed DEF Elsewhere, RemovalSteps, Off
    <3> QED
      BY <1>1, <3>2, ElsewhereEmptied
  <2>2. CASE Continue(p, <<"remove", "anchor">>)
    <3>1. at'[p] = <<"remove", "anchor">>
      BY <1>1, <2>2, Moved
    <3> QED
      BY <3>1 DEF Emptied, HalfRemoved, Off
  <2> QED
    BY <1>5, <2>1, <2>2 DEF Untrust, Fault
<1>6. CASE RemoveAnchor(p) \/ RemoveFromFirefox(p) \/ \E f \in Files : RemoveCredential(p, f)
  BY <1>1, <1>6, RemovalEmptied
<1> QED
  BY <1>2, <1>3, <1>4, <1>5, <1>6 DEF Next, ProgramStep, UninstallStep

\* What an uninstall has removed is gone, in every state of a single instance.
LEMMA EmptiedInvariance == ASSUME NEW p, Alone(p), NoSilentFault PROVE Spec => []Emptied(p)
<1>1. Init => Emptied(p)
  BY DEF Init, Emptied, Alone, RemovalSteps, HalfRemoved, Off
<1>2. IInv /\ Ordered(p) /\ Emptied(p) /\ [Next]_vars => Emptied(p)'
  BY NextEmptied
<1> QED
  BY <1>1, <1>2, Invariance, OrderInvariance, PTL DEF Spec

\* However often the single instance was killed, and whatever failed, a run of it whose
\* uninstall went through leaves no file, and no CA in the trust store but those that came
\* due while they were trusted (CleanUnlessDue).
THEOREM CleanAfterUninstall == ASSUME NEW p, Alone(p), NoSilentFault PROVE Spec => []CleanUnlessDue
<1>1. TypeOK /\ Emptied(p) => CleanUnlessDue
  BY DEF TypeOK, Emptied, CleanUnlessDue, NoneCurrent, Current, LapsedCas, Alone
<1> QED
  BY <1>1, TypeCorrect, EmptiedInvariance, PTL

-----------------------------------------------------------------------------
(* The leaf a single instance serves *)

\* The steps that replace the certificate of the CA.
RenewCert == {<<"generate", "caCert">>, <<"cut", "caCert">>, <<"fill", "caCert">>}

\* A leaf certificate on the disk has its CA beside it, or its signer came due.
LeafOnDisk(p) == disk["leafCert"] # Absent /\ at[p] \notin HalfRemoved =>
    /\ disk["caCert"] # Absent /\ disk["caKey"] # Absent
    /\ disk["leafCert"] \in Keys =>
          /\ SignedBy(disk["leafCert"], disk["caCert"])
          /\ at[p] \in RenewCert => certs[certs[disk["leafCert"]].signer].due

\* So has the one a process reads, writes or serves.
LeafInHand(p) ==
    /\ at[p] = <<"read", "leafKey">> => held[p]["leafCert"] = disk["leafCert"]
    /\ at[p] \in LeafSteps => SignedBy(held[p]["leafCert"], disk["caCert"])

LeafSigned(p) == LeafOnDisk(p) /\ LeafInHand(p)

\* Whoever signed a certificate that is referred to stays its signer, and stays due.
LEMMA SignerStays ==
  ASSUME TypeOK, DueGrows, NEW k \in Keys, k \in Referenced
  PROVE  /\ certs'[k].signer = certs[k].signer
         /\ certs[certs[k].signer].due => certs'[certs'[k].signer].due
<1>1. k \in InUse /\ certs[k].signer \in InUse
  BY DEF InUse
<1> QED
  BY <1>1 DEF DueGrows

\* A step that leaves the disk alone keeps what is known of the leaf on it, ...
LEMMA LeafOnDiskStays ==
  ASSUME TypeOK, NEW p \in Instances, LeafOnDisk(p), DueGrows, UNCHANGED disk,
         at[p] \notin HalfRemoved,
         \/ at'[p] \in RenewCert => at[p] \in RenewCert
         \/ disk["leafCert"] \in Keys => certs[certs[disk["leafCert"]].signer].due
  PROVE  LeafOnDisk(p)'
<1>1. CASE disk["leafCert"] \in Keys
  <2>1. disk["leafCert"] \in Referenced
    BY <1>1 DEF Referenced, Files, LeafFiles
  <2> QED
    BY <1>1, <2>1, SignerStays DEF LeafOnDisk, SignedBy
<1>2. CASE disk["leafCert"] \notin Keys
  BY <1>2 DEF LeafOnDisk
<1> QED
  BY <1>1, <1>2

\* ... and one that leaves the leaf and the CA certificate in hand alone, what is known of it.
LEMMA LeafInHandStays ==
  ASSUME IInv, NEW p \in Instances, LeafInHand(p), DueGrows,
         at[p] \in LeafSteps, at'[p] \in LeafSteps,
         held'[p]["leafCert"] = held[p]["leafCert"], disk'["caCert"] = disk["caCert"]
  PROVE  LeafInHand(p)'
<1>1. held[p]["leafCert"] \in Keys /\ TypeOK
  BY DEF IInv, Local, LeafChosen
<1>2. held[p]["leafCert"] \in Referenced
  BY <1>1 DEF Referenced, Files, LeafFiles
<1>3. at'[p] # <<"read", "leafKey">>
  BY DEF LeafSteps, PairedSteps, LeafFiles, Serving
<1> QED
  BY <1>1, <1>2, <1>3, SignerStays DEF LeafInHand, SignedBy

\* Before a leaf is chosen, and after it was served, nothing is in hand.
LEMMA NothingInHand ==
  ASSUME NEW p \in Instances, at'[p] \notin LeafSteps \cup {<<"read", "leafKey">>}
  PROVE  LeafInHand(p)'
  BY DEF LeafInHand

\* A run that ends, or goes on to its uninstall, leaves the leaf on the disk as it is.
LEMMA EndsSigned ==
  ASSUME TypeOK, NEW p \in Instances, LeafSigned(p), DueGrows, UNCHANGED disk,
         at[p] \notin HalfRemoved,
         at'[p] \in {Off, <<"untrust", "anchor">>}
  PROVE  LeafSigned(p)'
<1>1. at'[p] \notin RenewCert \cup LeafSteps \cup {<<"read", "leafKey">>}
  BY DEF Off, RenewCert, LeafSteps, PairedSteps, LeafFiles, Serving
<1> QED
  BY <1>1, LeafOnDiskStays, NothingInHand DEF LeafSigned

\* An error does.
LEMMA FailSigned ==
  ASSUME TypeOK, NEW p \in Instances, LeafSigned(p), UNCHANGED <<disk, certs>>,
         at[p] \notin HalfRemoved, Fail(p)
  PROVE  LeafSigned(p)'
  BY Failed, SameDueGrows, EndsSigned

-----------------------------------------------------------------------------
(* The leaf: one lemma per action *)

\* Reading the certificate of the CA: it is only missing where there is no leaf either.
LEMMA ReadCaCertSigned ==
  ASSUME TypeOK, NEW p \in Instances, LeafSigned(p), ReadCaCert(p) PROVE LeafSigned(p)'
<1>1. UNCHANGED <<disk, certs>> /\ at[p] = <<"read", "caCert">> /\ at[p] \notin HalfRemoved
  BY DEF ReadCaCert, HalfRemoved
<1>2. CASE Continue(p, IF disk["caCert"] = Absent THEN <<"generate", "caCert">>
                                                  ELSE <<"read", "caKey">>)
  <2>1. at'[p] = IF disk["caCert"] = Absent THEN <<"generate", "caCert">> ELSE <<"read", "caKey">>
    BY <1>2, Moved
  <2>2. at'[p] \notin LeafSteps \cup {<<"read", "leafKey">>}
    BY <2>1 DEF LeafSteps, PairedSteps, LeafFiles, Serving
  <2>3. at'[p] \in RenewCert => disk["leafCert"] \notin Keys
    BY <1>1, <2>1, KeysAssumption DEF LeafSigned, LeafOnDisk, RenewCert
  <2> QED
    BY <1>1, <2>2, <2>3, SameDueGrows, LeafOnDiskStays, NothingInHand DEF LeafSigned
<1> QED
  BY <1>1, <1>2, FailSigned DEF ReadCaCert, Fault

\* Reading the key of the CA: a CA that comes due takes the leaves it signed along.
LEMMA ReadCaKeySigned ==
  ASSUME TypeOK, NEW p \in Instances, Ordered(p), LeafSigned(p), ReadCaKey(p) PROVE LeafSigned(p)'
<1>1. UNCHANGED <<disk, certs>> /\ at[p] = <<"read", "caKey">> /\ at[p] \notin HalfRemoved
  BY DEF ReadCaKey, HalfRemoved
<1>2. held[p]["caCert"] = disk["caCert"]
  BY <1>1 DEF Ordered, HoldsCa
<1>3. ASSUME NEW step, Continue(p, step),
             \/ step = <<"generate", "caCert">> /\ disk["caKey"] = Absent
             \/ step = <<"generate", "caCert">> /\ certs[disk["caCert"]].due
             \/ step = AfterEnsure(p)
      PROVE  LeafSigned(p)'
  <2>1. at'[p] = step
    BY <1>3, Moved
  <2>2. at'[p] \notin LeafSteps \cup {<<"read", "leafKey">>}
    BY <1>3, <2>1 DEF AfterEnsure, LeafSteps, PairedSteps, LeafFiles, Serving
  <2>3. \/ at'[p] \notin RenewCert
        \/ disk["leafCert"] \in Keys => certs[certs[disk["leafCert"]].signer].due
    BY <1>1, <1>3, <2>1, KeysAssumption DEF LeafSigned, LeafOnDisk, SignedBy, AfterEnsure, RenewCert
  <2> QED
    BY <1>1, <2>2, <2>3, SameDueGrows, LeafOnDiskStays, NothingInHand DEF LeafSigned
<1> QED
  BY <1>1, <1>2, <1>3, FailSigned DEF ReadCaKey, Fault

\* Generating a CA leaves the certificates alone that exist.
LEMMA GenerateCaSigned ==
  ASSUME TypeOK, NEW p \in Instances, LeafSigned(p), GenerateCa(p) PROVE LeafSigned(p)'
<1>1. UNCHANGED disk /\ at[p] = <<"generate", "caCert">> /\ DueGrows /\ at'[p] = <<"cut", "caCert">>
  BY CertifyGrows, Moved DEF GenerateCa
<1>2. at'[p] \notin LeafSteps \cup {<<"read", "leafKey">>}
  BY <1>1 DEF LeafSteps, PairedSteps, LeafFiles, Serving
<1> QED
  BY <1>1, <1>2, LeafOnDiskStays, NothingInHand DEF LeafSigned, RenewCert, HalfRemoved

\* Truncating a file.
LEMMA TruncateFileSigned ==
  ASSUME IInv, NEW p \in Instances, Ordered(p), LeafSigned(p), NEW f \in Files, TruncateFile(p, f)
  PROVE  LeafSigned(p)'
<1>1. /\ UNCHANGED <<trust, certs>> /\ at[p] = <<"cut", f>> /\ TypeOK
      /\ at[p] \notin HalfRemoved /\ Phased(p) /\ CaReady(p) /\ LeafOnDisk(p) /\ LeafInHand(p)
  BY DEF TruncateFile, IInv, HalfRemoved, Ordered, LeafSigned
<1>2. CASE Fail(p) /\ UNCHANGED disk
  BY <1>1, <1>2, FailSigned
<1>3. CASE disk' = [disk EXCEPT ![f] = Torn] /\ Continue(p, <<"fill", f>>) /\ UNCHANGED held
  <2>1. at'[p] = <<"fill", f>> /\ held' = held
    BY <1>1, <1>3, Moved
  <2>2. disk'[f] = Torn /\ (\A g \in Files \ {f} : disk'[g] = disk[g])
    BY <1>1, <1>3 DEF TypeOK
  <2>3. CASE f \in CaFiles
    <3>1. at'[p] \notin LeafSteps \cup {<<"read", "leafKey">>}
      BY <2>1, <2>3 DEF LeafSteps, PairedSteps, CaFiles, LeafFiles, Serving
    <3>2. LeafOnDisk(p)'
      BY <1>1, <2>1, <2>2, <2>3, KeysAssumption
      DEF LeafOnDisk, SignedBy, RenewCert, Files, CaFiles, LeafFiles
    <3> QED
      BY <3>1, <3>2, NothingInHand DEF LeafSigned
  <2>4. CASE f = "anchor"
    <3>1. at'[p] \notin LeafSteps \cup RenewCert \cup {<<"read", "leafKey">>}
      BY <2>1, <2>4 DEF LeafSteps, PairedSteps, LeafFiles, Serving, RenewCert
    <3>2. LeafOnDisk(p)'
      BY <1>1, <2>2, <2>4, <3>1 DEF LeafOnDisk, SignedBy, Files, CaFiles, LeafFiles
    <3> QED
      BY <3>1, <3>2, NothingInHand DEF LeafSigned
  <2>5. CASE f \in LeafFiles
    <3>1. /\ at[p] \in LeafSteps /\ at'[p] \in LeafSteps
          /\ at'[p] \notin RenewCert
      BY <1>1, <2>1, <2>5 DEF LeafSteps, RenewCert, LeafFiles
    <3>2. disk["caCert"] # Absent /\ disk["caKey"] # Absent
      BY <1>1, <2>5, WritePlaces DEF CaReady
    <3>3. UNCHANGED <<disk["caCert"], disk["caKey"]>>
      BY <2>2, <2>5 DEF Files, CaFiles, LeafFiles
    <3>4. LeafInHand(p)'
      BY <1>1, <2>1, <3>1, <3>3, LeafInHandStays, SameDueGrows
    <3>5. disk'["leafCert"] \in Keys => disk'["leafCert"] = disk["leafCert"]
      BY <2>2, <2>5, KeysAssumption DEF Files, LeafFiles
    <3>6. LeafOnDisk(p)'
      BY <1>1, <3>1, <3>2, <3>3, <3>5, KeysAssumption DEF LeafOnDisk, SignedBy
    <3> QED
      BY <3>4, <3>6 DEF LeafSigned
  <2> QED
    BY <2>3, <2>4, <2>5 DEF Files
<1> QED
  BY <1>2, <1>3 DEF TruncateFile, Fault

\* Writing one: the leaf that is written is signed by the CA on the disk.
LEMMA FillFileSigned ==
  ASSUME IInv, NEW p \in Instances, Ordered(p), LeafSigned(p), NEW f \in Files, FillFile(p, f)
  PROVE  LeafSigned(p)'
<1>1. /\ UNCHANGED <<trust, certs>> /\ at[p] = <<"fill", f>> /\ TypeOK
      /\ at[p] \notin HalfRemoved /\ Phased(p) /\ CaReady(p) /\ LeafOnDisk(p) /\ LeafInHand(p)
  BY DEF FillFile, IInv, HalfRemoved, Ordered, LeafSigned
<1>2. CASE Fail(p) /\ UNCHANGED disk
  BY <1>1, <1>2, FailSigned
<1>3. CASE disk' = [disk EXCEPT ![f] = held[p][f]] /\ Continue(p, AfterWrite(p, f)) /\ UNCHANGED held
  <2>1. at'[p] = AfterWrite(p, f) /\ held' = held
    BY <1>1, <1>3, Moved
  <2>2. disk'[f] = held[p][f] /\ (\A g \in Files \ {f} : disk'[g] = disk[g])
    BY <1>1, <1>3 DEF TypeOK
  <2>3. CASE f \in CaFiles
    <3>1. at'[p] \notin LeafSteps \cup RenewCert \cup {<<"read", "leafKey">>}
      BY <2>1, <2>3 DEF AfterWrite, AfterEnsure, LeafSteps, PairedSteps, CaFiles, LeafFiles, Serving,
         RenewCert
    <3>2. disk'[f] \in Keys
      <4>1. at[p] \in CaSteps
        BY <1>1, <2>3 DEF CaSteps
      <4>2. held[p]["caCert"] \in Keys /\ held[p]["caKey"] \in Keys
        BY <4>1 DEF IInv, Local, CaChosen
      <4> QED
        BY <2>2, <2>3, <4>2 DEF CaFiles
    <3>3. disk'["leafCert"] = disk["leafCert"]
      BY <2>2, <2>3 DEF Files, CaFiles, LeafFiles
    <3>4. CASE f = "caCert"
      <4>1. disk'["caKey"] = disk["caKey"] /\ at[p] \in RenewCert
        BY <1>1, <2>2, <3>4 DEF Files, CaFiles, RenewCert
      <4> QED
        BY <1>1, <3>1, <3>2, <3>3, <3>4, <4>1, KeysAssumption, NothingInHand
        DEF LeafSigned, LeafOnDisk, SignedBy
    <3>5. CASE f = "caKey"
      <4>1. disk'["caCert"] = disk["caCert"]
        BY <2>2, <3>5 DEF Files, CaFiles
      <4> QED
        BY <1>1, <3>1, <3>2, <3>3, <3>5, <4>1, KeysAssumption, NothingInHand
        DEF LeafSigned, LeafOnDisk, SignedBy
    <3> QED
      BY <2>3, <3>4, <3>5 DEF CaFiles
  <2>4. CASE f = "anchor"
    <3>1. at'[p] \notin LeafSteps \cup RenewCert \cup {<<"read", "leafKey">>}
      BY <2>1, <2>4 DEF AfterWrite, LeafSteps, PairedSteps, LeafFiles, Serving, RenewCert
    <3>2. LeafOnDisk(p)'
      BY <1>1, <2>2, <2>4, <3>1 DEF LeafOnDisk, SignedBy, Files, CaFiles, LeafFiles
    <3> QED
      BY <3>1, <3>2, NothingInHand DEF LeafSigned
  <2>5. CASE f \in LeafFiles
    <3>1. /\ at[p] \in LeafSteps /\ at'[p] \in LeafSteps
          /\ at'[p] \notin RenewCert
      BY <1>1, <2>1, <2>5 DEF AfterWrite, LeafSteps, RenewCert, LeafFiles
    <3>2. disk["caCert"] # Absent /\ disk["caKey"] # Absent
      BY <1>1, <2>5, WritePlaces DEF CaReady
    <3>3. UNCHANGED <<disk["caCert"], disk["caKey"]>>
      BY <2>2, <2>5 DEF Files, CaFiles, LeafFiles
    <3>4. LeafInHand(p)'
      BY <1>1, <2>1, <3>1, <3>3, LeafInHandStays, SameDueGrows
    <3>5. CASE f = "leafCert"
      <4>1. SignedBy(disk["leafCert"], disk["caCert"])'
        BY <1>1, <2>2, <3>1, <3>3, <3>5 DEF LeafInHand, SignedBy
      <4> QED
        BY <3>1, <3>2, <3>3, <3>4, <4>1 DEF LeafSigned, LeafOnDisk
    <3>6. CASE f = "leafKey"
      <4>1. disk'["leafCert"] = disk["leafCert"]
        BY <2>2, <3>6 DEF Files, LeafFiles
      <4> QED
        BY <1>1, <3>1, <3>2, <3>3, <3>4, <4>1 DEF LeafSigned, LeafOnDisk, SignedBy
    <3> QED
      BY <2>5, <3>5, <3>6 DEF LeafFiles
  <2> QED
    BY <2>3, <2>4, <2>5 DEF Files
<1> QED
  BY <1>2, <1>3 DEF FillFile, Fault

\* The setup's other steps, and those that start or stop a run, leave leaf and CA as they are.
LEMMA BesideSigned ==
  ASSUME TypeOK, NEW p \in Instances, LeafSigned(p), NoneHalfRemoved,
         Start(p) \/ InstallStep(p) \/ StopOnSignal(p) \/ StopOnError(p) \/ Crash(p) \/ Untrust(p)
  PROVE  LeafSigned(p)'
<1>1. UNCHANGED <<disk, certs>> /\ at[p] \notin HalfRemoved
  <2>1. UNCHANGED <<disk, certs>>
    BY DEF Start, InstallStep, CopyCertificate, TrustAnchor, IntegrateFirefox, StopOnSignal,
       StopOnError, Crash, Untrust
  <2>2. CASE Crash(p)
    BY <2>1, <2>2 DEF Crash, NoneHalfRemoved
  <2>3. CASE Start(p) \/ InstallStep(p) \/ StopOnSignal(p) \/ StopOnError(p) \/ Untrust(p)
    <3>1. at[p] \in {Off, Serving, <<"untrust", "anchor">>} \cup AnchorSteps
      BY <2>3 DEF Start, InstallStep, CopyCertificate, TrustAnchor, IntegrateFirefox, StopOnSignal,
         StopOnError, Untrust, AnchorSteps
    <3> QED
      BY <2>1, <3>1 DEF HalfRemoved, AnchorSteps, Off, Serving
  <2> QED
    BY <2>1, <2>2, <2>3
<1>2. ASSUME NEW step, at'[p] = step,
             step \in {Off, <<"read", "caCert">>, <<"cut", "anchor">>, <<"import", "firefox">>,
                       <<"untrust", "anchor">>, <<"remove", "anchor">>}
      PROVE  LeafSigned(p)'
  <2>1. step \notin LeafSteps \cup RenewCert \cup {<<"read", "leafKey">>}
    BY <1>2 DEF LeafSteps, PairedSteps, LeafFiles, Serving, RenewCert, Off
  <2> QED
    BY <1>1, <1>2, <2>1, SameDueGrows, LeafOnDiskStays, NothingInHand DEF LeafSigned
<1>3. CASE Fail(p)
  BY <1>1, <1>3, FailSigned
<1>4. CASE Start(p)
  BY <1>2, <1>4 DEF Start, Goto, TypeOK
<1>5. CASE CopyCertificate(p)
  BY <1>2, <1>3, <1>5, Moved DEF CopyCertificate, Fault
<1>6. CASE TrustAnchor(p)
  BY <1>2, <1>3, <1>6, Moved DEF TrustAnchor, Fault
<1>7. CASE IntegrateFirefox(p)
  BY <1>2, <1>3, <1>7 DEF IntegrateFirefox, Fault, Goto, TypeOK
<1>8. CASE StopOnSignal(p) \/ StopOnError(p)
  BY <1>2, <1>3, <1>8 DEF StopOnSignal, StopOnError, BeginUninstall, Fault, Goto, TypeOK
<1>9. CASE Crash(p)
  BY <1>2, <1>9 DEF Crash, Exit, Goto, TypeOK
<1>10. CASE Untrust(p)
  BY <1>2, <1>3, <1>10, Moved DEF Untrust, Fault
<1> QED
  BY <1>4, <1>5, <1>6, <1>7, <1>8, <1>9, <1>10 DEF InstallStep

\* A leaf that is read was signed by the CA it is read with, unless its signer came due.
LEMMA ReadLeafSigned ==
  ASSUME TypeOK, NEW p \in Instances, LeafSigned(p), ReadLeafCert(p) \/ ReadLeafKey(p)
  PROVE  LeafSigned(p)'
<1>1. /\ UNCHANGED <<disk, certs>> /\ at[p] \notin HalfRemoved
      /\ at[p] \in {<<"read", "leafCert">>, <<"read", "leafKey">>}
  BY DEF ReadLeafCert, ReadLeafKey, HalfRemoved
<1>2. CASE Fail(p)
  BY <1>1, <1>2, FailSigned
<1>3. ASSUME at'[p] \in {<<"read", "leafKey">>, <<"generate", "leafCert">>, <<"pair", "leafKey">>},
             LeafInHand(p)'
      PROVE  LeafSigned(p)'
  <2>1. at'[p] \notin RenewCert
    BY <1>3 DEF RenewCert
  <2> QED
    BY <1>1, <1>3, <2>1, SameDueGrows, LeafOnDiskStays DEF LeafSigned
<1>4. CASE at'[p] = <<"generate", "leafCert">>
  BY <1>3, <1>4, NothingInHand DEF LeafSteps, PairedSteps, LeafFiles, Serving
<1>5. CASE Hold(p, "leafCert", disk["leafCert"]) /\ Continue(p, <<"read", "leafKey">>)
  <2>1. held'[p]["leafCert"] = disk["leafCert"] /\ at'[p] = <<"read", "leafKey">>
    BY <1>5, Kept, Moved DEF Files, LeafFiles
  <2>2. LeafInHand(p)'
    BY <1>1, <2>1 DEF LeafInHand, LeafSteps, PairedSteps, LeafFiles, Serving
  <2> QED
    BY <1>3, <2>1, <2>2
<1>6. CASE /\ at[p] = <<"read", "leafKey">> /\ held[p]["leafCert"] \in Keys
           /\ Hold(p, "leafKey", disk["leafKey"]) /\ Continue(p, <<"pair", "leafKey">>)
  <2>1. held'[p]["leafCert"] = held[p]["leafCert"] /\ at'[p] = <<"pair", "leafKey">>
    BY <1>6, Kept, Moved DEF Files, LeafFiles
  <2>2. held[p]["leafCert"] = disk["leafCert"]
    BY <1>6 DEF LeafSigned, LeafInHand
  <2>3. SignedBy(disk["leafCert"], disk["caCert"])
    BY <1>1, <1>6, <2>2, KeysAssumption DEF LeafSigned, LeafOnDisk
  <2>4. LeafInHand(p)'
    BY <1>1, <2>1, <2>2, <2>3 DEF LeafInHand, SignedBy
  <2> QED
    BY <1>3, <2>1, <2>4
<1> QED
  BY <1>2, <1>4, <1>5, <1>6, Moved DEF ReadLeafCert, ReadLeafKey, Fault

\* A leaf that is generated is signed by the CA on the disk.
LEMMA GenerateLeafSigned ==
  ASSUME IInv, NEW p \in Instances, Ordered(p), LeafSigned(p), GenerateLeaf(p)
  PROVE  LeafSigned(p)'
<1>1. /\ UNCHANGED disk /\ at[p] = <<"generate", "leafCert">> /\ TypeOK
      /\ at[p] \notin HalfRemoved
  BY DEF GenerateLeaf, IInv, HalfRemoved
<1>2. CASE Fail(p) /\ UNCHANGED certs
  BY <1>1, <1>2, FailSigned
<1>3. CASE /\ Unused # {} /\ Certify(held[p]["caCert"], hosts[p])
           /\ held' = [held EXCEPT ![p]["leafCert"] = FreshKey, ![p]["leafKey"] = FreshKey]
           /\ Continue(p, <<"cut", "leafCert">>)
  <2>1. DueGrows /\ certs'[FreshKey].signer = held[p]["caCert"]
    BY <1>1, <1>3, CertifyGrows
  <2>2. at'[p] = <<"cut", "leafCert">> /\ held'[p]["leafCert"] = FreshKey
    BY <1>1, <1>3, Moved DEF TypeOK, Files, LeafFiles
  <2>3. held[p]["caCert"] = disk["caCert"]
    BY <1>1 DEF Ordered, HoldsCa, ChooseSteps
  <2>4. LeafInHand(p)'
    BY <1>1, <2>1, <2>2, <2>3 DEF LeafInHand, SignedBy
  <2>5. LeafOnDisk(p)'
    BY <1>1, <2>1, <2>2, LeafOnDiskStays DEF LeafSigned, RenewCert
  <2> QED
    BY <2>4, <2>5 DEF LeafSigned
<1> QED
  BY <1>2, <1>3 DEF GenerateLeaf

\* The leaf that was chosen is the one that is served.
LEMMA ServeSigned ==
  ASSUME IInv, NEW p \in Instances, LeafSigned(p), ServeStep(p) PROVE LeafSigned(p)'
<1>1. /\ UNCHANGED <<disk, certs>> /\ at[p] \notin HalfRemoved /\ TypeOK /\ at[p] \in LeafSteps
  BY DEF ServeStep, PairKeys, Bind, HalfRemoved, IInv, LeafSteps, PairedSteps
<1>2. CASE Fail(p)
  BY <1>1, <1>2, FailSigned
<1>3. ASSUME NEW step \in PairedSteps, Continue(p, step), UNCHANGED held PROVE LeafSigned(p)'
  <2>1. at'[p] = step /\ at'[p] \in LeafSteps /\ at'[p] \notin RenewCert
    BY <1>1, <1>3, Moved DEF LeafSteps, PairedSteps, RenewCert, Serving
  <2> QED
    BY <1>1, <1>3, <2>1, SameDueGrows, LeafOnDiskStays, LeafInHandStays DEF LeafSigned
<1> QED
  BY <1>2, <1>3 DEF ServeStep, PairKeys, Bind, Fault, PairedSteps

\* The uninstall removes the CA with the leaf, and is not interrupted in between.
LEMMA RemovalSigned ==
  ASSUME TypeOK, NEW p \in Instances, Emptied(p), LeafSigned(p), NoSilentFault,
         RemoveAnchor(p) \/ RemoveFromFirefox(p) \/ \E f \in Files : RemoveCredential(p, f)
  PROVE  LeafSigned(p)'
<1>1. certs' = certs
  BY DEF RemoveAnchor, RemoveFromFirefox, RemoveCredential
<1>2. CASE RemoveAnchor(p) \/ RemoveFromFirefox(p)
  <2>1. at[p] \notin HalfRemoved
    BY <1>2 DEF RemoveAnchor, RemoveFromFirefox, HalfRemoved
  <2>2. CASE Fail(p) /\ UNCHANGED disk
    BY <1>1, <2>1, <2>2, FailSigned
  <2>3. ASSUME NEW step \in {<<"forget", "firefox">>, <<"remove", "caCert">>}, Continue(p, step),
               \A f \in CaFiles \cup LeafFiles : disk'[f] = disk[f]
        PROVE  LeafSigned(p)'
    <3>1. at'[p] \notin LeafSteps \cup RenewCert \cup {<<"read", "leafKey">>}
      BY <2>3, Moved DEF LeafSteps, PairedSteps, LeafFiles, Serving, RenewCert
    <3>2. LeafOnDisk(p)'
      BY <1>1, <2>1, <2>3, <3>1 DEF LeafSigned, LeafOnDisk, SignedBy, CaFiles, LeafFiles
    <3> QED
      BY <3>1, <3>2, NothingInHand DEF LeafSigned
  <2> QED
    BY <1>2, <2>2, <2>3 DEF RemoveAnchor, RemoveFromFirefox, Fault, TypeOK, Files, CaFiles, LeafFiles
<1>3. ASSUME NEW f \in Files, RemoveCredential(p, f) PROVE LeafSigned(p)'
  <2>1. /\ at[p] = <<"remove", f>> /\ f \in CaFiles \cup LeafFiles
        /\ disk'[f] = Absent /\ \A g \in Files \ {f} : disk'[g] = disk[g]
    BY <1>3 DEF RemoveCredential, NoSilentFault, TypeOK, Files
  <2>2. at'[p] \in HalfRemoved \cup {<<"remove", "leafKey">>, Off}
    BY <1>3, <2>1, Moved DEF RemoveCredential, AfterRemoval, Exit, Goto, TypeOK, HalfRemoved,
       CaFiles, LeafFiles
  <2>3. LeafInHand(p)'
    BY <2>2, NothingInHand DEF HalfRemoved, Off, LeafSteps, PairedSteps, LeafFiles, Serving
  <2>4. LeafOnDisk(p)'
    <3>1. CASE f \in CaFiles
      <4>1. at'[p] \in HalfRemoved
        BY <1>3, <3>1, Moved DEF RemoveCredential, AfterRemoval, HalfRemoved, CaFiles
      <4> QED
        BY <4>1 DEF LeafOnDisk
    <3>2. CASE f = "leafCert"
      BY <2>1, <3>2 DEF LeafOnDisk
    <3>3. CASE f = "leafKey"
      <4>1. disk'["leafCert"] = Absent
        BY <2>1, <3>3 DEF Emptied, Files, LeafFiles
      <4> QED
        BY <4>1 DEF LeafOnDisk
    <3> QED
      BY <2>1, <3>1, <3>2, <3>3 DEF LeafFiles
  <2> QED
    BY <2>3, <2>4 DEF LeafSigned
<1> QED
  BY <1>2, <1>3

\* Time that passes changes no signer.
LEMMA ComeDueSigned ==
  ASSUME IInv, NEW p \in Instances, LeafSigned(p), NEW k \in Keys, ComeDue(k)
  PROVE  LeafSigned(p)'
<1>1. UNCHANGED <<at, held, disk>> /\ TypeOK
  BY DEF ComeDue, procVars, IInv
<1>2. /\ \A j \in Keys : certs'[j].signer = certs[j].signer
      /\ \A j \in Keys : certs[j].due => certs'[j].due
      /\ \A j \in Keys : certs[j].signer \in Keys
  BY <1>1 DEF ComeDue, TypeOK, Certificate
<1>3. at[p] \in LeafSteps => held[p]["leafCert"] \in Keys
  BY DEF IInv, Local, LeafChosen
<1> QED
  BY <1>1, <1>2, <1>3 DEF LeafSigned, LeafOnDisk, LeafInHand, SignedBy

\* Every step of the one instance, or of time, keeps the leaf signed.
LEMMA NextSigned ==
  ASSUME IInv, NEW p, Alone(p), NoSilentFault, NoneHalfRemoved, Ordered(p), Emptied(p),
         LeafSigned(p), [Next]_vars
  PROVE  LeafSigned(p)'
<1> USE DEF Alone
<1>1. TypeOK /\ p \in Instances
  BY DEF IInv
<1>2. CASE UNCHANGED vars
  BY <1>2 DEF vars, LeafSigned, LeafOnDisk, LeafInHand, SignedBy
<1>3. CASE \E k \in Keys : ComeDue(k)
  BY <1>1, <1>3, ComeDueSigned
<1>4. CASE EnsureStep(p)
  BY <1>1, <1>4, ReadCaCertSigned, ReadCaKeySigned, GenerateCaSigned DEF EnsureStep
<1>5. CASE WriteStep(p)
  BY <1>1, <1>5, TruncateFileSigned, FillFileSigned DEF WriteStep
<1>6. CASE \/ Start(p) \/ InstallStep(p) \/ StopOnSignal(p) \/ StopOnError(p) \/ Crash(p)
           \/ Untrust(p)
  BY <1>1, <1>6, BesideSigned
<1>7. CASE IssueStep(p)
  BY <1>1, <1>7, ReadLeafSigned, GenerateLeafSigned DEF IssueStep
<1>8. CASE ServeStep(p)
  BY <1>1, <1>8, ServeSigned
<1>9. CASE RemoveAnchor(p) \/ RemoveFromFirefox(p) \/ \E f \in Files : RemoveCredential(p, f)
  BY <1>1, <1>9, RemovalSigned
<1> QED
  BY <1>2, <1>3, <1>4, <1>5, <1>6, <1>7, <1>8, <1>9 DEF Next, ProgramStep, UninstallStep

\* The leaf on the disk, and the one in hand, belong to the CA on the disk, in every state.
LEMMA SignedInvariance ==
  ASSUME NEW p, Alone(p), NoSilentFault, NoneHalfRemoved PROVE Spec => []LeafSigned(p)
<1>1. Init => LeafSigned(p)
  BY DEF Init, LeafSigned, LeafOnDisk, LeafInHand, NothingHeld, Alone, Off, LeafSteps,
     PairedSteps, LeafFiles, Serving, Files
<1>2. IInv /\ Ordered(p) /\ Emptied(p) /\ LeafSigned(p) /\ [Next]_vars => LeafSigned(p)'
  BY NextSigned
<1> QED
  BY <1>1, <1>2, Invariance, OrderInvariance, EmptiedInvariance, PTL DEF Spec

\* A certificate that is served was signed by a trusted CA, unless one came due.
LEMMA SignedIsTrusted ==
  ASSUME IInv, NEW p, Alone(p), Ordered(p), LeafSigned(p) PROVE LeafTrustedUnlessDue
<1> SUFFICES ASSUME IsServing(p)
             PROVE  \/ LeafTrusted(p)
                    \/ LapsedCas # {}
                    \/ certs[certs[held[p]["leafCert"]].signer].due
  BY DEF LeafTrustedUnlessDue, Alone
<1>1. at[p] = Serving /\ p \in Instances /\ TypeOK
  BY DEF IsServing, Alone, IInv
<1>2. stage[p] = "serve"
  BY <1>1, ServingStage DEF Ordered
<1>3. disk["anchor"] \in trust /\ trust \subseteq Keys
  BY <1>1, <1>2 DEF Ordered, Anchored, TypeOK
<1>4. SignedBy(held[p]["leafCert"], disk["caCert"])
  BY <1>1 DEF LeafSigned, LeafInHand, LeafSteps, PairedSteps
<1>5. CASE certs[disk["anchor"]].due
  BY <1>3, <1>5 DEF LapsedCas
<1>6. CASE ~certs[disk["anchor"]].due
  <2>1. disk["anchor"] = disk["caCert"]
    BY <1>3, <1>6 DEF Ordered, CurrentOnDisk, Current
  <2> QED
    BY <1>3, <1>4, <2>1 DEF SignedBy, LeafTrusted
<1> QED
  BY <1>5, <1>6

\* While the single instance serves, the CA that signed its certificate is in the trust
\* store, unless that CA or one in the store came due (LeafTrustedUnlessDue): no failed
\* command and no kill outside the removal of the CA files undoes it.
THEOREM ServedLeafAccepted ==
  ASSUME NEW p, Alone(p), NoSilentFault, NoneHalfRemoved PROVE Spec => []LeafTrustedUnlessDue
<1>1. IInv /\ Ordered(p) /\ LeafSigned(p) => LeafTrustedUnlessDue
  BY SignedIsTrusted
<1> QED
  BY <1>1, Invariance, OrderInvariance, SignedInvariance, PTL
====
