---- MODULE MCHttpsLifecycle ----
(* HttpsLifecycle on small instances: the constants of the .cfg files. *)
EXTENDS HttpsLifecycle, TLC

CONSTANTS p1, p2, k1, k2, k3, k4, k5, k6, k7, r1, r2

OneInstance  == {p1}
TwoInstances == {p1, p2}
ThreeKeys    == {k1, k2, k3}
FourKeys     == {k1, k2, k3, k4}
FiveKeys     == {k1, k2, k3, k4, k5}
SevenKeys    == {k1, k2, k3, k4, k5, k6, k7}
OneRequest   == {r1}
TwoRequests  == {r1, r2}

NoFaults     == {}
\* the fault a run does not report: what it should remove stays
SilentFaults == {"remove"}
\* every fault that is reported, that of deleting the anchor copy included: an ignored removal
\* error leaves files behind a run that reports success
LoudFaults   == FaultKinds \ {"remove"}

NoStep       == {}
EveryStep    == Steps
\* killed here, a process has removed the CA certificate but not yet the leaf
\* certificate it signed
HalfRemoved  == {<<"remove", "caKey">>, <<"remove", "leafCert">>}
OutsideHalfRemoved == Steps \ HalfRemoved
\* killed here, a process leaves a truncated CA file
CaTruncated  == {<<"fill", f>> : f \in CaFiles}
OutsideCaTruncated == Steps \ CaTruncated

\* instances run the same program, and nothing looks into a host list
Symmetry == Permutations(Instances) \cup Permutations(Requests)
====
