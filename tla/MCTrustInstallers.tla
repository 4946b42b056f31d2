---- MODULE MCTrustInstallers ----
(* TrustInstallers with two profiles: the constants of the .cfg files. *)
EXTENDS TrustInstallers

CONSTANTS f1, f2

TwoProfiles  == {f1, f2}
AllPlatforms == {"linux", "darwin", "windows", "other"}
OnLinux      == {"linux"}
AllFaults    == FaultKinds
NoFaults     == {}
====
