---- MODULE TrustChange ----
(***************************************************************************)
(* What a trust store installer promises its caller, whatever the platform *)
(* and the browsers on it: a call moves trust in its own direction only,   *)
(* the operating system first and the browsers after it, and it reports    *)
(* success only when the operating system's store is as asked for.         *)
(***************************************************************************)
VARIABLES
    trusted,  \* the operating system's store holds the development CA
    imported, \* the browser profiles that hold it themselves
    call,     \* "none", "install" or "uninstall"
    outcome   \* how the last call ended

Init == ~trusted /\ imported = {} /\ call = "none" /\ outcome = "none"

Begin == /\ call = "none"
         /\ call' \in {"install", "uninstall"}
         /\ outcome' = "none"
         /\ UNCHANGED <<trusted, imported>>

Trust == call = "install" /\ trusted' = TRUE /\ UNCHANGED <<imported, call, outcome>>
Untrust == call = "uninstall" /\ trusted' = FALSE /\ UNCHANGED <<imported, call, outcome>>

\* one profile at a time
Import == /\ call = "install" /\ trusted
          /\ imported \subseteq imported'
          /\ \A p, q \in imported' \ imported : p = q
          /\ UNCHANGED <<trusted, call, outcome>>

\* by an uninstall, or with the profile it is in
Forget == /\ imported' \subseteq imported
          /\ call = "none" \/ (call = "uninstall" /\ ~trusted)
          /\ UNCHANGED <<trusted, call, outcome>>

Succeed == /\ call # "none"
           /\ trusted = (call = "install")
           /\ outcome' = "ok" /\ call' = "none"
           /\ UNCHANGED <<trusted, imported>>

Abort == outcome' \in {"error", "killed"} /\ call' = "none" /\ UNCHANGED <<trusted, imported>>

Next == Begin \/ Trust \/ Untrust \/ Import \/ Forget \/ Succeed \/ Abort

Spec == Init /\ [][Next]_<<trusted, imported, call, outcome>>
====
