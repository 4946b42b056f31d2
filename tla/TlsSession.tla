---- MODULE TlsSession ----
(***************************************************************************)
(* What the dynamic HTTPS lifecycle promises the machine it runs on, with  *)
(* the certificates, files and steps left out: the order in which          *)
(* credentials appear, are trusted, are served with and disappear again.   *)
(***************************************************************************)
VARIABLES
    material, \* some credential file exists
    trusted,  \* the trust store accepts a development CA that is not due
    lapsed,   \* the trust store accepts one that is due for renewal
    serving   \* a server offers a development certificate

session == <<material, trusted, lapsed, serving>>

Init == ~material /\ ~trusted /\ ~lapsed /\ ~serving

Provide == ~serving /\ material' = TRUE /\ UNCHANGED <<trusted, lapsed, serving>>

\* a CA is only trusted while its files are there to remove it by
Trust == /\ ~serving /\ material
         /\ \/ trusted' = TRUE /\ UNCHANGED lapsed
            \/ lapsed' = TRUE /\ UNCHANGED trusted
         /\ UNCHANGED <<material, serving>>

Lapse == trusted /\ trusted' \in BOOLEAN /\ lapsed' = TRUE /\ UNCHANGED <<material, serving>>

Serve == material /\ (trusted \/ lapsed) /\ serving' = TRUE /\ UNCHANGED <<material, trusted, lapsed>>

Stop == serving /\ serving' = FALSE /\ UNCHANGED <<material, trusted, lapsed>>

\* trust is withdrawn only after serving, files go only after trust
Revoke == /\ ~serving
          /\ \/ trusted' = FALSE /\ UNCHANGED lapsed
             \/ lapsed' = FALSE /\ UNCHANGED trusted
          /\ UNCHANGED <<material, serving>>

Discard == ~serving /\ ~trusted /\ material' = FALSE /\ UNCHANGED <<trusted, lapsed, serving>>

Next == Provide \/ Trust \/ Lapse \/ Serve \/ Stop \/ Revoke \/ Discard

Spec == Init /\ [][Next]_session
====
