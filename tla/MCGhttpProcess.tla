---- MODULE MCGhttpProcess ----
(* GhttpProcess on a small instance: the constants of the .cfg file. *)
EXTENDS GhttpProcess

CONSTANTS c1, c2

TwoConns == {c1, c2}

Nothing == [logging |-> Unset, https |-> Unset, port |-> Unset]

\* a positional argument stands for the flag of the port
OfPort == {from \in [Sources -> {"valid", "invalid", Unset}] : from["flag"] = Unset}

\* the environment cannot give an empty value
OfLogging == {from \in [Sources -> Logging \cup {"", "XML", Unset}] : from["env"] # ""}

\* Every combination of logging types; and every combination of switches for
\* dynamic HTTPS and ports, which decide together on the default port.
SomeSettings ==
    {[s \in Sources |-> [Nothing EXCEPT !.logging = type[s]]] : type \in OfLogging}
    \cup {[s \in Sources |-> [Nothing EXCEPT !.https = setting[1][s], !.port = setting[2][s]]] :
             setting \in [Sources -> {TRUE, FALSE, Unset}] \X OfPort}

AllArguments == {"none", "port", "page", "other"}
====
