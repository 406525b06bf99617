---------------------------- MODULE MCLoadBalancer ----------------------------
(***************************************************************************)
(* A small load balancer for TLC: one configured domain "ab", a host "b"   *)
(* under it with the routes "/" and "/p", and a client that asks for a     *)
(* path both routes match, or for PATH_NODE_REGISTER ("/r").               *)
(***************************************************************************)
EXTENDS LoadBalancer, TLC

MCToken == {"a", "b", "/", "p", "r"}

Host    == <<"b">>
Domain  == <<"a", "b">>
Other   == <<"b", "b">>
Root    == [domain |-> Domain, host |-> Host, prefix |-> <<"/">>]
Sub     == [domain |-> Domain, host |-> Host, prefix |-> <<"/", "p">>]

MCPreauthed    == {Root, Sub}
OneRoute       == {Sub}
MCNodeRegister == <<"/", "r">>
MCRequest      == {[host |-> Host, path |-> p] : p \in {<<"/", "p">>, MCNodeRegister}}
MCSecretOf     == (Domain :> "good") @@ (Other :> "good")

(* The two configurations that a restart chooses from: the domain, and another one. *)
TwoConfigs == {<<Domain>>, <<Other>>}

===============================================================================
