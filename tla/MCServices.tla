------------------------------ MODULE MCServices ------------------------------
(***************************************************************************)
(* Two domains, "bc" and its subdomain "abc", so that a host can match one *)
(* or both; two hosts, and two routes of which one is below the other.     *)
(***************************************************************************)
EXTENDS Services, TLC

MCToken == {"a", "b", "c", "/", "p"}

Short == <<"b", "c">>
Long  == <<"a", "b", "c">>
Root  == <<"/">>
Sub   == <<"/", "p">>

Reg(d, h, p) == [domain |-> d, host |-> h, prefix |-> p]

MCPreauthed == {Reg(Long, Short, Root), Reg(Long, Short, Sub), Reg(Short, Short, Root)}

MCRequest ==
  {[host |-> Short, path |-> Sub], [host |-> Short, path |-> Root],
   [host |-> NoAuthority, path |-> Root]}

MCConfigs  == {<<Short, Long>>, <<Short>>}
MCSecretOf == (Short :> "s") @@ (Long :> "l")

(* A service of the host "abc" below the configured domain "bc".           *)
SubPreauthed == {Reg(Short, Long, Root)}
SubRequest   == {[host |-> Long, path |-> Root]}
SubConfigs   == {<<Short>>}

Symmetry == Permutations(Conn)

===============================================================================
