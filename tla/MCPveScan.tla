------------------------------ MODULE MCPveScan ------------------------------
(* PveScan on two keys and two nodes, each on its own or as a cluster: a   *)
(* container that moves and disappears, a virtual machine and a container  *)
(* that may get the MAC or lose it.                                        *)
EXTENDS PveScan, TLC

CONSTANTS k1, k2, n1, n2, v1, v2, v3, yes, no

MCShapes ==
       v1 :> ([node : {n1, n2}, type : {"lxc"}, running : BOOLEAN, conf : {yes, no}]
              \cup {None})
    @@ v2 :> [node : {n2}, type : {"qemu"}, running : {TRUE}, conf : {yes, no}]
    @@ v3 :> [node : {n2}, type : {"lxc"}, running : {FALSE}, conf : {yes, no}]

(* Each API lists its own node; each lists the cluster. *)
MCViews == {k1 :> {n1} @@ k2 :> {n2}, k1 :> {n1, n2} @@ k2 :> {n1, n2}}

=============================================================================
