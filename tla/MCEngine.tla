------------------------------ MODULE MCEngine ------------------------------
(* Engine on small instances.  99 and 100 are good container numbers with  *)
(* VMIDBase 98; 354 gives the octet 256.                                   *)
EXTENDS Engine, TLC

CONSTANTS w1, w2, m1, m2, m3, n1, n2, f1, f2, a, b

MCConfs == {a, b, CaddyTag, NoTag}

(* A host file for each node key: their subnets differ. *)
MCNodeFile == [id \in Ids |-> IF id[2] = n1 THEN f1 ELSE f2]

Guest(mac, running, conf) == [mac |-> mac, running |-> running, conf |-> conf]

Provision(mac)   == [op |-> "provision", mac |-> mac, dnsOnly |-> FALSE]
Provisions(mac)  == {[op |-> "provision", mac |-> mac, dnsOnly |-> d] : d \in BOOLEAN}
Deprovision(mac) == [op |-> "deprovision", mac |-> mac]
Replay           == [op |-> "replay"]

(* One worker that is asked everything; a container that is started,       *)
(* stopped, stripped of its tags or replaced by one with another MAC and   *)
(* other tags under the same number, and a Caddy container.                *)
OneVMIDs   == {99, 100, 354}
OneListing == [v \in OneVMIDs |-> {n1}]
OneShapes  ==
       99 :> {Guest(m1, TRUE, a), Guest(m1, FALSE, a), Guest(m1, FALSE, NoTag),
              Guest(m3, FALSE, b)}
    @@ 100 :> {Guest(m2, FALSE, CaddyTag)}
    @@ 354 :> {Guest(m3, FALSE, a)}
OneAsks ==
    w1 :> Provisions(m1) \cup {Provision(m2), Provision(m3),
                               Deprovision(m1), Deprovision(m2), Replay}
OneFaults == {"pve", "addHost", "findFile", "deleteHost", "reload", "caddy",
              "state", "crash", "reset"}

(* Two workers at the same time, on two containers of one node that do not *)
(* change: requests for different containers, for the same one, and a      *)
(* replay.                                                                 *)
TwoVMIDs   == {99, 100}
TwoListing == [v \in TwoVMIDs |-> {n1}]
TwoShapes  == 99 :> {Guest(m1, FALSE, a)} @@ 100 :> {Guest(m2, FALSE, b)}
TwoAsks    ==    w1 :> {Provision(m1), Deprovision(m1)}
              @@ w2 :> {Provision(m2), Deprovision(m1), Replay}

(* A worker that serves the owner of one container beside one that         *)
(* replays.                                                                *)
ReplayAsks ==    w1 :> {Provision(m1), Deprovision(m1)}
              @@ w2 :> {Replay}

(* A cluster: the API of either configured node lists the container.       *)
ClusterVMIDs   == {99}
ClusterListing == 99 :> {n1, n2}
ClusterShapes  == 99 :> {Guest(m1, FALSE, a)}
ClusterAsks    == w1 :> {Provision(m1), Deprovision(m1)}

(* The other instances are of the kind the theorems are about.             *)
ASSUME OneKeyOneFile == Asks = ClusterAsks \/ (OneFile /\ OneKey)

=============================================================================
