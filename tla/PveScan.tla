------------------------------- MODULE PveScan -------------------------------
(***************************************************************************)
(* core/proxmox.go: FindByMAC, one request to a Proxmox API a step, while  *)
(* the owners of the guests start, stop, retag, move, delete and replace   *)
(* them.  Engine has the whole search as one step; this module shows what  *)
(* may be behind it.                                                       *)
(*                                                                         *)
(* One search at a time: a search keeps nothing between calls and two do   *)
(* not share anything.  The listing of a key is read once and each config  *)
(* later, from the node the listing named.                                 *)
(***************************************************************************)
EXTENDS Naturals

CONSTANTS
    Keys,         \* keys of the node configuration
    RealNodes,    \* names of the nodes in Proxmox
    Views,        \* the possible values of sees
    VMIDs,
    Confs,        \* what the config of a guest says: its MACs and its tags
    Wanted,       \* members of Confs with the MAC and a port or caddy tag
    Shapes,       \* Shapes[v]: the states guest v may be put in
    MaxChanges,   \* bound: changes of guests during one search
    Faulty,       \* TRUE if requests may fail for no reason
    None          \* "nothing there"

Guests == [node : RealNodes, type : {"lxc", "qemu"}, running : BOOLEAN, conf : Confs]

Entries == [id : VMIDs, node : RealNodes, type : {"lxc", "qemu"}, running : BOOLEAN]

Answers == [key : Keys, entry : Entries, conf : Confs]

ASSUME ScanAssumption ==
    /\ Views \subseteq [Keys -> SUBSET RealNodes]
    /\ Wanted \subseteq Confs
    /\ Shapes \in [VMIDs -> SUBSET (Guests \cup {None})]
    /\ MaxChanges \in Nat
    /\ None \notin Guests \cup Answers

VARIABLES
    guest,      \* guest[v]: guest v in Proxmox
    sees,       \* sees[k]: the nodes whose guests the API at key k lists
    pc,         \* "idle", "keys" (FindByMAC), "guests" (scanNode), "done"
    toAsk,      \* keys still to be asked
    key,        \* the key whose listing is being worked through
    queue,      \* the entries of that listing still to be looked at
    answer,     \* what the search returns
    steady,     \* history: guests that could be found ever since it began
    was,        \* history: the statuses guests have had since it began
    lost,       \* history: key and guest of failed requests
    changes     \* bound: how often a guest has changed since it began

search  == <<pc, toAsk, key, queue, answer>>
history == <<steady, was, lost, changes>>
vars    == <<guest, sees, search, history>>

Init ==
    /\ guest \in {g \in [VMIDs -> Guests \cup {None}] : \A v \in VMIDs : g[v] \in Shapes[v]}
    /\ sees \in Views
    /\ pc = "idle"
    /\ toAsk = {}
    /\ key = None
    /\ queue = {}
    /\ answer = None
    /\ steady = {}
    /\ was = {}
    /\ lost = {}
    /\ changes = 0

(***************************************************************************)
(* The search                                                              *)
(***************************************************************************)

Exists(v) == guest[v] # None

(* FindByMAC is called. *)
Begin ==
    /\ pc = "idle"
    /\ pc' = "keys"
    /\ toAsk' = Keys
    /\ steady' = {v \in VMIDs : Exists(v) /\ guest[v].conf \in Wanted}
    /\ was' = {<<v, guest[v].running>> : v \in {u \in VMIDs : Exists(u)}}
    /\ lost' = {}
    /\ changes' = 0
    /\ UNCHANGED <<guest, sees, key, queue, answer>>

(* GET /cluster/resources at key k, taken for a live reading: the seconds  *)
(* by which Proxmox's own listing may lag behind its guests are left out.  *)
Listed(k) ==
    {[id |-> v, node |-> guest[v].node, type |-> guest[v].type,
      running |-> guest[v].running] :
        v \in {u \in VMIDs : Exists(u) /\ guest[u].node \in sees[k]}}

(* A bug: the keys are a work list from which nothing is taken. *)
AskedAgain(k) ==
    /\ pc = "keys"
    /\ UNCHANGED toAsk

Asked(k) ==
    /\ pc = "keys"
    /\ toAsk' = toAsk \ {k}

(* The keys are asked in no fixed order: Nodes is a map. *)
List(k) ==
    /\ Asked(k)
    /\ key' = k
    /\ queue' = Listed(k)
    /\ pc' = "guests"
    /\ UNCHANGED <<guest, sees, answer, history>>

(* No answer, an error, or one that cannot be parsed: on to the next key.  *)
ListFails(k) ==
    /\ Asked(k)
    /\ Faulty
    /\ lost' = lost \cup {<<k, v>> : v \in VMIDs}
    /\ UNCHANGED <<guest, sees, pc, key, queue, answer, steady, was, changes>>

(* A bug: the entries are taken as they come. *)
AnyEntry == queue

(* The entries that may be next: lxc before qemu. *)
NextEntries ==
    {e \in queue : e.type = "qemu" => \A f \in queue : f.type = "qemu"}

(* GET /nodes/<node>/<type>/<vmid>/config finds the guest where it was.    *)
InPlace(e) ==
    /\ Exists(e.id)
    /\ guest[e.id].node = e.node
    /\ guest[e.id].type = e.type

(* A bug: the status is looked for in the config, which has none. *)
MatchNoStatus(e) ==
    /\ pc = "guests"
    /\ e \in NextEntries
    /\ InPlace(e)
    /\ guest[e.id].conf \in Wanted
    /\ answer' = [key |-> key, entry |-> [e EXCEPT !.running = FALSE],
                  conf |-> guest[e.id].conf]
    /\ pc' = "done"
    /\ UNCHANGED <<guest, sees, toAsk, key, queue, history>>

(* matchGuest: the config says that this is the guest.  Its status is that *)
(* of the listing, which may have changed since.                           *)
Match(e) ==
    /\ pc = "guests"
    /\ e \in NextEntries
    /\ InPlace(e)
    /\ guest[e.id].conf \in Wanted
    /\ answer' = [key |-> key, entry |-> e, conf |-> guest[e.id].conf]
    /\ pc' = "done"
    /\ UNCHANGED <<guest, sees, toAsk, key, queue, history>>

(* Another MAC, or neither a port tag nor the caddy tag. *)
Skip(e) ==
    /\ pc = "guests"
    /\ e \in NextEntries
    /\ InPlace(e)
    /\ guest[e.id].conf \notin Wanted
    /\ queue' = queue \ {e}
    /\ UNCHANGED <<guest, sees, pc, toAsk, key, answer, history>>

(* A bug: one guest whose config cannot be read ends the scan of the node. *)
ConfigFailsNode(e) ==
    /\ pc = "guests"
    /\ e \in NextEntries
    /\ Faulty \/ ~ InPlace(e)
    /\ queue' = {}
    /\ lost' = lost \cup {<<key, e.id>>}
    /\ UNCHANGED <<guest, sees, pc, toAsk, key, answer, steady, was, changes>>

(* The config cannot be read: the guest is passed over. *)
ConfigFails(e) ==
    /\ pc = "guests"
    /\ e \in NextEntries
    /\ Faulty \/ ~ InPlace(e)
    /\ queue' = queue \ {e}
    /\ lost' = lost \cup {<<key, e.id>>}
    /\ UNCHANGED <<guest, sees, pc, toAsk, key, answer, steady, was, changes>>

(* scanNode has found nothing at this key. *)
NextKey ==
    /\ pc = "guests"
    /\ queue = {}
    /\ pc' = "keys"
    /\ UNCHANGED <<guest, sees, toAsk, key, queue, answer, history>>

(* FindByMAC returns "не найден нигде". *)
NotFound ==
    /\ pc = "keys"
    /\ toAsk = {}
    /\ pc' = "done"
    /\ UNCHANGED <<guest, sees, toAsk, key, queue, answer, history>>

(* A bug: the container found is kept for the next call. *)
ReturnRemembers ==
    /\ pc = "done"
    /\ pc' = "idle"
    /\ key' = None
    /\ UNCHANGED <<guest, sees, toAsk, queue, answer, history>>

(* The caller takes the answer.  What is left of the listing and of the    *)
(* keys goes with the call.                                                *)
Return ==
    /\ pc = "done"
    /\ pc' = "idle"
    /\ toAsk' = {}
    /\ key' = None
    /\ queue' = {}
    /\ answer' = None
    /\ steady' = {}
    /\ was' = {}
    /\ lost' = {}
    /\ changes' = 0
    /\ UNCHANGED <<guest, sees>>

(***************************************************************************)
(* Proxmox                                                                 *)
(***************************************************************************)

(* The guest stays where a search that goes on will find it. *)
StaysFindable(v, g) ==
    /\ g # None
    /\ g.node = guest[v].node
    /\ g.type = guest[v].type
    /\ g.conf \in Wanted

(* The owner of guest v does something to it. *)
Change(v) ==
    /\ changes < MaxChanges
    /\ \E g \in Shapes[v] \ {guest[v]} :
         /\ guest' = [guest EXCEPT ![v] = g]
         /\ steady' = {u \in steady : u # v \/ StaysFindable(v, g)}
         /\ was' = IF g = None THEN was ELSE was \cup {<<v, g.running>>}
    /\ changes' = changes + 1
    /\ UNCHANGED <<sees, search, lost>>

Step ==
    \/ \E k \in toAsk : List(k) \/ ListFails(k)
    \/ \E e \in queue : Match(e) \/ Skip(e) \/ ConfigFails(e)
    \/ NextKey \/ NotFound \/ Return

Next == Begin \/ Step \/ \E v \in VMIDs : Change(v)

Spec == Init /\ [][Next]_vars

(* The HTTP client has a timeout, so every request of a search ends.  *)
FairSpec == Spec /\ WF_vars(Step)

(***************************************************************************)
(* Properties                                                              *)
(***************************************************************************)

(* Every variable has its type, and nothing of one search is left for the  *)
(* next.                                                                   *)
TypeOK ==
    /\ guest \in [VMIDs -> Guests \cup {None}]
    /\ sees \in Views
    /\ pc \in {"idle", "keys", "guests", "done"}
    /\ toAsk \subseteq Keys
    /\ key \in Keys \cup {None}
    /\ queue \subseteq Entries
    /\ answer \in Answers \cup {None}
    /\ steady \subseteq VMIDs
    /\ was \subseteq VMIDs \X BOOLEAN
    /\ lost \subseteq Keys \X VMIDs
    /\ changes \in 0..MaxChanges
    /\ answer # None => pc = "done"
    /\ pc = "idle" => toAsk = {} /\ queue = {} /\ key = None

(* If the search says that no guest has the MAC, then each guest that had  *)
(* it, and its tags, and its place all the while was missed for a reason:  *)
(* at every key whose API lists it, a request for the listing or for its   *)
(* config has failed.  One broken key or guest hides nothing else          *)
(* (proxmox.go:113-118, 162-164).                                          *)
NotFoundExplained ==
    pc = "done" /\ answer = None =>
        \A v \in steady, k \in Keys : guest[v].node \in sees[k] => <<k, v>> \in lost

(* Of the guests one key lists a virtual machine is answered only if no    *)
(* container could be: every container that had the MAC all the while had  *)
(* a failing request (proxmox.go:123-124, 147).                            *)
LxcFirst ==
    pc = "done" /\ answer # None /\ answer.entry.type = "qemu" =>
        \A v \in steady :
            guest[v].type = "lxc" /\ guest[v].node \in sees[answer.key] =>
                <<answer.key, v>> \in lost

(* The status in the answer, on which Deprovision decides whether the      *)
(* guest may be taken apart (engine.go:180), may be out of date, but it is *)
(* none that Proxmox listed before the search began: the guest has had it  *)
(* since, if Proxmox's listing is live (Listed).                           *)
StatusWasTrue ==
    pc = "done" /\ answer # None => <<answer.entry.id, answer.entry.running>> \in was

(* Every search comes to an end, whatever fails and however the guests     *)
(* change (proxmox.go:112-120).                                            *)
EverySearchEnds == pc # "idle" ~> pc = "idle"

=============================================================================
