---------------------------- MODULE PveScanProofs ----------------------------
(***************************************************************************)
(* Proofs about PveScan for every set of keys, nodes and guests and any    *)
(* number of changes during a search: the types, why a guest can be        *)
(* missed, that containers go first, how old the status may be.            *)
(***************************************************************************)
EXTENDS PveScan, TLAPS

(***************************************************************************)
(* The inductive invariant                                                 *)
(***************************************************************************)

(* The key whose listing is worked through has been taken off; between two *)
(* keys no entry is left, and a search without an answer has asked all.    *)
Progress ==
    /\ pc = "guests" => key \in Keys \ toAsk
    /\ pc = "keys" => queue = {}
    /\ pc = "done" /\ answer = None => toAsk = {} /\ queue = {}

(* A guest that could be found all the while can be found now. *)
Findable == \A v \in steady : Exists(v) /\ guest[v].conf \in Wanted

(* The status of each guest, as it is and as it was listed, is one it has  *)
(* had since the search began.                                             *)
Recent ==
    pc # "idle" =>
        /\ \A v \in VMIDs : Exists(v) => <<v, guest[v].running>> \in was
        /\ \A e \in queue : <<e.id, e.running>> \in was

(* An entry of the listing that still tells where v is. *)
Waiting(v) ==
    \E e \in queue : e.id = v /\ e.node = guest[v].node /\ e.type = guest[v].type

(* Where a guest that could be found all the while is not found, the       *)
(* search is not there yet, or a request has failed.                       *)
Scanned ==
    pc # "idle" =>
        \A v \in steady, k \in Keys :
            guest[v].node \in sees[k] =>
                k \in toAsk \/ <<k, v>> \in lost \/ (key = k /\ Waiting(v))

IInv == TypeOK /\ Progress /\ Findable /\ Recent /\ Scanned /\ LxcFirst /\ StatusWasTrue

(* No search is on at first. *)
LEMMA InitIInv == Init => IInv
BY ScanAssumption
   DEF Init, IInv, TypeOK, Progress, Findable, Recent, Scanned, LxcFirst, StatusWasTrue

(* A search begins with all keys and no entry. *)
LEMMA BeginKeeps ==
    ASSUME IInv, Begin
    PROVE  IInv'
<1> USE DEF IInv, TypeOK, Begin
<1>1. was' \subseteq VMIDs \X BOOLEAN
  BY DEF Guests, Exists
<1>2. TypeOK'
  BY <1>1, ScanAssumption
<1>3. Progress' /\ Findable' /\ Scanned'
  BY DEF Progress, Findable, Scanned, Exists
<1>4. Recent'
  BY DEF Recent, Exists
<1>5. LxcFirst' /\ StatusWasTrue'
  BY DEF LxcFirst, StatusWasTrue
<1> QED
  BY <1>2, <1>3, <1>4, <1>5

(* A listing has an entry for each guest on the nodes the API sees. *)
LEMMA ListKeeps ==
    ASSUME IInv, NEW k \in toAsk, List(k)
    PROVE  IInv'
<1> USE DEF IInv, TypeOK, List, Asked, history
<1>1. \A e \in Listed(k) : /\ e \in Entries
                           /\ Exists(e.id)
                           /\ e.running = guest[e.id].running
  BY DEF Listed, Exists, Entries, Guests
<1>2. TypeOK'
  BY <1>1
<1>3. Progress' /\ Findable'
  BY DEF Progress, Findable, Exists
<1>4. Recent'
  BY <1>1 DEF Recent, Exists, Entries
<1>5. Scanned'
  <2> SUFFICES ASSUME NEW v \in steady, NEW j \in Keys, guest[v].node \in sees[j],
                      j \notin toAsk', <<j, v>> \notin lost
               PROVE  key' = j /\ Waiting(v)'
    BY DEF Scanned, Waiting
  <2>1. j = k
    BY DEF Scanned, Waiting, Progress
  <2>2. [id |-> v, node |-> guest[v].node, type |-> guest[v].type,
         running |-> guest[v].running] \in Listed(k)
    BY <2>1 DEF Listed, Findable, Exists
  <2> QED
    BY <2>1, <2>2 DEF Waiting
<1>6. LxcFirst' /\ StatusWasTrue'
  BY DEF LxcFirst, StatusWasTrue
<1> QED
  BY <1>2, <1>3, <1>4, <1>5, <1>6

(* A key whose listing fails is noted for all guests. *)
LEMMA ListFailsKeeps ==
    ASSUME IInv, NEW k \in toAsk, ListFails(k)
    PROVE  IInv'
<1> USE DEF IInv, TypeOK, ListFails, Asked
<1>1. TypeOK'
  OBVIOUS
<1>2. Progress' /\ Findable' /\ Recent'
  BY DEF Progress, Findable, Recent, Exists
<1>3. Scanned'
  BY DEF Scanned, Waiting
<1>4. LxcFirst' /\ StatusWasTrue'
  BY DEF LxcFirst, StatusWasTrue
<1> QED
  BY <1>1, <1>2, <1>3, <1>4

(* The answer is an entry of the listing at hand; when it is a virtual     *)
(* machine no container is left in it.                                     *)
LEMMA MatchKeeps ==
    ASSUME IInv, NEW e \in queue, Match(e)
    PROVE  IInv'
<1> USE DEF IInv, TypeOK, Match, history
<1>0. answer' \in Answers
  <2>1. guest[e.id] \in Guests
    BY DEF InPlace, Exists, Entries
  <2> QED
    BY <2>1 DEF Progress, Answers, Guests
<1>1. TypeOK'
  BY <1>0
<1>2. Progress' /\ Findable' /\ Recent'
  BY <1>0, ScanAssumption DEF Progress, Findable, Recent, Exists
<1>3. Scanned'
  BY DEF Scanned, Waiting
<1>4. LxcFirst'
  <2> SUFFICES ASSUME e.type = "qemu", NEW v \in steady, guest[v].type = "lxc",
                      guest[v].node \in sees[key]
               PROVE  <<key, v>> \in lost
    BY DEF LxcFirst
  <2>1. \A f \in queue : f.type = "qemu"
    BY DEF NextEntries
  <2> QED
    BY <2>1 DEF Scanned, Progress, Waiting
<1>5. StatusWasTrue'
  BY DEF StatusWasTrue, Recent
<1> QED
  BY <1>1, <1>2, <1>3, <1>4, <1>5

(* Taking an entry off is noted unless the guest is not looked for. *)
LEMMA EntryKeeps ==
    ASSUME IInv, NEW e \in queue, Skip(e) \/ ConfigFails(e)
    PROVE  IInv'
<1> USE DEF IInv, TypeOK
<1>0. /\ pc = "guests" /\ queue' = queue \ {e}
      /\ UNCHANGED <<guest, sees, pc, toAsk, key, answer, steady, was, changes>>
  BY DEF Skip, ConfigFails, history
<1>1. lost \subseteq lost' /\ lost' \subseteq Keys \X VMIDs
  BY DEF Skip, ConfigFails, history, Progress, Entries
<1>2. TypeOK' /\ Progress' /\ Findable' /\ Recent'
  BY <1>0, <1>1 DEF Progress, Findable, Recent, Exists
<1>3. Scanned'
  <2> SUFFICES ASSUME NEW v \in steady, NEW k \in Keys, guest[v].node \in sees[k],
                      k \notin toAsk, <<k, v>> \notin lost'
               PROVE  key = k /\ Waiting(v)'
    BY <1>0 DEF Scanned, Waiting
  <2>1. key = k /\ Waiting(v)
    BY <1>0, <1>1 DEF Scanned
  <2>2. e.id # v
    BY <2>1 DEF Skip, ConfigFails, Findable
  <2> QED
    BY <1>0, <2>1, <2>2 DEF Waiting
<1>4. LxcFirst' /\ StatusWasTrue'
  BY <1>0 DEF LxcFirst, StatusWasTrue
<1> QED
  BY <1>2, <1>3, <1>4

(* A change of a guest takes it out of steady unless it stays where the    *)
(* search will find it.                                                    *)
LEMMA ChangeKeeps ==
    ASSUME IInv, NEW u \in VMIDs, Change(u)
    PROVE  IInv'
<1> USE DEF IInv, TypeOK
<1>0. /\ UNCHANGED <<sees, pc, toAsk, key, queue, answer, lost>>
      /\ changes' = changes + 1 /\ changes < MaxChanges
  BY DEF Change, search
<1>1. PICK g \in Shapes[u] :
         /\ guest' = [guest EXCEPT ![u] = g]
         /\ steady' = {v \in steady : v # u \/ StaysFindable(u, g)}
         /\ was' = IF g = None THEN was ELSE was \cup {<<u, g.running>>}
  BY DEF Change
<1>2. g \in Guests \cup {None}
  BY ScanAssumption
<1>3. was \subseteq was' /\ was' \subseteq VMIDs \X BOOLEAN
  BY <1>1, <1>2 DEF Guests
<1>4. TypeOK'
  BY <1>0, <1>1, <1>2, <1>3, ScanAssumption
<1>5. \A v \in steady' : /\ v \in steady
                         /\ guest'[v] # None
                         /\ guest'[v].node = guest[v].node
                         /\ guest'[v].type = guest[v].type
                         /\ guest'[v].conf \in Wanted
  BY <1>1 DEF Findable, Exists, StaysFindable
<1>6. Progress'
  BY <1>0 DEF Progress
<1>7. Findable'
  BY <1>5 DEF Findable, Exists
<1>8. Recent'
  BY <1>0, <1>1, <1>3 DEF Recent, Exists
<1>9. Scanned'
  BY <1>0, <1>5 DEF Scanned, Waiting
<1>10. LxcFirst'
  BY <1>0, <1>5 DEF LxcFirst
<1>11. StatusWasTrue'
  BY <1>0, <1>3 DEF StatusWasTrue
<1> QED
  BY <1>4, <1>6, <1>7, <1>8, <1>9, <1>10, <1>11

(* Whatever fails and however the guests change. *)
THEOREM Inductive == Spec => []IInv
<1>1. IInv /\ [Next]_vars => IInv'
  <2> SUFFICES ASSUME IInv, [Next]_vars
               PROVE  IInv'
    OBVIOUS
  <2>1. CASE Begin
    BY <2>1, BeginKeeps
  <2>2. ASSUME NEW k \in toAsk, List(k) \/ ListFails(k)
        PROVE  IInv'
    BY <2>2, ListKeeps, ListFailsKeeps
  <2>3. ASSUME NEW e \in queue, Match(e) \/ Skip(e) \/ ConfigFails(e)
        PROVE  IInv'
    BY <2>3, MatchKeeps, EntryKeeps
  <2>4. CASE NextKey
    BY <2>4 DEF NextKey, history, IInv, TypeOK, Progress, Findable, Exists, Recent,
       Scanned, Waiting, LxcFirst, StatusWasTrue
  <2>5. CASE NotFound
    BY <2>5 DEF NotFound, history, IInv, TypeOK, Progress, Findable, Exists, Recent,
       Scanned, Waiting, LxcFirst, StatusWasTrue
  <2>6. CASE Return
    BY <2>6, ScanAssumption DEF Return, IInv, TypeOK, Progress, Findable, Recent,
       Scanned, LxcFirst, StatusWasTrue
  <2>7. ASSUME NEW v \in VMIDs, Change(v)
        PROVE  IInv'
    BY <2>7, ChangeKeeps
  <2>8. CASE UNCHANGED vars
    BY <2>8 DEF vars, search, history, IInv, TypeOK, Progress, Findable, Exists, Recent,
       Scanned, Waiting, LxcFirst, StatusWasTrue
  <2> QED
    BY <2>1, <2>2, <2>3, <2>4, <2>5, <2>6, <2>7, <2>8 DEF Next, Step
<1> QED
  BY <1>1, InitIInv, PTL DEF Spec

(* Nothing of one search is left for the next. *)
THEOREM TypeCorrect == Spec => []TypeOK
BY Inductive, PTL DEF IInv

(* A guest that could be found all the while is missed only where a        *)
(* request has failed (proxmox.go:113-118, 162-164).                       *)
THEOREM MissedForAReason == Spec => []NotFoundExplained
<1>1. IInv => NotFoundExplained
  BY DEF IInv, Progress, Scanned, Waiting, NotFoundExplained
<1> QED
  BY <1>1, Inductive, PTL

(* No virtual machine is answered where a container could be               *)
(* (proxmox.go:147).                                                       *)
THEOREM ContainersFirst == Spec => []LxcFirst
BY Inductive, PTL DEF IInv

(* The status Deprovision decides on is one the guest has had since the    *)
(* search began, if Proxmox's listing is live (engine.go:180).             *)
THEOREM StatusSinceBegin == Spec => []StatusWasTrue
BY Inductive, PTL DEF IInv

=============================================================================
