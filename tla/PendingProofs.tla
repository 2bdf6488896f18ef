---------------------------- MODULE PendingProofs ----------------------------
(***************************************************************************)
(* Proofs about Pending for any devices and spellings: what the list of    *)
(* pending devices says whatever happens between its two reads.            *)
(***************************************************************************)
EXTENDS Pending, TLAPS

(***************************************************************************)
(* The inductive invariant                                                 *)
(***************************************************************************)

(* The histories agree with the panel as it is. *)
Faithful ==
    /\ bare \cap Of(entries) = {} /\ known \subseteq Of(entries)
    /\ away \cap Of(leases) = {} /\ here \subseteq Of(leases)

(* What has been read speaks for the devices that do not change. *)
Read ==
    pc = "leases" =>
        /\ \A d \in bare : <<d, "lower">> \notin knownMacs
        /\ \A d \in known : <<d, "lower">> \in knownMacs

IInv == TypeOK /\ Faithful /\ Read /\ UnknownIsListed /\ KnownIsNotListed

(* Nobody has asked yet. *)
LEMMA InitIInv == Init => IInv
BY DEF Init, IInv, TypeOK, Faithful, Read, UnknownIsListed, KnownIsNotListed, Of

(* A change of the panel makes the histories smaller and leaves the rest.  *)
LEMMA OutsideKeeps ==
    ASSUME IInv, NEW m \in Macs, Register(m) \/ Unregister(m) \/ Lease(m)
    PROVE  IInv'
<1>1. /\ Remember
      /\ UNCHANGED <<pc, knownMacs, pending, status>>
      /\ entries' \subseteq Macs
      /\ leases' \subseteq Macs
  BY DEF Register, Unregister, Lease, IInv, TypeOK
<1>2. TypeOK'
  BY <1>1 DEF IInv, TypeOK
<1>3. Faithful'
  BY <1>1 DEF Remember, Faithful
<1>4. bare' \subseteq bare /\ known' \subseteq known /\ away' \subseteq away /\ here' \subseteq here
  BY <1>1 DEF Remember
<1>5. Read'
  BY <1>1, <1>4 DEF IInv, Read
<1>6. UnknownIsListed' /\ KnownIsNotListed'
  BY <1>1, <1>4 DEF IInv, UnknownIsListed, KnownIsNotListed, Of
<1> QED
  BY <1>2, <1>3, <1>5, <1>6 DEF IInv

(* The second read completes the list. *)
LEMMA GetLeasesKeeps ==
    ASSUME IInv, GetLeases
    PROVE  IInv'
<1>1. TypeOK' /\ Faithful' /\ Read'
  BY DEF IInv, TypeOK, Faithful, Read, GetLeases, Answer, history, Of
<1>2. UnknownIsListed'
  <2> SUFFICES ASSUME NEW d \in here, d \in bare
               PROVE  d \in Of(pending')
    BY DEF GetLeases, history, UnknownIsListed, Of
  <2>1. PICK m \in leases : d = m[1]
    BY DEF IInv, Faithful, Of
  <2>2. Lower(m) \notin knownMacs
    BY <2>1 DEF IInv, Read, Lower, GetLeases
  <2> QED
    BY <2>1, <2>2 DEF GetLeases, Of
<1>3. KnownIsNotListed'
  <2> SUFFICES ASSUME NEW m \in pending'
               PROVE  m[1] \notin known \cup away
    BY DEF GetLeases, history, KnownIsNotListed, Of
  <2>1. m \in leases /\ Lower(m) \notin knownMacs
    BY DEF GetLeases
  <2>2. m[1] \notin known
    BY <2>1 DEF IInv, Read, Lower, GetLeases
  <2>3. m[1] \notin away
    BY <2>1 DEF IInv, Faithful, Of
  <2> QED
    BY <2>2, <2>3
<1> QED
  BY <1>1, <1>2, <1>3 DEF IInv

(* The other steps of the request. *)
LEMMA RequestKeeps ==
    ASSUME IInv, Accept \/ GetHosts \/ GetHostsFails \/ GetLeasesFails \/ Respond
    PROVE  IInv'
<1> USE DEF IInv, TypeOK, Faithful, Read, UnknownIsListed, KnownIsNotListed, Of, Answer, history
<1>1. CASE Accept
  BY <1>1 DEF Accept
<1>2. CASE GetHosts
  <2>1. knownMacs' \subseteq Macs
    BY <1>2, SpellingAssumption DEF GetHosts, Lower, Macs
  <2>2. \A d : <<d, "lower">> \in knownMacs' <=> d \in Of(entries)
    BY <1>2 DEF GetHosts, Lower
  <2> QED
    BY <1>2, <2>1, <2>2 DEF GetHosts
<1>3. CASE GetHostsFails
  BY <1>3 DEF GetHostsFails
<1>4. CASE GetLeasesFails
  BY <1>4 DEF GetLeasesFails
<1>5. CASE Respond
  BY <1>5 DEF Respond
<1> QED
  BY <1>1, <1>2, <1>3, <1>4, <1>5

(* However the panel changes between the two reads. *)
THEOREM Inductive == Spec => []IInv
<1>1. IInv /\ [Next]_vars => IInv'
  <2> SUFFICES ASSUME IInv, [Next]_vars
               PROVE  IInv'
    OBVIOUS
  <2>1. CASE UNCHANGED vars
    BY <2>1 DEF vars, history, IInv, TypeOK, Faithful, Read, UnknownIsListed,
       KnownIsNotListed, Of
  <2> QED
    BY <2>1, OutsideKeeps, GetLeasesKeeps, RequestKeeps DEF Next
<1> QED
  BY <1>1, InitIInv, PTL DEF Spec

(* Types, and that an answer has a status. *)
THEOREM TypeCorrect == Spec => []TypeOK
BY Inductive, PTL DEF IInv

(* A device with a lease and no entry is not missed (engine.go:69-91). *)
THEOREM NothingMissed == Spec => []UnknownIsListed
BY Inductive, PTL DEF IInv

(* A device with an entry, or without a lease, is not offered              *)
(* (engine.go:79-86).                                                      *)
THEOREM NothingDoneTwice == Spec => []KnownIsNotListed
BY Inductive, PTL DEF IInv

=============================================================================
