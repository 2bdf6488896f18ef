---------------------------- MODULE CertPollProofs ----------------------------
(***************************************************************************)
(* Proofs about CertPoll for any number of calls, domains and attempts:    *)
(* the types, that a poll which could check has seen what is on disk, and  *)
(* that a success has flushed the cache.                                   *)
(***************************************************************************)
EXTENDS CertPoll, TLAPS

(***************************************************************************)
(* The inductive invariant                                                 *)
(***************************************************************************)

(* What Caddy serves from Step-CA it has on disk. *)
Stored == \A d \in Domains : memory[d] = "step" => disk[d] = "step"

(* What a call knows at each step. *)
Course ==
    \A c \in Clients :
        /\ done[c] # {} => last[c] \in done[c]
        /\ pc[c] = "hung" => dials[c] < MaxDials
        /\ matched[c] => pc[c] \in {"stop", "end"}

IInv == TypeOK /\ Stored /\ Course /\ MatchedIsOnDisk /\ OkFlushesCache

(* Nothing has been asked yet. *)
LEMMA InitIInv == Init => IInv
<1> SUFFICES ASSUME Init
             PROVE  IInv
  OBVIOUS
<1>1. (CHOOSE d \in Domains : TRUE) \in Domains
  BY CertAssumption
<1>2. last \in [Clients -> Domains]
  BY <1>1 DEF Init
<1> QED
  BY <1>2, CertAssumption
     DEF Init, IInv, TypeOK, Stored, Course, MatchedIsOnDisk, OkFlushesCache, Certs

(* A step of call c: the other calls, the disk and the memory stay as they *)
(* are, though Caddy may stop.                                             *)
Own(c) ==
    /\ UNCHANGED <<disk, memory>>
    /\ up' \in {up, FALSE}
    /\ \A b \in Clients \ {c} :
         /\ pc'[b] = pc[b] /\ done'[b] = done[b] /\ last'[b] = last[b]
         /\ roots'[b] = roots[b] /\ matched'[b] = matched[b]
         /\ result'[b] = result[b] /\ lost'[b] = lost[b]

(* What it must not do: say nil unless Caddy is down, and have matched     *)
(* what is not on disk.                                                    *)
LEMMA CallKeeps ==
    ASSUME IInv, TypeOK', Course', NEW c \in Clients, Own(c),
           pc'[c] = "end" => result'[c] # "none" \/ lost'[c] \/ up' = FALSE,
           matched'[c] /\ roots'[c] => disk[last'[c]] = "step"
    PROVE  IInv'
<1>1. Stored'
  BY DEF IInv, Stored, Own
<1>2. MatchedIsOnDisk'
  BY DEF IInv, MatchedIsOnDisk, Own
<1>3. \A d \in Domains : Served(d)' = "internal" => Served(d) = "internal"
  <2>1. memory' = memory /\ (up' = up \/ up' = FALSE)
    BY DEF Own
  <2> QED
    BY <2>1 DEF Served
<1>4. up' = FALSE => \A d \in Domains : Served(d)' = "none"
  BY DEF Served
<1>5. \A b \in Clients : done'[b] \subseteq Domains
  BY DEF TypeOK
<1>6. OkFlushesCache'
  BY <1>3, <1>4, <1>5 DEF IInv, OkFlushesCache, Own
<1> QED
  BY <1>1, <1>2, <1>6 DEF IInv

(* The steps of one call up to the poll. *)
LEMMA InstallKeeps ==
    ASSUME IInv, NEW c \in Clients,
           Begin(c) \/ Install(c) \/ InstallFails(c) \/ ReadRoots(c)
    PROVE  IInv'
<1> USE DEF Goto, node, poll
<1>1. CASE Begin(c)
  <2>1. TypeOK'
    <3>1. PICK ds \in Batches[c] : todo' = [todo EXCEPT ![c] = ds]
      BY <1>1 DEF Begin
    <3>2. ds \subseteq Domains
      BY <3>1, CertAssumption
    <3> QED
      BY <1>1, <3>1, <3>2 DEF Begin, IInv, TypeOK, Course
  <2>2. Course'
    BY <1>1, <2>1 DEF Begin, IInv, TypeOK, Course
  <2>3. Own(c)
    BY <1>1 DEF Begin, IInv, TypeOK, Own
  <2>4. ~ matched'[c]
    BY <1>1 DEF Begin, IInv, TypeOK, Course
  <2>5. pc'[c] # "end"
    BY <1>1 DEF Begin, IInv, TypeOK
  <2> QED
    BY <2>1, <2>2, <2>3, <2>4, <2>5, CallKeeps
<1>2. CASE Install(c)
  <2>1. TypeOK'
    BY <1>2 DEF Install, IInv, TypeOK, Course
  <2>2. Course'
    BY <1>2, <2>1 DEF Install, IInv, TypeOK, Course
  <2>3. Own(c)
    BY <1>2 DEF Install, IInv, TypeOK, Own
  <2>4. ~ matched'[c]
    BY <1>2 DEF Install, IInv, TypeOK, Course
  <2>5. pc'[c] # "end"
    BY <1>2 DEF Install, IInv, TypeOK
  <2> QED
    BY <2>1, <2>2, <2>3, <2>4, <2>5, CallKeeps
<1>3. CASE InstallFails(c)
  <2>1. TypeOK'
    BY <1>3 DEF InstallFails, IInv, TypeOK, Course
  <2>2. Course'
    BY <1>3, <2>1 DEF InstallFails, IInv, TypeOK, Course
  <2>3. Own(c)
    BY <1>3 DEF InstallFails, IInv, TypeOK, Own
  <2>4. ~ matched'[c]
    BY <1>3 DEF InstallFails, IInv, TypeOK, Course
  <2>5. result'[c] # "none"
    BY <1>3 DEF InstallFails, IInv, TypeOK
  <2> QED
    BY <2>1, <2>2, <2>3, <2>4, <2>5, CallKeeps
<1>4. CASE ReadRoots(c)
  <2>1. TypeOK'
    BY <1>4 DEF ReadRoots, IInv, TypeOK, Course
  <2>2. Course'
    BY <1>4, <2>1 DEF ReadRoots, IInv, TypeOK, Course
  <2>3. Own(c)
    BY <1>4 DEF ReadRoots, IInv, TypeOK, Own
  <2>4. ~ matched'[c]
    BY <1>4 DEF ReadRoots, IInv, TypeOK, Course
  <2>5. pc'[c] # "end"
    BY <1>4 DEF ReadRoots, IInv, TypeOK
  <2> QED
    BY <2>1, <2>2, <2>3, <2>4, <2>5, CallKeeps
<1> QED
  BY <1>1, <1>2, <1>3, <1>4

(* The poll: an attempt that matches has seen the certificate in Caddy's   *)
(* memory, so it is on disk.                                               *)
LEMMA PollKeeps ==
    ASSUME IInv, NEW c \in Clients,
           DialMatches(c) \/ DialFails(c) \/ DialHangs(c) \/ DialBreaks(c) \/ Deadline(c)
    PROVE  IInv'
<1> USE DEF Goto, node, poll
<1>1. CASE DialMatches(c)
  <2>1. TypeOK'
    BY <1>1 DEF DialMatches, IInv, TypeOK, Course
  <2>2. Course'
    BY <1>1, <2>1 DEF DialMatches, IInv, TypeOK, Course
  <2>3. Own(c)
    BY <1>1 DEF DialMatches, IInv, TypeOK, Own
  <2>4. roots'[c] => disk[last'[c]] = "step"
    BY <1>1 DEF DialMatches, Accepts, Served, IInv, TypeOK, Stored
  <2>5. pc'[c] # "end"
    BY <1>1 DEF DialMatches, IInv, TypeOK
  <2> QED
    BY <2>1, <2>2, <2>3, <2>4, <2>5, CallKeeps
<1>2. CASE DialFails(c)
  <2>1. TypeOK'
    BY <1>2, CertAssumption DEF DialFails, IInv, TypeOK, Course
  <2>2. Course'
    BY <1>2, <2>1 DEF DialFails, IInv, TypeOK, Course
  <2>3. Own(c)
    BY <1>2 DEF DialFails, IInv, TypeOK, Own
  <2>4. ~ matched'[c]
    BY <1>2 DEF DialFails, IInv, TypeOK, Course
  <2>5. pc'[c] # "end"
    BY <1>2 DEF DialFails, IInv, TypeOK
  <2> QED
    BY <2>1, <2>2, <2>3, <2>4, <2>5, CallKeeps
<1>3. CASE DialHangs(c)
  <2>1. TypeOK'
    BY <1>3 DEF DialHangs, IInv, TypeOK, Course
  <2>2. Course'
    BY <1>3, <2>1, CertAssumption DEF DialHangs, IInv, TypeOK, Course
  <2>3. Own(c)
    BY <1>3 DEF DialHangs, IInv, TypeOK, Own
  <2>4. ~ matched'[c]
    BY <1>3 DEF DialHangs, IInv, TypeOK, Course
  <2>5. pc'[c] # "end"
    BY <1>3 DEF DialHangs, IInv, TypeOK
  <2> QED
    BY <2>1, <2>2, <2>3, <2>4, <2>5, CallKeeps
<1>4. CASE DialBreaks(c)
  <2>1. TypeOK'
    BY <1>4, CertAssumption DEF DialBreaks, IInv, TypeOK, Course
  <2>2. Course'
    BY <1>4, <2>1 DEF DialBreaks, IInv, TypeOK, Course
  <2>3. Own(c)
    BY <1>4 DEF DialBreaks, IInv, TypeOK, Own
  <2>4. ~ matched'[c]
    BY <1>4 DEF DialBreaks, IInv, TypeOK, Course
  <2>5. pc'[c] # "end"
    BY <1>4 DEF DialBreaks, IInv, TypeOK
  <2> QED
    BY <2>1, <2>2, <2>3, <2>4, <2>5, CallKeeps
<1>5. CASE Deadline(c)
  <2>1. TypeOK'
    BY <1>5 DEF Deadline, IInv, TypeOK, Course
  <2>2. Course'
    BY <1>5, <2>1 DEF Deadline, IInv, TypeOK, Course
  <2>3. Own(c)
    BY <1>5 DEF Deadline, IInv, TypeOK, Own
  <2>4. ~ matched'[c]
    BY <1>5 DEF Deadline, IInv, TypeOK, Course
  <2>5. pc'[c] # "end"
    BY <1>5 DEF Deadline, IInv, TypeOK
  <2> QED
    BY <2>1, <2>2, <2>3, <2>4, <2>5, CallKeeps
<1> QED
  BY <1>1, <1>2, <1>3, <1>4, <1>5

(* The restart, and the end of a call: one that is not lost and not an     *)
(* error has stopped Caddy.                                                *)
LEMMA EndKeeps ==
    ASSUME IInv, NEW c \in Clients, Stop(c) \/ Return(c)
    PROVE  IInv'
<1> USE DEF Goto, node, poll
<1>1. CASE Stop(c)
  <2>1. TypeOK'
    BY <1>1 DEF Stop, IInv, TypeOK, Course
  <2>2. Course'
    BY <1>1, <2>1 DEF Stop, IInv, TypeOK, Course
  <2>3. Own(c)
    BY <1>1 DEF Stop, IInv, TypeOK, Own
  <2>4. result'[c] # "none" \/ lost'[c] \/ up' = FALSE
    BY <1>1 DEF Stop, IInv, TypeOK
  <2>5. matched'[c] /\ roots'[c] => disk[last'[c]] = "step"
    BY <1>1 DEF Stop, IInv, MatchedIsOnDisk
  <2> QED
    BY <2>1, <2>2, <2>3, <2>4, <2>5, CallKeeps
<1>2. CASE Return(c)
  <2>0. (CHOOSE d \in Domains : TRUE) \in Domains
    BY CertAssumption
  <2>1. TypeOK'
    BY <1>2, <2>0, CertAssumption DEF Return, IInv, TypeOK, Course
  <2>2. Course'
    BY <1>2, <2>1 DEF Return, IInv, TypeOK, Course
  <2>3. Own(c)
    BY <1>2 DEF Return, IInv, TypeOK, Own
  <2>4. ~ matched'[c]
    BY <1>2 DEF Return, IInv, TypeOK, Course
  <2>5. pc'[c] # "end"
    BY <1>2 DEF Return, IInv, TypeOK
  <2> QED
    BY <2>1, <2>2, <2>3, <2>4, <2>5, CallKeeps
<1> QED
  BY <1>1, <1>2

(* Step-CA and systemd put no internal certificate into memory.  *)
LEMMA NodeKeeps ==
    ASSUME IInv, NodeUp \/ \E d \in Domains : Issue(d)
    PROVE  IInv'
<1> USE DEF poll
<1>1. UNCHANGED <<ordered, pc, todo, done, poll, result, lost>>
  BY DEF NodeUp, Issue
<1>2. TypeOK' /\ Stored'
  <2>1. CASE NodeUp
    BY <2>1 DEF NodeUp, IInv, TypeOK, Stored, Certs
  <2>2. ASSUME NEW d \in Domains, Issue(d)
        PROVE  TypeOK' /\ Stored'
    <3>1. /\ disk' \in [Domains -> {"none", "step"}]
          /\ memory' \in [Domains -> Certs]
      BY <2>2 DEF Issue, IInv, TypeOK, Certs
    <3>2. TypeOK'
      BY <2>2, <3>1 DEF Issue, IInv, TypeOK
    <3>3. Stored'
      BY <2>2 DEF Issue, IInv, TypeOK, Stored
    <3> QED
      BY <3>2, <3>3
  <2> QED
    BY <2>1, <2>2
<1>3. \A d \in Domains : disk[d] = "step" => disk'[d] = "step"
  BY DEF NodeUp, Issue, IInv, TypeOK
<1>4. \A d \in Domains : Served(d)' = "internal" => Served(d) = "internal"
  BY DEF NodeUp, Issue, Served, IInv, TypeOK
<1>5. Course'
  BY <1>1 DEF IInv, Course
<1>6. MatchedIsOnDisk'
  BY <1>1, <1>3 DEF IInv, TypeOK, MatchedIsOnDisk
<1>7. OkFlushesCache'
  BY <1>1, <1>4 DEF IInv, TypeOK, OkFlushesCache
<1> QED
  BY <1>2, <1>5, <1>6, <1>7 DEF IInv

(* However calls interleave on one node, and whatever is lost or hangs. *)
THEOREM Inductive == Spec => []IInv
<1>1. IInv /\ [Next]_vars => IInv'
  <2> SUFFICES ASSUME IInv, [Next]_vars
               PROVE  IInv'
    OBVIOUS
  <2>1. CASE \E c \in Clients : Begin(c) \/ Step(c) \/ DialHangs(c)
    BY <2>1, InstallKeeps, PollKeeps, EndKeeps DEF Step
  <2>2. CASE NodeUp \/ \E d \in Domains : Issue(d)
    BY <2>2, NodeKeeps
  <2>3. CASE UNCHANGED vars
    BY <2>3 DEF vars, node, poll, IInv, TypeOK, Stored, Course, MatchedIsOnDisk,
       OkFlushesCache, Served
  <2> QED
    BY <2>1, <2>2, <2>3 DEF Next
<1> QED
  BY <1>1, InitIInv, PTL DEF Spec

(* A call that polls has installed the domain it polls for, and the        *)
(* attempts stay within the deadline.                                      *)
THEOREM TypeCorrect == Spec => []TypeOK
BY Inductive, PTL DEF IInv

(* A poll that could check against the CA has seen a certificate that a    *)
(* restart does not lose (caddy.go:424-426).                               *)
THEOREM SeenIsStored == Spec => []MatchedIsOnDisk
BY Inductive, PTL DEF IInv

(* A call that reports success has got rid of the internal certificates of *)
(* all its domains, unless its /stop was lost (engine.go:242-243).         *)
THEOREM SuccessFlushes == Spec => []OkFlushesCache
BY Inductive, PTL DEF IInv

=============================================================================
