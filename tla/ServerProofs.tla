---------------------------- MODULE ServerProofs ----------------------------
(***************************************************************************)
(* Proofs about Server for every set of processes and requests: the types, *)
(* that a patient panel always reaches the process it has started, and     *)
(* that a shutdown cuts off no short request.                              *)
(***************************************************************************)
EXTENDS Server, TLAPS

(***************************************************************************)
(* The inductive invariant                                                 *)
(***************************************************************************)

(* A Serve that has failed does not accept any more. *)
Quiet == \A p \in Procs : failed[p] => ~ accepting[p]

(* A patient panel has one process at a time. *)
Alone ==
    patient => \A p, q \in Procs : st[p] # "off" /\ st[q] # "off" => p = q

(* What a shutdown has not waited for is long. *)
OnlyLong ==
    \A p \in Procs : st[p] = "close" /\ ~ failed[p] => At(p, "active") \subseteq Long

IInv == TypeOK /\ Quiet /\ Alone /\ OnlyLong /\ Reachable

(* The actions of one process. *)
ProcStep(p) ==
    Start(p) \/ Main(p) \/ ServeStarts(p) \/ ServeFails(p) \/ Signal(p) \/ Die(p)

(* The actions of one request. *)
RequestStep(r) ==
    Connect(r) \/ Accept(r) \/ Answer(r) \/ AnswerLate(r) \/ Again(r)

USE DEF At

(* main starts with nothing. *)
LEMMA InitIInv == Init => IInv
BY ServerAssumption
   DEF Init, IInv, TypeOK, Quiet, Alone, OnlyLong, Reachable

(* What a process keeps of its requests when it ends: none. *)
LEMMA ExitTypes ==
    ASSUME TypeOK, NEW p \in Procs, Exit(p)
    PROVE  /\ st' = [st EXCEPT ![p] = "off"]
           /\ accepting' = [accepting EXCEPT ![p] = FALSE]
           /\ failed' = [failed EXCEPT ![p] = FALSE]
           /\ sig' \in [Procs -> BOOLEAN]
           /\ fate' \in [Requests -> {"new", "queued", "active", "answered", "unheard",
                                      "refused", "cut"}]
           /\ \A q \in Procs : At(q, "active")' = IF q = p THEN {} ELSE At(q, "active")
           /\ UNCHANGED <<patient, at>>
<1>1. fate' \in [Requests -> {"new", "queued", "active", "answered", "unheard",
                              "refused", "cut"}]
  BY DEF TypeOK, Exit
<1>2. \A q \in Procs : At(q, "active")' = IF q = p THEN {} ELSE At(q, "active")
  BY DEF TypeOK, Exit
<1> QED
  BY <1>1, <1>2 DEF TypeOK, Exit, Goto

(* Types are kept by the end of a process that leaves no socket of its own. *)
LEMMA ExitKeeps ==
    ASSUME TypeOK, Quiet, NEW p \in Procs, Exit(p),
           path' \in {path, None, Stale}, path' # p,
           spoilt' \in [Procs -> BOOLEAN]
    PROVE  TypeOK' /\ Quiet'
<1>0. None \notin Procs /\ Stale \notin Procs
  BY ServerAssumption
<1>1. \A q \in Procs : At(q, "active")' # {} => st'[q] \notin {"off", "boot", "clean"}
  BY ExitTypes DEF TypeOK
<1>2. path' \in Procs => st'[path'] \notin {"off", "boot", "clean"}
  BY <1>0, ExitTypes DEF TypeOK
<1>3. \A q \in Procs : accepting'[q] => st'[q] \in {"bound", "run"}
  BY ExitTypes DEF TypeOK
<1>4. /\ patient' \in BOOLEAN
      /\ path' \in Procs \cup {None, Stale}
      /\ at' \in [Requests -> Procs \cup {None}]
  BY ExitTypes DEF TypeOK
<1>5. /\ st' \in [Procs -> {"off", "boot", "clean", "bound", "run", "drain", "close"}]
      /\ accepting' \in [Procs -> BOOLEAN]
      /\ failed' \in [Procs -> BOOLEAN]
  BY ExitTypes DEF TypeOK
<1>6. Quiet'
  BY ExitTypes DEF TypeOK, Quiet
<1> QED
  BY <1>1, <1>2, <1>3, <1>4, <1>5, <1>6, ExitTypes DEF TypeOK

(* Types are kept by what one process does. *)
LEMMA ProcTypes ==
    ASSUME TypeOK, Quiet, NEW p \in Procs, ProcStep(p)
    PROVE  TypeOK' /\ Quiet'
<1>0. None \notin Procs /\ Stale \notin Procs
  BY ServerAssumption
<1>1. CASE Start(p)
  BY <1>1 DEF TypeOK, Quiet, Start, Goto
<1>2. CASE BootFails(p)
  BY <1>2, ExitKeeps DEF TypeOK, BootFails, Spoil
<1>3. CASE RemoveStale(p)
  BY <1>0, <1>3 DEF TypeOK, Quiet, RemoveStale, Goto, Spoil
<1>4. CASE Listen(p)
  BY <1>4 DEF TypeOK, Quiet, Listen, Goto
<1>5. CASE ListenBlocked(p)
  BY <1>5, ExitKeeps DEF TypeOK, ListenBlocked
<1>6. CASE Notify(p)
  BY <1>6 DEF TypeOK, Quiet, Notify, Goto
<1>7. CASE TakeError(p)
  BY <1>7 DEF TypeOK, Quiet, TakeError, Goto
<1>8. CASE Shutdown(p)
  <2>1. fate' \in [Requests -> {"new", "queued", "active", "answered", "unheard",
                                "refused", "cut"}]
    BY <1>8 DEF TypeOK, Shutdown, ListenerCloses
  <2>2. \A q \in Procs : At(q, "active")' = At(q, "active")
    BY <1>8 DEF TypeOK, Shutdown, ListenerCloses
  <2>3. path' \in {path, None, Stale}
    BY <1>8 DEF Shutdown, Unlink, Abandoned
  <2> QED
    BY <1>0, <1>8, <2>1, <2>2, <2>3 DEF TypeOK, Quiet, Shutdown, Goto
<1>9. CASE Drained(p)
  BY <1>9 DEF TypeOK, Quiet, Drained, Goto
<1>10. CASE DrainTimeout(p)
  BY <1>10 DEF TypeOK, Quiet, DrainTimeout, Goto
<1>11. CASE Cleanup(p)
  BY <1>0, <1>11, ExitKeeps DEF TypeOK, Cleanup, Unlink, Abandoned, Spoil
<1>12. CASE ServeStarts(p)
  BY <1>12 DEF TypeOK, Quiet, ServeStarts
<1>13. CASE ServeFails(p)
  <2>1. fate' \in [Requests -> {"new", "queued", "active", "answered", "unheard",
                                "refused", "cut"}]
    BY <1>13 DEF TypeOK, ServeFails, ListenerCloses
  <2>2. \A q \in Procs : At(q, "active")' = At(q, "active")
    BY <1>13 DEF TypeOK, ServeFails, ListenerCloses
  <2> QED
    BY <1>0, <1>13, <2>1, <2>2 DEF TypeOK, Quiet, ServeFails, Unlink, Abandoned
<1>14. CASE Signal(p)
  <2>0. spoilt' \in [Procs -> BOOLEAN]
    BY <1>14 DEF TypeOK, Signal, Spoil
  <2>1. CASE Exit(p) /\ Abandoned(p)
    BY <1>0, <2>0, <2>1, ExitKeeps DEF Abandoned
  <2>2. CASE /\ sig' = [sig EXCEPT ![p] = TRUE]
             /\ UNCHANGED <<patient, st, accepting, failed, path, at, fate>>
    <3>1. \A q \in Procs : At(q, "active")' = At(q, "active")
      BY <2>2
    <3> QED
      BY <2>0, <2>2, <3>1 DEF TypeOK, Quiet
  <2> QED
    BY <1>14, <2>1, <2>2 DEF Signal
<1>15. CASE Die(p)
  BY <1>0, <1>15, ExitKeeps DEF TypeOK, Die, Abandoned, Spoil
<1> QED
  BY <1>1, <1>2, <1>3, <1>4, <1>5, <1>6, <1>7, <1>8, <1>9, <1>10, <1>11, <1>12,
     <1>13, <1>14, <1>15 DEF ProcStep, Main

(* Types are kept by what happens to one request: only a process that      *)
(* accepts gets an active one.                                             *)
LEMMA RequestTypes ==
    ASSUME TypeOK, Quiet, NEW r \in Requests, RequestStep(r)
    PROVE  TypeOK' /\ Quiet'
<1>0. None \notin Procs
  BY ServerAssumption
<1>1. CASE Connect(r)
  BY <1>0, <1>1 DEF TypeOK, Quiet, Connect, proc
<1>2. CASE Accept(r)
  BY <1>2 DEF TypeOK, Quiet, Accept, proc
<1>3. CASE Answer(r)
  BY <1>3 DEF TypeOK, Quiet, Answer, proc
<1>4. CASE AnswerLate(r)
  BY <1>4 DEF TypeOK, Quiet, AnswerLate, proc
<1>5. CASE Again(r)
  BY <1>0, <1>5 DEF TypeOK, Quiet, Again, proc
<1> QED
  BY <1>1, <1>2, <1>3, <1>4, <1>5 DEF RequestStep

(* A patient panel keeps one process at a time, and the path is that       *)
(* process's own from Listen until it is closed.                           *)
LEMMA ProcReachable ==
    ASSUME IInv, NEW p \in Procs, ProcStep(p)
    PROVE  Alone' /\ Reachable'
<1> USE DEF IInv, TypeOK, Quiet, Alone, Reachable
<1>1. CASE Start(p)
  BY <1>1 DEF Start, Goto
<1>2. CASE BootFails(p)
  BY <1>2, ExitTypes DEF BootFails
<1>3. CASE RemoveStale(p)
  BY <1>3 DEF RemoveStale, Goto
<1>4. CASE Listen(p)
  BY <1>4 DEF Listen, Goto
<1>5. CASE ListenBlocked(p)
  BY <1>5, ExitTypes DEF ListenBlocked
<1>6. CASE Notify(p)
  BY <1>6 DEF Notify, Goto
<1>7. CASE TakeError(p)
  BY <1>7 DEF TakeError, Goto
<1>8. CASE Shutdown(p)
  BY <1>8 DEF Shutdown, Goto
<1>9. CASE Drained(p)
  BY <1>9 DEF Drained, Goto
<1>10. CASE DrainTimeout(p)
  BY <1>10 DEF DrainTimeout, Goto
<1>11. CASE Cleanup(p)
  BY <1>11, ExitTypes DEF Cleanup
<1>12. CASE ServeStarts(p)
  BY <1>12 DEF ServeStarts
<1>13. CASE ServeFails(p)
  BY <1>13 DEF ServeFails
<1>14. CASE Signal(p)
  <2>1. CASE Exit(p) /\ Abandoned(p)
    BY <2>1, ExitTypes DEF Abandoned
  <2>2. CASE UNCHANGED <<patient, st, accepting, failed, path, at, fate>>
    BY <2>2
  <2> QED
    BY <1>14, <2>1, <2>2 DEF Signal
<1>15. CASE Die(p)
  BY <1>15, ExitTypes DEF Die, Abandoned
<1> QED
  BY <1>1, <1>2, <1>3, <1>4, <1>5, <1>6, <1>7, <1>8, <1>9, <1>10, <1>11, <1>12,
     <1>13, <1>14, <1>15 DEF ProcStep, Main

(* Only a Shutdown that has waited, or a failed Serve, leads to the end of *)
(* run, and from then on nothing is accepted.                              *)
LEMMA ProcOnlyLong ==
    ASSUME IInv, NEW p \in Procs, ProcStep(p)
    PROVE  OnlyLong'
<1> USE DEF IInv, TypeOK, Quiet, OnlyLong
<1>1. CASE Start(p)
  BY <1>1 DEF Start, Goto
<1>2. CASE BootFails(p)
  BY <1>2, ExitTypes DEF BootFails
<1>3. CASE RemoveStale(p)
  BY <1>3 DEF RemoveStale, Goto
<1>4. CASE Listen(p)
  BY <1>4 DEF Listen, Goto
<1>5. CASE ListenBlocked(p)
  BY <1>5, ExitTypes DEF ListenBlocked
<1>6. CASE Notify(p)
  BY <1>6 DEF Notify, Goto
<1>7. CASE TakeError(p)
  BY <1>7 DEF TakeError, Goto
<1>8. CASE Shutdown(p)
  <2>1. \A q \in Procs : At(q, "active")' = At(q, "active")
    BY <1>8 DEF Shutdown, ListenerCloses
  <2> QED
    BY <1>8, <2>1 DEF Shutdown, Goto
<1>9. CASE Drained(p)
  BY <1>9 DEF Drained, Goto
<1>10. CASE DrainTimeout(p)
  BY <1>10 DEF DrainTimeout, Goto
<1>11. CASE Cleanup(p)
  BY <1>11, ExitTypes DEF Cleanup
<1>12. CASE ServeStarts(p)
  BY <1>12 DEF ServeStarts
<1>13. CASE ServeFails(p)
  <2>1. \A q \in Procs : At(q, "active")' = At(q, "active")
    BY <1>13 DEF ServeFails, ListenerCloses
  <2> QED
    BY <1>13, <2>1 DEF ServeFails
<1>14. CASE Signal(p)
  <2>1. CASE Exit(p)
    BY <2>1, ExitTypes
  <2>2. CASE UNCHANGED <<patient, st, accepting, failed, path, at, fate>>
    BY <2>2
  <2> QED
    BY <1>14, <2>1, <2>2 DEF Signal
<1>15. CASE Die(p)
  BY <1>15, ExitTypes DEF Die
<1> QED
  BY <1>1, <1>2, <1>3, <1>4, <1>5, <1>6, <1>7, <1>8, <1>9, <1>10, <1>11, <1>12,
     <1>13, <1>14, <1>15 DEF ProcStep, Main

(* Requests move no process and no socket.                                 *)
LEMMA RequestKeeps ==
    ASSUME IInv, NEW r \in Requests, RequestStep(r)
    PROVE  Alone' /\ Reachable' /\ OnlyLong'
<1>1. UNCHANGED <<patient, st, accepting, failed, path>>
  BY DEF RequestStep, Connect, Accept, Answer, AnswerLate, Again, proc
<1>2. \A p \in Procs : st[p] = "close" => At(p, "active")' \subseteq At(p, "active")
  <2>0. None \notin Procs
    BY ServerAssumption
  <2> SUFFICES ASSUME NEW p \in Procs, st[p] = "close"
               PROVE  At(p, "active")' \subseteq At(p, "active")
    OBVIOUS
  <2>1. ~ accepting[p]
    BY DEF IInv, TypeOK
  <2>2. \A q \in Requests : fate'[q] = "active" /\ at'[q] = p =>
                              fate[q] = "active" /\ at[q] = p
    BY <2>0, <2>1 DEF IInv, TypeOK, RequestStep, Connect, Accept, Answer, AnswerLate, Again
  <2> QED
    BY <2>2
<1>3. Alone' /\ Reachable'
  BY <1>1 DEF IInv, Alone, Reachable
<1>4. OnlyLong'
  BY <1>1, <1>2 DEF IInv, OnlyLong
<1> QED
  BY <1>3, <1>4

(***************************************************************************)
(* The theorems                                                            *)
(***************************************************************************)

(* The inductive invariant: whatever the panel, signals, kills and         *)
(* requests do, and in whatever order, one process after another or        *)
(* several at a time.                                                      *)
THEOREM Inductive == Spec => []IInv
<1>1. IInv /\ [Next]_vars => IInv'
  <2> SUFFICES ASSUME IInv, [Next]_vars
               PROVE  IInv'
    OBVIOUS
  <2>1. CASE \E p \in Procs : ProcStep(p)
    <3>1. PICK p \in Procs : ProcStep(p)
      BY <2>1
    <3> QED
      BY <3>1, ProcTypes, ProcReachable, ProcOnlyLong DEF IInv
  <2>2. CASE \E r \in Requests : RequestStep(r)
    <3>1. PICK r \in Requests : RequestStep(r)
      BY <2>2
    <3> QED
      BY <3>1, RequestTypes, RequestKeeps DEF IInv
  <2>3. CASE UNCHANGED vars
    BY <2>3 DEF vars, proc, IInv, TypeOK, Quiet, Alone, OnlyLong, Reachable
  <2> QED
    BY <2>1, <2>2, <2>3 DEF Next, ProcStep, RequestStep
<1> QED
  BY <1>1, InitIInv, PTL DEF Spec

(* Only a process that has come as far as Listen has a socket or requests, *)
(* and one that shuts down accepts no more of them.                        *)
THEOREM TypeCorrect == Spec => []TypeOK
BY Inductive, PTL DEF IInv

(* A patient panel reaches the process that serves, whatever became of the *)
(* ones before it (main.go:210-223).                                       *)
THEOREM SocketIsItsOwn == Spec => []Reachable
BY Inductive, PTL DEF IInv

(* A shutdown cuts off no request that fits into its 10 s                  *)
(* (main.go:274-276).                                                      *)
THEOREM ShutdownIsGraceful == Spec => ShortNotCut
<1>1. ASSUME IInv, [Next]_vars, NEW r \in Short, fate[r] = "active", fate'[r] = "cut"
      PROVE  st[at[r]] # "close" \/ failed[at[r]]
  <2>1. PICK p \in Procs : Exit(p)
    BY <1>1 DEF Next, IInv, TypeOK, Requests, vars, proc, Start, Main, BootFails,
       RemoveStale, Listen, ListenBlocked, Notify, TakeError, Shutdown, ListenerCloses,
       Drained, DrainTimeout, Cleanup, ServeStarts, ServeFails, Signal, Die,
       Connect, Accept, Answer, AnswerLate, Again
  <2>2. at[r] = p
    BY <1>1, <2>1 DEF Exit, IInv, TypeOK, Requests
  <2>3. r \notin Long
    BY <1>1, ServerAssumption
  <2> QED
    BY <1>1, <2>2, <2>3 DEF IInv, OnlyLong, Requests
<1>2. IInv /\ [Next]_vars =>
        [\A r \in Short : fate[r] = "active" /\ fate'[r] = "cut" =>
             st[at[r]] # "close" \/ failed[at[r]]]_vars
  BY <1>1
<1> QED
  BY <1>2, Inductive, PTL DEF Spec, ShortNotCut

=============================================================================
