----------------------------- MODULE StateStore -----------------------------
(***************************************************************************)
(* core/state.go: the JSON file that remembers which routes the plugin     *)
(* installed.  Upsert and Remove read the whole file, change the list in   *)
(* memory and write it back: remove a stale <path>.tmp, create and fill a  *)
(* new one, rename it over the file.  One mutex covers the whole call.     *)
(* The process may die between any two of these steps; the two files       *)
(* outlive it, the mutex and the list in memory do not.                    *)
(*                                                                         *)
(* The file is a set of records: their order is of no consequence to any   *)
(* caller, but two records may carry the same identifier in the type, so   *)
(* that "there is one record per route" is a property and not the shape    *)
(* of the model.                                                           *)
(***************************************************************************)

CONSTANTS
    Workers,       \* goroutines (one per HTTP request) that call the store
    RouteIds,      \* RouteRecord.RouteID values
    Payloads,      \* the other fields of a RouteRecord
    SavedTables,   \* the tables some caller passes to Save
    Absent,        \* "no record with this identifier"
    Missing,       \* "no such file"
    Partial        \* content of a file that is only partly written

Records == [id : RouteIds, data : Payloads]

ASSUME FileAssumption ==
    /\ \A rs \in SUBSET Records : rs # Missing /\ rs # Partial
    /\ Missing # Partial

ASSUME WorkerAssumption == "free" \notin Workers

ASSUME SavedTablesAssumption ==
    SavedTables \subseteq [RouteIds -> Payloads \cup {Absent}]

VARIABLES
    file,      \* StateStore.path on disk
    tmp,       \* StateStore.path + ".tmp" on disk
    mutex,     \* StateStore.mu: its holder or "free"
    pc,        \* pc[w]: the next step of worker w
    request,   \* request[w]: the call worker w is making
    buf,       \* buf[w]: the records worker w is about to save
    answer     \* answer[w]: what the call returns

vars == <<file, tmp, mutex, pc, request, buf, answer>>

(* The records of a list as the table its readers take it for. *)
TableOf(rs) ==
    [id \in RouteIds |->
        IF \E r \in rs : r.id = id
        THEN (CHOOSE r \in rs : r.id = id).data
        ELSE Absent]

(* A missing file is an empty list; of one that is only part written the   *)
(* parser makes nothing.                                                   *)
Contents(f) == IF f \in {Missing, Partial} THEN {} ELSE f

phase == [w \in Workers |->
            CASE pc[w] = "idle"   -> "idle"
              [] pc[w] = "unlock" -> "served"
              [] OTHER            -> "called"]

RT == INSTANCE RouteTable WITH table <- TableOf(Contents(file))

Init ==
    /\ file = Missing
    /\ tmp = Missing
    /\ mutex = "free"
    /\ pc = [w \in Workers |-> "idle"]
    /\ request = [w \in Workers |-> RT!NoRequest]
    /\ buf = [w \in Workers |-> {}]
    /\ answer = [w \in Workers |-> RT!NoAnswer]

Goto(w, label) == pc' = [pc EXCEPT ![w] = label]

(* Leave the call with answer a: defer s.mu.Unlock() runs next. *)
Finish(w, a) ==
    /\ Goto(w, "unlock")
    /\ answer' = [answer EXCEPT ![w] = a]

Fail(w) == Finish(w, RT!Failed)

(***************************************************************************)
(* The list operations                                                     *)
(***************************************************************************)

(* A bug: Upsert appends without looking for the identifier. *)
UpsertedAtEnd(rs, id, data) == rs \cup {[id |-> id, data |-> data]}

(* Upsert replaces the first record that has the identifier, if any. *)
Upserted(rs, id, data) ==
    LET same == {r \in rs : r.id = id}
        rec  == [id |-> id, data |-> data]
    IN  IF same = {} THEN rs \cup {rec}
        ELSE (rs \ {CHOOSE r \in same : TRUE}) \cup {rec}

(* Remove filters out every record that has the identifier. *)
Removed(rs, id) == {r \in rs : r.id # id}

(* Save receives the list as it is to be written. *)
Listed(t) == {[id |-> id, data |-> t[id]] : id \in {i \in RouteIds : t[i] # Absent}}

NewRecords(rs, r) ==
    CASE r.kind = "upsert" -> Upserted(rs, r.id, r.data)
      [] r.kind = "remove" -> Removed(rs, r.id)
      [] r.kind = "save"   -> Listed(r.table)
      [] OTHER             -> rs

(***************************************************************************)
(* The steps of a call                                                     *)
(***************************************************************************)

Call(w) ==
    /\ pc[w] = "idle"
    /\ Goto(w, "lock")
    /\ \E r \in RT!Requests : request' = [request EXCEPT ![w] = r]
    /\ UNCHANGED <<file, tmp, mutex, buf, answer>>

Lock(w) ==
    /\ pc[w] = "lock"
    /\ mutex = "free"
    /\ mutex' = w
    /\ Goto(w, "read")
    /\ UNCHANGED <<file, tmp, request, buf, answer>>

(* Load: read the file, parse it, return the list. *)
ReadToReturn(w) ==
    /\ pc[w] = "read"
    /\ request[w].kind = "load"
    /\ file # Partial
    /\ Finish(w, RT!Loaded(TableOf(Contents(file))))
    /\ UNCHANGED <<file, tmp, mutex, request, buf>>

(* A bug: Upsert and Remove call Load and Save, so that the mutex is let   *)
(* go between the two.                                                     *)
ReadToChangeUnlocked(w) ==
    /\ pc[w] = "read"
    /\ request[w].kind # "load"
    /\ request[w].kind = "save" \/ file # Partial
    /\ buf' = [buf EXCEPT ![w] = NewRecords(Contents(file), request[w])]
    /\ mutex' = "free"
    /\ Goto(w, "clean")
    /\ UNCHANGED <<file, tmp, request, answer>>

(* Upsert and Remove: read the file and change the list; Save: take the    *)
(* caller's list.                                                          *)
ReadToChange(w) ==
    /\ pc[w] = "read"
    /\ request[w].kind # "load"
    /\ request[w].kind = "save" \/ file # Partial
    /\ buf' = [buf EXCEPT ![w] = NewRecords(Contents(file), request[w])]
    /\ Goto(w, "clean")
    /\ UNCHANGED <<file, tmp, mutex, request, answer>>

(* A bug: the error return of load comes before the Unlock. *)
ReadFailsLocked(w) ==
    /\ pc[w] = "read"
    /\ request[w].kind # "save"
    /\ Goto(w, "idle")
    /\ request' = [request EXCEPT ![w] = RT!NoRequest]
    /\ UNCHANGED <<file, tmp, mutex, buf, answer>>

(* The file cannot be read or parsed.  Save does not read it. *)
ReadFails(w) ==
    /\ pc[w] = "read"
    /\ request[w].kind # "save"
    /\ Fail(w)
    /\ UNCHANGED <<file, tmp, mutex, request, buf>>

(* MkdirAll, then os.Remove of the temporary file of an earlier save. *)
CleanTmp(w) ==
    /\ pc[w] = "clean"
    /\ \/ tmp' = Missing /\ Goto(w, "create") /\ UNCHANGED answer
       \/ Fail(w) /\ UNCHANGED tmp
    /\ UNCHANGED <<file, mutex, request, buf>>

(* A bug: the list is written to the state file itself. *)
CreateInPlace(w) ==
    /\ pc[w] = "create"
    /\ file' = Partial
    /\ Goto(w, "fill")
    /\ UNCHANGED <<tmp, mutex, request, buf, answer>>

(* os.WriteFile opens and truncates the temporary file ... *)
CreateTmp(w) ==
    /\ pc[w] = "create"
    /\ \/ tmp' = Partial /\ Goto(w, "fill") /\ UNCHANGED answer
       \/ Fail(w) /\ UNCHANGED tmp
    /\ UNCHANGED <<file, mutex, request, buf>>

(* ... and writes the list to it, or leaves it part written. *)
FillTmp(w) ==
    /\ pc[w] = "fill"
    /\ \/ tmp' = buf[w] /\ Goto(w, "rename") /\ UNCHANGED answer
       \/ Fail(w) /\ UNCHANGED tmp
    /\ UNCHANGED <<file, mutex, request, buf>>

Rename(w) ==
    /\ pc[w] = "rename"
    /\ \/ file' = tmp /\ tmp' = Missing /\ Finish(w, RT!Done)
       \/ Fail(w) /\ UNCHANGED <<file, tmp>>
    /\ UNCHANGED <<mutex, request, buf>>

Unlock(w) ==
    /\ pc[w] = "unlock"
    /\ mutex' = "free"
    /\ Goto(w, "idle")
    /\ request' = [request EXCEPT ![w] = RT!NoRequest]
    /\ buf' = [buf EXCEPT ![w] = {}]
    /\ answer' = [answer EXCEPT ![w] = RT!NoAnswer]
    /\ UNCHANGED <<file, tmp>>

(* The process dies and is started again. *)
Crash ==
    /\ mutex' = "free"
    /\ pc' = [w \in Workers |-> "idle"]
    /\ request' = [w \in Workers |-> RT!NoRequest]
    /\ buf' = [w \in Workers |-> {}]
    /\ answer' = [w \in Workers |-> RT!NoAnswer]
    /\ UNCHANGED <<file, tmp>>

Step(w) ==
    \/ ReadToReturn(w)
    \/ ReadToChange(w)
    \/ ReadFails(w)
    \/ CleanTmp(w)
    \/ CreateTmp(w)
    \/ FillTmp(w)
    \/ Rename(w)
    \/ Unlock(w)

Next ==
    \/ \E w \in Workers : Call(w) \/ Lock(w) \/ Step(w)
    \/ Crash

Spec == Init /\ [][Next]_vars

(* System calls return, and sync.Mutex hands itself to a waiter that has   *)
(* waited for 1ms (its starvation mode), so no waiter is passed over for   *)
(* ever.                                                                   *)
FairSpec == Spec /\ \A w \in Workers : WF_vars(Step(w)) /\ SF_vars(Lock(w))

(***************************************************************************)
(* Properties                                                              *)
(***************************************************************************)

Labels == {"idle", "lock", "read", "clean", "create", "fill", "rename", "unlock"}

(* Every variable has its type; in particular the state file itself is     *)
(* never part written: core/state.go only ever renames a full file to it.  *)
TypeOK ==
    /\ file \in {Missing, Partial} \cup SUBSET Records
    /\ file # Partial
    /\ tmp \in {Missing, Partial} \cup SUBSET Records
    /\ mutex \in Workers \cup {"free"}
    /\ pc \in [Workers -> Labels]
    /\ request \in [Workers -> RT!Requests \cup {RT!NoRequest}]
    /\ buf \in [Workers -> SUBSET Records]
    /\ answer \in [Workers -> RT!Answers]

Unique(rs) == \A r, s \in rs : r.id = s.id => r = s

(* The state file holds at most one record per route identifier, whatever  *)
(* calls overlap and wherever a crash falls (Upsert, state.go:91-97:       *)
(* only the first record with the identifier is replaced, so a second one  *)
(* would stay for ever and be replayed).                                   *)
UniqueIds == Unique(Contents(file))

(* The store is linearizable and crash-atomic: read-modify-write through   *)
(* a temporary file implements the table of RouteTable.  No update is      *)
(* lost, no load sees half of one, and a crash leaves the old or the new   *)
(* table (state.go:44-45, INTERNALS.md "Запись атомарна").                 *)
Implements == RT!Spec

(* Every call returns: no error path keeps the mutex.  A crash ends the    *)
(* call as well.                                                           *)
EveryCallReturns == \A w \in Workers : pc[w] # "idle" ~> pc[w] = "idle"

(***************************************************************************)
(* The invariant that makes the above inductive                            *)
(***************************************************************************)

Inside(w) == pc[w] \notin {"idle", "lock"}

Saving(w) == pc[w] \in {"clean", "create", "fill", "rename"}

(* A worker between Call and its return is working on a request. *)
Asked == \A w \in Workers : pc[w] # "idle" => request[w] \in RT!Requests

(* A worker is inside the critical section exactly if it holds the mutex. *)
HolderInside == \A w \in Workers : Inside(w) <=> mutex = w

(* A list about to be saved has unique identifiers and still says what the *)
(* request makes of the file as it is now, not as it was when it was read. *)
BufFresh ==
    \A w \in Workers : Saving(w) =>
        /\ Unique(buf[w])
        /\ request[w].kind # "load"
        /\ TableOf(buf[w]) = RT!Applied(TableOf(Contents(file)), request[w])

(* The temporary file that is about to be renamed is complete and is the   *)
(* renaming worker's own.                                                  *)
TmpComplete == \A w \in Workers : pc[w] = "rename" => tmp = buf[w]

IInv == TypeOK /\ UniqueIds /\ Asked /\ HolderInside /\ BufFresh /\ TmpComplete

=============================================================================
