-------------------------- MODULE StateStoreProofs --------------------------
(***************************************************************************)
(* Proofs about StateStore for every set of workers, identifiers and       *)
(* payloads: the types, one record per identifier, and that the store      *)
(* implements the atomic table of RouteTable.                              *)
(***************************************************************************)
EXTENDS StateStore, TLAPS

(***************************************************************************)
(* The list operations                                                     *)
(***************************************************************************)

(* In a list with unique identifiers a record is what readers find under   *)
(* its identifier.                                                         *)
LEMMA TableAt ==
    ASSUME NEW rs \in SUBSET Records, Unique(rs), NEW r \in rs
    PROVE  TableOf(rs)[r.id] = r.data
<1>1. r.id \in RouteIds
  BY DEF Records
<1>2. (CHOOSE s \in rs : s.id = r.id) = r
  BY DEF Unique
<1> QED
  BY <1>1, <1>2 DEF TableOf

(* An identifier no record carries reads as Absent. *)
LEMMA TableAbsent ==
    ASSUME NEW rs \in SUBSET Records, NEW id \in RouteIds,
           \A r \in rs : r.id # id
    PROVE  TableOf(rs)[id] = Absent
BY DEF TableOf

(* The table of a list is a table. *)
LEMMA TableType ==
    ASSUME NEW rs \in SUBSET Records
    PROVE  TableOf(rs) \in RT!Tables
<1> SUFFICES ASSUME NEW id \in RouteIds
             PROVE  TableOf(rs)[id] \in Payloads \cup {Absent}
  BY DEF TableOf, RT!Tables
<1>1. CASE \E r \in rs : r.id = id
  <2> DEFINE c == CHOOSE r \in rs : r.id = id
  <2>1. c \in rs
    BY <1>1
  <2>2. c.data \in Payloads
    BY <2>1 DEF Records
  <2> QED
    BY <1>1, <2>2 DEF TableOf
<1>2. CASE ~ \E r \in rs : r.id = id
  BY <1>2, TableAbsent
<1> QED
  BY <1>1, <1>2

(* Upsert on a list with unique identifiers keeps them unique and sets one *)
(* entry of the table (state.go:82-99).                                    *)
LEMMA UpsertedTable ==
    ASSUME NEW rs \in SUBSET Records, Unique(rs),
           NEW id \in RouteIds, NEW data \in Payloads
    PROVE  /\ Upserted(rs, id, data) \in SUBSET Records
           /\ Unique(Upserted(rs, id, data))
           /\ TableOf(Upserted(rs, id, data)) = [TableOf(rs) EXCEPT ![id] = data]
<1> DEFINE rec == [id |-> id, data |-> data]
           same == {r \in rs : r.id = id}
           others == {r \in rs : r.id # id}
           new == others \cup {rec}
<1>1. Upserted(rs, id, data) = new
  <2>1. CASE same = {}
    <3>1. rs = others
      BY <2>1
    <3> QED
      BY <2>1, <3>1 DEF Upserted
  <2>2. CASE same # {}
    <3>1. (CHOOSE r \in same : TRUE) \in same
      BY <2>2
    <3>2. same = {CHOOSE r \in same : TRUE}
      BY <3>1 DEF Unique
    <3>3. rs \ {CHOOSE r \in same : TRUE} = others
      BY <3>2
    <3> QED
      BY <2>2, <3>3 DEF Upserted
  <2> QED
    BY <2>1, <2>2
<1>2. new \in SUBSET Records
  BY DEF Records
<1>3. Unique(new)
  BY DEF Unique
<1>4. TableOf(new) = [TableOf(rs) EXCEPT ![id] = data]
  <2>1. SUFFICES ASSUME NEW i \in RouteIds
                 PROVE  TableOf(new)[i] = IF i = id THEN data ELSE TableOf(rs)[i]
    BY DEF TableOf
  <2>2. CASE i = id
    <3>1. rec \in new /\ rec.id = i /\ rec.data = data
      BY <2>2
    <3> QED
      BY <1>2, <1>3, <2>2, <3>1, TableAt
  <2>3. CASE i # id /\ \E r \in rs : r.id = i
    <3>1. PICK r \in rs : r.id = i
      BY <2>3
    <3>2. r \in new
      BY <2>3, <3>1
    <3>3. TableOf(new)[i] = r.data
      BY <1>2, <1>3, <3>1, <3>2, TableAt
    <3>4. TableOf(rs)[i] = r.data
      BY <3>1, TableAt
    <3> QED
      BY <2>3, <3>3, <3>4
  <2>4. CASE i # id /\ \A r \in rs : r.id # i
    <3>1. \A r \in new : r.id # i
      BY <2>4
    <3>2. TableOf(new)[i] = Absent
      BY <1>2, <3>1, TableAbsent
    <3>3. TableOf(rs)[i] = Absent
      BY <2>4, TableAbsent
    <3> QED
      BY <2>4, <3>2, <3>3
  <2> QED
    BY <2>2, <2>3, <2>4
<1> HIDE DEF new
<1> QED
  BY <1>1, <1>2, <1>3, <1>4

(* Remove keeps identifiers unique and empties one entry (state.go:101-116). *)
LEMMA RemovedTable ==
    ASSUME NEW rs \in SUBSET Records, Unique(rs), NEW id \in RouteIds
    PROVE  /\ Removed(rs, id) \in SUBSET Records
           /\ Unique(Removed(rs, id))
           /\ TableOf(Removed(rs, id)) = [TableOf(rs) EXCEPT ![id] = Absent]
<1> DEFINE new == Removed(rs, id)
<1>1. new \in SUBSET Records
  BY DEF Removed
<1>2. Unique(new)
  BY DEF Removed, Unique
<1>3. TableOf(new) = [TableOf(rs) EXCEPT ![id] = Absent]
  <2>1. SUFFICES ASSUME NEW i \in RouteIds
                 PROVE  TableOf(new)[i] = IF i = id THEN Absent ELSE TableOf(rs)[i]
    BY DEF TableOf
  <2>2. CASE i = id
    <3>1. \A r \in new : r.id # i
      BY <2>2 DEF Removed
    <3> QED
      BY <1>1, <2>2, <3>1, TableAbsent
  <2>3. CASE i # id /\ \E r \in rs : r.id = i
    <3>1. PICK r \in rs : r.id = i
      BY <2>3
    <3>2. r \in new
      BY <2>3, <3>1 DEF Removed
    <3>3. TableOf(new)[i] = r.data
      BY <1>1, <1>2, <3>1, <3>2, TableAt
    <3>4. TableOf(rs)[i] = r.data
      BY <3>1, TableAt
    <3> QED
      BY <2>3, <3>3, <3>4
  <2>4. CASE i # id /\ \A r \in rs : r.id # i
    <3>1. \A r \in new : r.id # i
      BY <2>4 DEF Removed
    <3>2. TableOf(new)[i] = Absent
      BY <1>1, <3>1, TableAbsent
    <3>3. TableOf(rs)[i] = Absent
      BY <2>4, TableAbsent
    <3> QED
      BY <2>4, <3>2, <3>3
  <2> QED
    BY <2>2, <2>3, <2>4
<1> QED
  BY <1>1, <1>2, <1>3

(* The list Save writes for a table reads back as that table. *)
LEMMA ListedTable ==
    ASSUME NEW t \in RT!Tables
    PROVE  /\ Listed(t) \in SUBSET Records
           /\ Unique(Listed(t))
           /\ TableOf(Listed(t)) = t
<1> DEFINE new == Listed(t)
<1>1. new \in SUBSET Records
  BY DEF Listed, Records, RT!Tables
<1>2. Unique(new)
  BY DEF Listed, Unique
<1>3. TableOf(new) = t
  <2>1. SUFFICES ASSUME NEW i \in RouteIds
                 PROVE  TableOf(new)[i] = t[i]
    BY DEF TableOf, RT!Tables
  <2>2. CASE t[i] # Absent
    <3> DEFINE r == [id |-> i, data |-> t[i]]
    <3>1. r \in new /\ r.id = i /\ r.data = t[i]
      BY <2>2 DEF Listed
    <3> HIDE DEF r
    <3> QED
      BY <1>1, <1>2, <3>1, TableAt
  <2>3. CASE t[i] = Absent
    <3>1. \A r \in new : r.id # i
      BY <2>3 DEF Listed
    <3> QED
      BY <1>1, <2>3, <3>1, TableAbsent
  <2> QED
    BY <2>2, <2>3
<1> QED
  BY <1>1, <1>2, <1>3

(* Whatever a caller asks for, the list to be written has unique           *)
(* identifiers and is the table the request makes of the file's.           *)
LEMMA NewRecordsTable ==
    ASSUME NEW rs \in SUBSET Records, Unique(rs),
           NEW r \in RT!Requests, r.kind # "load"
    PROVE  /\ NewRecords(rs, r) \in SUBSET Records
           /\ Unique(NewRecords(rs, r))
           /\ TableOf(NewRecords(rs, r)) = RT!Applied(TableOf(rs), r)
<1>1. CASE r.kind = "upsert"
  <2>1. r.id \in RouteIds /\ r.data \in Payloads
    BY <1>1 DEF RT!Requests
  <2>2. NewRecords(rs, r) = Upserted(rs, r.id, r.data)
    BY <1>1 DEF NewRecords
  <2>3. RT!Applied(TableOf(rs), r) = [TableOf(rs) EXCEPT ![r.id] = r.data]
    BY <1>1 DEF RT!Applied
  <2>4. /\ Upserted(rs, r.id, r.data) \in SUBSET Records
        /\ Unique(Upserted(rs, r.id, r.data))
        /\ TableOf(Upserted(rs, r.id, r.data)) = [TableOf(rs) EXCEPT ![r.id] = r.data]
    BY <2>1, UpsertedTable
  <2> QED
    BY <2>2, <2>3, <2>4
<1>2. CASE r.kind = "remove"
  <2>1. r.id \in RouteIds
    BY <1>2 DEF RT!Requests
  <2>2. NewRecords(rs, r) = Removed(rs, r.id)
    BY <1>2 DEF NewRecords
  <2>3. RT!Applied(TableOf(rs), r) = [TableOf(rs) EXCEPT ![r.id] = Absent]
    BY <1>2 DEF RT!Applied
  <2> QED
    BY <2>1, <2>2, <2>3, RemovedTable
<1>3. CASE r.kind = "save"
  <2>1. r.table \in RT!Tables
    BY <1>3, SavedTablesAssumption DEF RT!Requests, RT!Tables
  <2>2. NewRecords(rs, r) = Listed(r.table)
    BY <1>3 DEF NewRecords
  <2>3. RT!Applied(TableOf(rs), r) = r.table
    BY <1>3 DEF RT!Applied
  <2> QED
    BY <2>1, <2>2, <2>3, ListedTable
<1> QED
  BY <1>1, <1>2, <1>3 DEF RT!Requests

(***************************************************************************)
(* The inductive invariant                                                 *)
(***************************************************************************)

(* The list in the file is a list of records. *)
LEMMA ContentsType ==
    ASSUME TypeOK
    PROVE  Contents(file) \in SUBSET Records
BY FileAssumption DEF TypeOK, Contents

(* A list of records is neither of the two file marks. *)
LEMMA ContentsOfList ==
    ASSUME NEW rs \in SUBSET Records
    PROVE  Contents(rs) = rs
BY FileAssumption DEF Contents

(* The empty file satisfies the invariant. *)
LEMMA InitIInv == Init => IInv
<1> SUFFICES ASSUME Init
             PROVE  IInv
  OBVIOUS
<1> USE DEF Init
<1>1. TypeOK
  BY FileAssumption DEF TypeOK, Labels, RT!Answers
<1>2. UniqueIds
  BY DEF UniqueIds, Unique, Contents
<1>3. Asked
  BY DEF Asked
<1>4. HolderInside
  BY WorkerAssumption DEF HolderInside, Inside
<1>5. BufFresh
  BY DEF BufFresh, Saving
<1>6. TmpComplete
  BY DEF TmpComplete
<1> QED
  BY <1>1, <1>2, <1>3, <1>4, <1>5, <1>6 DEF IInv

(* At most one worker is inside the critical section. *)
LEMMA OneInside ==
    ASSUME IInv, NEW v \in Workers, NEW w \in Workers, Inside(v), Inside(w)
    PROVE  v = w
BY DEF IInv, HolderInside

(* A step that leaves the files and the mutex alone and moves worker w     *)
(* among the labels outside the saving steps keeps the invariant as far as *)
(* the saving workers go.                                                  *)
LEMMA OthersKeep ==
    ASSUME IInv, NEW w \in Workers,
           file' = file, tmp' = tmp,
           NEW l \in {"idle", "lock", "read", "unlock"}, pc' = [pc EXCEPT ![w] = l],
           \A v \in Workers : v # w => buf'[v] = buf[v] /\ request'[v] = request[v]
    PROVE  UniqueIds' /\ BufFresh' /\ TmpComplete'
<1>1. UniqueIds'
  BY DEF IInv, UniqueIds
<1>2. \A v \in Workers : Saving(v)' => v # w /\ Saving(v)
  BY DEF Saving, IInv, TypeOK
<1>3. BufFresh'
  BY <1>2 DEF IInv, BufFresh
<1>4. TmpComplete'
  BY <1>2 DEF IInv, TmpComplete, TypeOK
<1> QED
  BY <1>1, <1>3, <1>4

(* A call that is let into the critical section (state.go:33, 39, 83, 102). *)
LEMMA OutsideStep ==
    ASSUME IInv, NEW w \in Workers, Call(w) \/ Lock(w)
    PROVE  IInv'
<1>1. CASE Call(w)
  <2> USE <1>1 DEF Call, Goto
  <2>1. TypeOK'
    BY DEF IInv, TypeOK, Labels
  <2>2. UniqueIds' /\ BufFresh' /\ TmpComplete'
    <3>1. \A v \in Workers : v # w => buf'[v] = buf[v] /\ request'[v] = request[v]
      BY DEF IInv, TypeOK
    <3> QED
      BY <3>1, OthersKeep
  <2>3. Asked'
    BY DEF IInv, TypeOK, Asked
  <2>4. HolderInside'
    BY DEF IInv, TypeOK, HolderInside, Inside
  <2> QED
    BY <2>1, <2>2, <2>3, <2>4 DEF IInv
<1>2. CASE Lock(w)
  <2> USE <1>2 DEF Lock, Goto
  <2>1. TypeOK'
    BY DEF IInv, TypeOK, Labels
  <2>2. UniqueIds' /\ BufFresh' /\ TmpComplete'
    BY OthersKeep
  <2>3. Asked'
    BY DEF IInv, TypeOK, Asked
  <2>4. HolderInside'
    BY WorkerAssumption DEF IInv, TypeOK, HolderInside, Inside
  <2> QED
    BY <2>1, <2>2, <2>3, <2>4 DEF IInv
<1> QED
  BY <1>1, <1>2

(* An answer that ends a call is an answer. *)
LEMMA AnswerType ==
    /\ RT!NoAnswer \in RT!Answers
    /\ RT!Failed \in RT!Answers
    /\ RT!Done \in RT!Answers
    /\ \A t \in RT!Tables : RT!Loaded(t) \in RT!Answers
BY DEF RT!Answers

(* A call that gives up with an error, at whatever step inside the         *)
(* critical section and whatever it leaves of the temporary file.          *)
LEMMA FailStep ==
    ASSUME IInv, NEW w \in Workers, Inside(w), Fail(w),
           UNCHANGED <<file, tmp, mutex, request, buf>>
    PROVE  IInv'
<1> USE DEF Fail, Finish, Goto
<1>1. TypeOK'
  BY AnswerType DEF IInv, TypeOK, Labels
<1>2. UniqueIds' /\ BufFresh' /\ TmpComplete'
  BY OthersKeep
<1>3. Asked'
  BY DEF IInv, TypeOK, Asked, Inside
<1>4. HolderInside'
  BY DEF IInv, TypeOK, HolderInside, Inside
<1> QED
  BY <1>1, <1>2, <1>3, <1>4 DEF IInv

(* Between two saving steps the file, the list and the request stay; only  *)
(* the temporary file moves.                                               *)
LEMMA SavingStep ==
    ASSUME IInv, NEW w \in Workers, Saving(w),
           NEW l \in {"create", "fill", "rename"}, Goto(w, l),
           tmp' \in {Missing, Partial} \cup SUBSET Records,
           l = "rename" => tmp' = buf[w],
           UNCHANGED <<file, mutex, request, buf, answer>>
    PROVE  IInv'
<1> USE DEF Goto
<1>1. TypeOK'
  BY DEF IInv, TypeOK, Labels
<1>2. UniqueIds'
  BY DEF IInv, UniqueIds
<1>3. Asked'
  BY DEF IInv, TypeOK, Asked, Saving
<1>4. HolderInside'
  BY DEF IInv, TypeOK, HolderInside, Inside, Saving
<1>5. \A v \in Workers : Saving(v)' => Saving(v)
  BY DEF IInv, TypeOK, Saving
<1>6. BufFresh'
  BY <1>5 DEF IInv, BufFresh
<1>7. TmpComplete'
  <2>1. SUFFICES ASSUME NEW v \in Workers, pc'[v] = "rename"
                 PROVE  tmp' = buf'[v]
    BY DEF TmpComplete
  <2>2. v = w
    <3>1. Inside(v) /\ Inside(w)
      BY <2>1, <1>5 DEF Saving, Inside
    <3> QED
      BY <3>1, OneInside
  <2> QED
    BY <2>1, <2>2 DEF IInv, TypeOK
<1> QED
  BY <1>1, <1>2, <1>3, <1>4, <1>6, <1>7 DEF IInv

(* Every step of a call in the critical section keeps the invariant. *)
LEMMA InsideStep ==
    ASSUME IInv, NEW w \in Workers, Step(w)
    PROVE  IInv'
<1>1. CASE ReadToReturn(w)
  <2> USE <1>1 DEF ReadToReturn, Finish, Goto
  <2>1. RT!Loaded(TableOf(Contents(file))) \in RT!Answers
    BY ContentsType, TableType, AnswerType DEF IInv
  <2>2. TypeOK'
    BY <2>1 DEF IInv, TypeOK, Labels
  <2>3. UniqueIds' /\ BufFresh' /\ TmpComplete'
    BY OthersKeep
  <2>4. Asked'
    BY DEF IInv, TypeOK, Asked
  <2>5. HolderInside'
    BY DEF IInv, TypeOK, HolderInside, Inside
  <2> QED
    BY <2>2, <2>3, <2>4, <2>5 DEF IInv
<1>2. CASE ReadToChange(w)
  <2> USE <1>2 DEF ReadToChange, Goto
  <2> DEFINE new == NewRecords(Contents(file), request[w])
  <2>1. /\ new \in SUBSET Records
        /\ Unique(new)
        /\ TableOf(new) = RT!Applied(TableOf(Contents(file)), request[w])
    <3>1. Contents(file) \in SUBSET Records /\ Unique(Contents(file))
      BY ContentsType DEF IInv, UniqueIds
    <3>2. request[w] \in RT!Requests /\ request[w].kind # "load"
      BY DEF IInv, Asked
    <3> QED
      BY <3>1, <3>2, NewRecordsTable
  <2>2. TypeOK'
    BY <2>1 DEF IInv, TypeOK, Labels
  <2>3. UniqueIds'
    BY DEF IInv, UniqueIds
  <2>4. Asked'
    BY DEF IInv, TypeOK, Asked
  <2>5. HolderInside'
    BY DEF IInv, TypeOK, HolderInside, Inside
  <2>6. \A v \in Workers : v # w => ~ Saving(v)
    <3> SUFFICES ASSUME NEW v \in Workers, v # w, Saving(v)
                 PROVE  FALSE
      OBVIOUS
    <3>1. Inside(v) /\ Inside(w)
      BY DEF Saving, Inside
    <3> QED
      BY <3>1, OneInside
  <2>7. BufFresh'
    <3> SUFFICES ASSUME NEW v \in Workers, Saving(v)'
                 PROVE  /\ Unique(buf'[v])
                        /\ request'[v].kind # "load"
                        /\ TableOf(buf'[v]) =
                              RT!Applied(TableOf(Contents(file')), request'[v])
      BY DEF BufFresh
    <3>1. v = w
      BY <2>6 DEF Saving, IInv, TypeOK
    <3>2. buf'[w] = new
      BY DEF IInv, TypeOK
    <3> HIDE DEF new
    <3> QED
      BY <2>1, <3>1, <3>2
  <2>8. TmpComplete'
    BY <2>6 DEF TmpComplete, Saving, IInv, TypeOK
  <2> QED
    BY <2>2, <2>3, <2>4, <2>5, <2>7, <2>8 DEF IInv
<1>3. CASE ReadFails(w)
  BY <1>3, FailStep DEF ReadFails, Inside
<1>4. CASE CleanTmp(w)
  <2>1. CASE tmp' = Missing /\ Goto(w, "create") /\ UNCHANGED answer
    BY <1>4, <2>1, SavingStep DEF CleanTmp, Saving
  <2>2. CASE Fail(w) /\ UNCHANGED tmp
    BY <1>4, <2>2, FailStep DEF CleanTmp, Inside
  <2> QED
    BY <1>4, <2>1, <2>2 DEF CleanTmp
<1>5. CASE CreateTmp(w)
  <2>1. CASE tmp' = Partial /\ Goto(w, "fill") /\ UNCHANGED answer
    BY <1>5, <2>1, SavingStep DEF CreateTmp, Saving
  <2>2. CASE Fail(w) /\ UNCHANGED tmp
    BY <1>5, <2>2, FailStep DEF CreateTmp, Inside
  <2> QED
    BY <1>5, <2>1, <2>2 DEF CreateTmp
<1>6. CASE FillTmp(w)
  <2>1. CASE tmp' = buf[w] /\ Goto(w, "rename") /\ UNCHANGED answer
    <3>1. buf[w] \in SUBSET Records
      BY DEF IInv, TypeOK
    <3> QED
      BY <1>6, <2>1, <3>1, SavingStep DEF FillTmp, Saving
  <2>2. CASE Fail(w) /\ UNCHANGED tmp
    BY <1>6, <2>2, FailStep DEF FillTmp, Inside
  <2> QED
    BY <1>6, <2>1, <2>2 DEF FillTmp
<1>7. CASE Rename(w)
  <2>1. CASE file' = tmp /\ tmp' = Missing /\ Finish(w, RT!Done)
    <3> USE <1>7, <2>1 DEF Rename, Finish, Goto
    <3>1. file' = buf[w] /\ buf[w] \in SUBSET Records /\ Unique(buf[w])
      BY DEF IInv, TypeOK, TmpComplete, BufFresh, Saving
    <3>2. TypeOK'
      BY <3>1, AnswerType, FileAssumption DEF IInv, TypeOK, Labels
    <3>3. UniqueIds'
      BY <3>1, ContentsOfList DEF UniqueIds
    <3>4. Asked'
      BY DEF IInv, TypeOK, Asked
    <3>5. HolderInside'
      BY DEF IInv, TypeOK, HolderInside, Inside
    <3>6. \A v \in Workers : ~ Saving(v)'
      <4> SUFFICES ASSUME NEW v \in Workers, Saving(v)'
                   PROVE  FALSE
        OBVIOUS
      <4>1. v # w /\ Inside(v) /\ Inside(w)
        BY DEF Saving, Inside, IInv, TypeOK
      <4> QED
        BY <4>1, OneInside
    <3>7. BufFresh' /\ TmpComplete'
      BY <3>6 DEF BufFresh, TmpComplete, Saving
    <3> QED
      BY <3>2, <3>3, <3>4, <3>5, <3>7 DEF IInv
  <2>2. CASE Fail(w) /\ UNCHANGED <<file, tmp>>
    BY <1>7, <2>2, FailStep DEF Rename, Inside
  <2> QED
    BY <1>7, <2>1, <2>2 DEF Rename
<1>8. CASE Unlock(w)
  <2> USE <1>8 DEF Unlock, Goto
  <2>1. TypeOK'
    BY AnswerType DEF IInv, TypeOK, Labels
  <2>2. UniqueIds' /\ BufFresh' /\ TmpComplete'
    <3>1. \A v \in Workers : v # w => buf'[v] = buf[v] /\ request'[v] = request[v]
      BY DEF IInv, TypeOK
    <3> QED
      BY <3>1, OthersKeep
  <2>3. Asked'
    BY DEF IInv, TypeOK, Asked
  <2>4. HolderInside'
    BY WorkerAssumption DEF IInv, TypeOK, HolderInside, Inside
  <2> QED
    BY <2>1, <2>2, <2>3, <2>4 DEF IInv
<1> QED
  BY <1>1, <1>2, <1>3, <1>4, <1>5, <1>6, <1>7, <1>8 DEF Step

(* A crash keeps the invariant: what it leaves on disk is a whole file. *)
LEMMA CrashStep ==
    ASSUME IInv, Crash
    PROVE  IInv'
<1> USE DEF Crash
<1>1. TypeOK'
  BY AnswerType DEF IInv, TypeOK, Labels
<1>2. UniqueIds'
  BY DEF IInv, UniqueIds
<1>3. Asked' /\ HolderInside' /\ BufFresh' /\ TmpComplete'
  BY WorkerAssumption DEF Asked, HolderInside, Inside, BufFresh, Saving, TmpComplete
<1> QED
  BY <1>1, <1>2, <1>3 DEF IInv

(* IInv is an invariant of the store. *)
THEOREM Inductive == Spec => []IInv
<1>1. IInv /\ [Next]_vars => IInv'
  <2> SUFFICES ASSUME IInv, [Next]_vars
               PROVE  IInv'
    OBVIOUS
  <2>1. CASE \E w \in Workers : Call(w) \/ Lock(w) \/ Step(w)
    BY <2>1, OutsideStep, InsideStep
  <2>2. CASE Crash
    BY <2>2, CrashStep
  <2>3. CASE UNCHANGED vars
    BY <2>3 DEF vars, IInv, TypeOK, UniqueIds, Asked, HolderInside, Inside,
                BufFresh, Saving, TmpComplete
  <2> QED
    BY <2>1, <2>2, <2>3 DEF Next
<1> QED
  BY <1>1, InitIInv, PTL DEF Spec

(* Every variable keeps its type; the state file is a whole list of        *)
(* records at every instant, a crash included (state.go:64-80).            *)
THEOREM TypeCorrect == Spec => []TypeOK
BY Inductive, PTL DEF IInv

(* One record per route identifier, however calls overlap and wherever     *)
(* crashes fall (state.go:82-99).                                          *)
THEOREM OneRecordPerRoute == Spec => []UniqueIds
BY Inductive, PTL DEF IInv

(***************************************************************************)
(* The store implements RouteTable                                         *)
(***************************************************************************)

PhaseOf(label) ==
    CASE label = "idle"   -> "idle"
      [] label = "unlock" -> "served"
      [] OTHER            -> "called"

(* The phase of a call depends on its label only. *)
LEMMA PhaseAt ==
    /\ PhaseOf("idle") = "idle"
    /\ PhaseOf("unlock") = "served"
    /\ \A l \in Labels \ {"idle", "unlock"} : PhaseOf(l) = "called"
BY DEF PhaseOf, Labels

(* A step of one worker moves the phase of that worker only. *)
LEMMA PhaseMoves ==
    ASSUME TypeOK, NEW w \in Workers, NEW l \in Labels, Goto(w, l)
    PROVE  phase' = [phase EXCEPT ![w] = PhaseOf(l)]
<1>1. phase = [v \in Workers |-> PhaseOf(pc[v])]
  BY DEF phase, PhaseOf
<1>2. phase' = [v \in Workers |-> PhaseOf(pc'[v])]
  BY DEF phase, PhaseOf
<1>3. \A v \in Workers : pc'[v] = IF v = w THEN l ELSE pc[v]
  BY DEF TypeOK, Goto
<1> QED
  BY <1>1, <1>2, <1>3

(* The phase read off the label of one worker. *)
LEMMA PhaseIs ==
    ASSUME NEW w \in Workers
    PROVE  phase[w] = PhaseOf(pc[w])
BY DEF phase, PhaseOf

(* A step between two labels of one phase leaves the phases as they are. *)
LEMMA PhaseStays ==
    ASSUME TypeOK, NEW w \in Workers,
           pc[w] \in Labels \ {"idle", "unlock"},
           NEW l \in Labels \ {"idle", "unlock"}, Goto(w, l)
    PROVE  phase' = phase
<1>1. phase' = [phase EXCEPT ![w] = PhaseOf(l)]
  BY PhaseMoves
<1>2. phase[w] = "called" /\ PhaseOf(l) = "called"
  BY PhaseIs, PhaseAt
<1> QED
  BY <1>1, <1>2 DEF phase

(* A call that gives up refuses the abstract request. *)
LEMMA FailRefuses ==
    ASSUME TypeOK, NEW w \in Workers, pc[w] \in Labels \ {"idle", "unlock"},
           Fail(w), UNCHANGED <<file, request>>
    PROVE  RT!Refuse(w)
<1>1. phase[w] = "called"
  BY PhaseIs, PhaseAt
<1>2. phase' = [phase EXCEPT ![w] = "served"]
  BY PhaseMoves, PhaseAt DEF Fail, Finish, Labels
<1> QED
  BY <1>1, <1>2 DEF RT!Refuse, Fail, Finish

(* Every step of a call is a step of the abstract call or changes nothing  *)
(* the abstract table shows.                                               *)
LEMMA StepImplements ==
    ASSUME IInv, NEW w \in Workers, Call(w) \/ Lock(w) \/ Step(w)
    PROVE  RT!Next \/ UNCHANGED RT!vars
<1>0. TypeOK
  BY DEF IInv
<1>a. ASSUME NEW l \in Labels \ {"idle", "unlock"},
             pc[w] \in Labels \ {"idle", "unlock"}, Goto(w, l),
             UNCHANGED <<file, request, answer>>
      PROVE  UNCHANGED RT!vars
  BY <1>0, <1>a, PhaseStays DEF RT!vars
<1>b. ASSUME pc[w] \in Labels \ {"idle", "unlock"}, Fail(w),
             UNCHANGED <<file, request>>
      PROVE  RT!Next
  BY <1>0, <1>b, FailRefuses DEF RT!Next
<1>1. CASE Call(w)
  <2>1. phase[w] = "idle"
    BY <1>1, PhaseIs, PhaseAt DEF Call
  <2>2. phase' = [phase EXCEPT ![w] = "called"]
    BY <1>0, <1>1, PhaseMoves, PhaseAt DEF Call, Labels
  <2>3. RT!Invoke(w)
    BY <1>1, <2>1, <2>2 DEF Call, RT!Invoke
  <2> QED
    BY <2>3 DEF RT!Next
<1>2. CASE Lock(w)
  BY <1>2, <1>a DEF Lock, Labels
<1>3. CASE ReadToReturn(w)
  <2>1. phase[w] = "called"
    BY <1>3, PhaseIs, PhaseAt DEF ReadToReturn, Labels
  <2>2. phase' = [phase EXCEPT ![w] = "served"]
    BY <1>0, <1>3, PhaseMoves, PhaseAt DEF ReadToReturn, Finish, Labels
  <2>3. /\ RT!Applied(TableOf(Contents(file)), request[w]) = TableOf(Contents(file))
        /\ RT!Reply(TableOf(Contents(file)), request[w])
              = RT!Loaded(TableOf(Contents(file)))
    BY <1>3 DEF ReadToReturn, RT!Applied, RT!Reply
  <2>4. RT!Serve(w)
    BY <1>3, <2>1, <2>2, <2>3 DEF ReadToReturn, Finish, RT!Serve
  <2> QED
    BY <2>4 DEF RT!Next
<1>4. CASE ReadToChange(w)
  BY <1>4, <1>a DEF ReadToChange, Labels
<1>5. CASE ReadFails(w)
  BY <1>5, <1>b DEF ReadFails, Labels
<1>6. CASE CleanTmp(w)
  BY <1>6, <1>a, <1>b DEF CleanTmp, Labels
<1>7. CASE CreateTmp(w)
  BY <1>7, <1>a, <1>b DEF CreateTmp, Labels
<1>8. CASE FillTmp(w)
  BY <1>8, <1>a, <1>b DEF FillTmp, Labels
<1>9. CASE Rename(w)
  <2>1. CASE Fail(w) /\ UNCHANGED <<file, tmp>>
    BY <1>9, <2>1, <1>b DEF Rename, Labels
  <2>2. CASE file' = tmp /\ tmp' = Missing /\ Finish(w, RT!Done)
    <3>1. phase[w] = "called"
      BY <1>9, PhaseIs, PhaseAt DEF Rename, Labels
    <3>2. phase' = [phase EXCEPT ![w] = "served"]
      BY <1>0, <2>2, PhaseMoves, PhaseAt DEF Finish, Labels
    <3>3. /\ Contents(file') = buf[w]
          /\ TableOf(buf[w]) = RT!Applied(TableOf(Contents(file)), request[w])
          /\ request[w].kind # "load"
      <4>1. tmp = buf[w] /\ buf[w] \in SUBSET Records
        BY <1>9 DEF Rename, IInv, TypeOK, TmpComplete
      <4>2. Contents(file') = buf[w]
        BY <2>2, <4>1, ContentsOfList
      <4> QED
        BY <1>9, <4>2 DEF Rename, IInv, BufFresh, Saving
    <3>4. RT!Reply(TableOf(Contents(file)), request[w]) = RT!Done
      BY <3>3 DEF RT!Reply
    <3>5. TableOf(Contents(file)') = RT!Applied(TableOf(Contents(file)), request[w])
      BY <3>3 DEF Contents
    <3>6. RT!Serve(w)
      BY <1>9, <2>2, <3>1, <3>2, <3>4, <3>5 DEF Rename, Finish, RT!Serve, Contents, TableOf
    <3> QED
      BY <3>6 DEF RT!Next
  <2> QED
    BY <1>9, <2>1, <2>2 DEF Rename
<1>10. CASE Unlock(w)
  <2>1. phase[w] = "served"
    BY <1>10, PhaseIs, PhaseAt DEF Unlock
  <2>2. phase' = [phase EXCEPT ![w] = "idle"]
    BY <1>0, <1>10, PhaseMoves, PhaseAt DEF Unlock, Labels
  <2>3. RT!Return(w)
    BY <1>10, <2>1, <2>2 DEF Unlock, RT!Return
  <2> QED
    BY <2>3 DEF RT!Next
<1> QED
  BY <1>1, <1>2, <1>3, <1>4, <1>5, <1>6, <1>7, <1>8, <1>9, <1>10 DEF Step

(* The store implements the atomic, crash-safe table of RouteTable: what   *)
(* its callers rely on when Upsert, Remove and Load overlap or the plugin  *)
(* dies (state.go:44-45, 64-116).                                          *)
THEOREM Refinement == Spec => Implements
<1>1. Init => RT!Init
  <2> SUFFICES ASSUME Init
               PROVE  RT!Init
    OBVIOUS
  <2>1. TableOf(Contents(file)) = [id \in RouteIds |-> Absent]
    BY DEF Init, Contents, TableOf
  <2>2. phase = [w \in Workers |-> "idle"]
    BY DEF Init, phase
  <2> QED
    BY <2>1, <2>2 DEF Init, RT!Init
<1>2. IInv /\ [Next]_vars => [RT!Next]_(RT!vars)
  <2> SUFFICES ASSUME IInv, [Next]_vars
               PROVE  RT!Next \/ UNCHANGED RT!vars
    OBVIOUS
  <2>1. CASE \E w \in Workers : Call(w) \/ Lock(w) \/ Step(w)
    BY <2>1, StepImplements
  <2>2. CASE Crash
    <3>1. phase' = [w \in Workers |-> "idle"]
      BY <2>2 DEF Crash, phase
    <3>2. RT!Crash
      BY <2>2, <3>1 DEF Crash, RT!Crash
    <3> QED
      BY <3>2 DEF RT!Next
  <2>3. CASE UNCHANGED vars
    BY <2>3 DEF vars, RT!vars, phase
  <2> QED
    BY <2>1, <2>2, <2>3 DEF Next
<1> QED
  BY <1>1, <1>2, Inductive, PTL DEF Spec, Implements, RT!Spec

=============================================================================
