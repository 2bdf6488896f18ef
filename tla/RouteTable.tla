----------------------------- MODULE RouteTable -----------------------------
(***************************************************************************)
(* What core.StateStore promises its callers, with no file, no mutex and   *)
(* no JSON: one table from route identifiers to route data.  Every call    *)
(* takes effect at one instant between its invocation and its return, or   *)
(* fails and changes nothing.  A crash of the plugin ends the calls in     *)
(* progress; each of them has by then taken effect completely or not at    *)
(* all.                                                                    *)
(***************************************************************************)

CONSTANTS
    Workers,       \* goroutines that may call the store
    RouteIds,      \* RouteRecord.RouteID values
    Payloads,      \* the other fields of a RouteRecord
    SavedTables,   \* the tables some caller passes to Save
    Absent         \* "no record with this identifier"

Tables == [RouteIds -> Payloads \cup {Absent}]

Requests ==
         [kind : {"load"}]
    \cup [kind : {"remove"}, id : RouteIds]
    \cup [kind : {"upsert"}, id : RouteIds, data : Payloads]
    \cup [kind : {"save"}, table : SavedTables]

(* The table after a request that succeeds. *)
Applied(t, r) ==
    CASE r.kind = "load"   -> t
      [] r.kind = "remove" -> [t EXCEPT ![r.id] = Absent]
      [] r.kind = "upsert" -> [t EXCEPT ![r.id] = r.data]
      [] r.kind = "save"   -> r.table

NoRequest == [kind |-> "none"]

NoAnswer == [status |-> "none"]
Failed   == [status |-> "error"]
Loaded(t) == [status |-> "loaded", table |-> t]
Done     == [status |-> "ok"]

Answers == {NoAnswer, Failed, Done} \cup {Loaded(t) : t \in Tables}

Reply(t, r) == IF r.kind = "load" THEN Loaded(t) ELSE Done

VARIABLES
    table,     \* the route table
    phase,     \* phase[w]: where worker w is in its call
    request,   \* request[w]: the call of worker w
    answer     \* answer[w]: what that call returns

vars == <<table, phase, request, answer>>

Init ==
    /\ table = [id \in RouteIds |-> Absent]
    /\ phase = [w \in Workers |-> "idle"]
    /\ request = [w \in Workers |-> NoRequest]
    /\ answer = [w \in Workers |-> NoAnswer]

Invoke(w) ==
    /\ phase[w] = "idle"
    /\ phase' = [phase EXCEPT ![w] = "called"]
    /\ \E r \in Requests : request' = [request EXCEPT ![w] = r]
    /\ UNCHANGED <<table, answer>>

Serve(w) ==
    /\ phase[w] = "called"
    /\ phase' = [phase EXCEPT ![w] = "served"]
    /\ table' = Applied(table, request[w])
    /\ answer' = [answer EXCEPT ![w] = Reply(table, request[w])]
    /\ UNCHANGED request

Refuse(w) ==
    /\ phase[w] = "called"
    /\ phase' = [phase EXCEPT ![w] = "served"]
    /\ answer' = [answer EXCEPT ![w] = Failed]
    /\ UNCHANGED <<table, request>>

Return(w) ==
    /\ phase[w] = "served"
    /\ phase' = [phase EXCEPT ![w] = "idle"]
    /\ request' = [request EXCEPT ![w] = NoRequest]
    /\ answer' = [answer EXCEPT ![w] = NoAnswer]
    /\ UNCHANGED table

Crash ==
    /\ phase' = [w \in Workers |-> "idle"]
    /\ request' = [w \in Workers |-> NoRequest]
    /\ answer' = [w \in Workers |-> NoAnswer]
    /\ UNCHANGED table

Next ==
    \/ \E w \in Workers : Invoke(w) \/ Serve(w) \/ Refuse(w) \/ Return(w)
    \/ Crash

Spec == Init /\ [][Next]_vars

=============================================================================
