------------------------- MODULE CaddyClientProofs -------------------------
(***************************************************************************)
(* What is proved of CaddyClient for any number of callers, identifiers    *)
(* and payloads.  The type invariant holds on every node, the rest where   *)
(* every setup is safe to post to (PostSafe), safe to create lists on      *)
(* (NodeSafe), or both.                                                    *)
(***************************************************************************)
EXTENDS CaddyClient, SequenceTheorems, TLAPS

(***************************************************************************)
(* The inductive invariants                                                *)
(***************************************************************************)

Upserting == {"get", "put", "post", "parent", "init", "repost"}

(* A call of this kind, working on this list, may be at this step.         *)
Fits(label, k, kind) ==
    /\ label \in {"idle", "flag", "automate"} => k = "tls"
    /\ label = "flag" => kind = "add"
    /\ label \in Upserting \cup {"automate"} => kind \in {"add", "replay"}
    /\ label \in {"deleteRoute", "deleteTls"} => kind = "delete"
    /\ label = "stop" => kind \in {"add", "restart"}

Stages ==
    \A c \in Clients :
        /\ Fits(pc[c], list[c], call[c].kind)
        /\ pc[c] # "idle" => call[c].id \in owned[c]

Typed == TypeOK /\ Stages

(* The GET has said that the object is not there, and nobody else adds it. *)
PostSees == \A c \in Clients : pc[c] = "post" /\ Alone(c) => ~ Has(list[c], call[c].id)

(* Only a node that refuses duplicates is given what it lacks and then     *)
(* the object a second time.                                               *)
RepostRefused == \A c \in Clients : pc[c] \in {"init", "repost"} => rejects

Erased ==
    \A c \in Clients : call[c].kind = "delete" /\ Alone(c) =>
        /\ pc[c] = "deleteTls" /\ ~ failed[c] => ~ Has("route", call[c].id)
        /\ pc[c] = "done" /\ result[c] = "ok" => \A k \in Lists : ~ Has(k, call[c].id)

(* What holds on a node that is safe to post to.                           *)
PostInv ==
    /\ Typed
    /\ SafeToPost(parent, rejects, owned)
    /\ PostSees
    /\ RepostRefused
    /\ NoDuplicates
    /\ Erased

(* Nothing is held where the list is missing, and no flag where the app is *)
(* missing.                                                                *)
MissingIsEmpty ==
    /\ \A k \in Lists, id \in Ids : Has(k, id) => parent[k] = "ready"
    /\ certsOff => parent["tls"] # "none"

(* What was found missing still is.                                        *)
InitSees == \A c \in Clients : pc[c] = "init" => parent[list[c]] = "none"

(* What holds on a node that is safe to create lists on.                   *)
NodeInv ==
    /\ Typed
    /\ SafeToInit(parent, owned)
    /\ MissingIsEmpty
    /\ InitSees

PolicyIn(c) ==
    \/ pc[c] \in {"automate", "stop"}
    \/ pc[c] \in Upserting /\ list[c] = "route"
    \/ pc[c] = "done" /\ result[c] = "ok"

RouteIn(c) == pc[c] = "stop" \/ (pc[c] = "done" /\ result[c] = "ok")

Installed ==
    \A c \in Clients : call[c].kind \in {"add", "replay"} /\ Alone(c) =>
        /\ PolicyIn(c) => objs["tls"][call[c].id] = <<call[c].data>>
        /\ RouteIn(c) => objs["route"][call[c].id] = <<call[c].data>>

(* Past disableLocalCerts the internal CA stays off.                       *)
FlagSet ==
    \A c \in Clients :
        call[c].kind = "add" /\ pc[c] \in Upserting \cup {"automate", "stop", "done"} =>
            certsOff \/ result[c] = "error"

IInv == PostInv /\ NodeInv /\ Installed /\ FlagSet

(***************************************************************************)
(* The sequences of objects under one identifier                           *)
(***************************************************************************)

(* PUT /id/<id> changes the payload of the first object and neither adds   *)
(* nor removes one (caddy.go:214-229).                                     *)
LEMMA ReplaceFirst ==
    ASSUME NEW s \in Seq(Payloads), NEW d \in Payloads, s # <<>>
    PROVE  /\ [s EXCEPT ![1] = d] \in Seq(Payloads)
           /\ [s EXCEPT ![1] = d] # <<>>
           /\ Len([s EXCEPT ![1] = d]) = Len(s)
           /\ Head([s EXCEPT ![1] = d]) = d
           /\ Len(s) <= 1 => [s EXCEPT ![1] = d] = <<d>>
OBVIOUS

(* DELETE /id/<id> takes one object away (caddy.go:457-473).               *)
LEMMA EraseFirst ==
    ASSUME NEW s \in Seq(Payloads), s # <<>>
    PROVE  /\ Tail(s) \in Seq(Payloads)
           /\ Len(s) <= 1 => Tail(s) = <<>>
OBVIOUS

(* A POST to a list adds one object (caddy.go:241-250).                    *)
LEMMA AppendOne ==
    ASSUME NEW s \in Seq(Payloads), NEW d \in Payloads
    PROVE  /\ Append(s, d) \in Seq(Payloads)
           /\ Append(s, d) # <<>>
           /\ s = <<>> => Append(s, d) = <<d>>
<1>1. Append(s, d) \in Seq(Payloads) /\ Append(s, d) # <<>>
    BY AppendProperties
<1>2. ASSUME s = <<>>
      PROVE  Append(s, d) = <<d>>
    BY <1>2
<1> QED
    BY <1>1, <1>2

(***************************************************************************)
(* What a step may change                                                  *)
(***************************************************************************)

NodeTypes ==
    /\ parent \in [Lists -> Parents]
    /\ objs \in [Lists -> [Ids -> Seq(Payloads)]]
    /\ certsOff \in BOOLEAN
    /\ up \in BOOLEAN

CallTypes ==
    /\ pc \in [Clients -> Labels]
    /\ call \in [Clients -> Calls]
    /\ list \in [Clients -> Lists]
    /\ failed \in [Clients -> BOOLEAN]
    /\ result \in [Clients -> {"none", "ok", "error"}]
    /\ \A c \in Clients : /\ result[c] = "none" <=> pc[c] # "done"
                          /\ failed[c] => pc[c] \in {"deleteTls", "done"}

(* What the requests of a call do to the node, each with the guard under   *)
(* which it does it.                                                       *)
NodeEffect(c) ==
    LET id == call[c].id
        d  == call[c].data
    IN  \/ UNCHANGED node
        \/ pc[c] = "put" /\ Has(list[c], id) /\ Replace(list[c], id, d)
        \/ pc[c] \in {"post", "repost"} /\ CanAppend(list[c], id) /\ Append1(list[c], id, d)
        \/ pc[c] = "init" /\ Overwrite(list[c], id, d)
        \/ pc[c] = "flag" /\ SetFlag
        \/ pc[c] = "deleteRoute" /\ Has("route", id) /\ Erase("route", id)
        \/ pc[c] = "deleteTls" /\ Has("tls", id) /\ Erase("tls", id)
        \/ pc[c] = "stop" /\ up' = FALSE /\ UNCHANGED <<parent, objs, certsOff>>

(* Where an upsert leads that has returned nil: to the order for the       *)
(* certificate, to the restart, or to the end of a ReplayRoute (caddy.go:  *)
(* 392-447).                                                               *)
LEMMA UpsertedGoesOn ==
    ASSUME Typed, NEW c \in Clients, pc[c] \in Upserting, Upserted(c)
    PROVE  \/ list[c] = "tls" /\ Proceed(c, "automate")
           \/ list[c] = "route" /\ call[c].kind = "add" /\ Proceed(c, "stop")
           \/ list[c] = "route" /\ call[c].kind = "replay" /\ Succeeds(c)
<1>1. list[c] \in {"tls", "route"} /\ call[c].kind \in {"add", "replay"}
    BY DEF Typed, TypeOK, Lists, Stages, Fits
<1>2. CASE list[c] = "tls"
    BY <1>2 DEF Upserted
<1>3. CASE list[c] = "route" /\ call[c].kind = "add"
    BY <1>3 DEF Upserted
<1>4. CASE list[c] = "route" /\ call[c].kind = "replay"
    BY <1>4 DEF Upserted
<1> QED
    BY <1>1, <1>2, <1>3, <1>4

(* The step of a call changes the node by its one request and in no other  *)
(* way.                                                                    *)
LEMMA StepEffect ==
    ASSUME Typed, NEW c \in Clients, Begin(c) \/ Step(c) \/ Return(c)
    PROVE  NodeEffect(c) /\ UNCHANGED setup
<1>0. ASSUME pc[c] \in Upserting, Upserted(c)
      PROVE  UNCHANGED setup
    BY <1>0, UpsertedGoesOn DEF Proceed, Succeeds
<1>1. CASE Begin(c) \/ Return(c)
    BY <1>1 DEF Begin, Return, NodeEffect
<1>2. CASE Get(c)
    BY <1>2 DEF Get, Proceed, Fails, NodeEffect
<1>3. CASE Put(c)
    BY <1>3, <1>0 DEF Upserting, Put, Mutate, Fails, NodeEffect
<1>4. CASE Post(c)
    BY <1>4, <1>0 DEF Upserting, Post, Mutate, Proceed, Fails, NodeEffect
<1>5. CASE Parent(c)
    BY <1>5 DEF Parent, Proceed, Fails, NodeEffect
<1>6. CASE InitParent(c)
    BY <1>6 DEF InitParent, Mutate, Proceed, Fails, NodeEffect
<1>7. CASE Repost(c)
    BY <1>7, <1>0 DEF Upserting, Repost, Mutate, Fails, NodeEffect
<1>8. CASE DisableLocalCerts(c)
    BY <1>8 DEF DisableLocalCerts, Mutate, Proceed, Fails, NodeEffect
<1>9. CASE Automate(c)
    BY <1>9 DEF Automate, Fails, NodeEffect
<1>10. CASE Stop(c)
    BY <1>10 DEF Stop, Succeeds, Fails, NodeEffect
<1>11. CASE DeleteRoute(c)
    BY <1>11 DEF DeleteRoute, Mutate, Proceed, DeleteFailed, NodeEffect
<1>12. CASE DeleteTls(c)
    BY <1>12 DEF DeleteTls, Mutate, Succeeds, Fails, NodeEffect
<1> QED
    BY <1>1, <1>2, <1>3, <1>4, <1>5, <1>6, <1>7, <1>8, <1>9, <1>10, <1>11, <1>12 DEF Step

(* Whatever a request does to the node, the node stays one.                *)
LEMMA NodeTypesKept ==
    ASSUME Typed, NEW c \in Clients, NodeEffect(c)
    PROVE  NodeTypes'
<1> DEFINE id == call[c].id
           d  == call[c].data
           k  == list[c]
<1>1. /\ k \in Lists /\ {"tls", "route"} = Lists
      /\ id \in Ids /\ d \in Payloads
      /\ NodeTypes
    BY DEF Typed, TypeOK, Calls, Lists, NodeTypes
<1> HIDE DEF id, d, k
<1>2. CASE UNCHANGED node
    BY <1>1, <1>2 DEF NodeTypes, node
<1>3. ASSUME NEW l \in Lists, NEW s \in Seq(Payloads), SetObjs(l, id, s)
      PROVE  objs' \in [Lists -> [Ids -> Seq(Payloads)]]
    BY <1>1, <1>3 DEF NodeTypes, SetObjs
<1>4. \A l \in Lists : objs[l][id] \in Seq(Payloads)
    BY <1>1 DEF NodeTypes
<1>5. CASE Has(k, id) /\ Replace(k, id, d)
    BY <1>1, <1>3, <1>4, <1>5, ReplaceFirst DEF Has, Replace, NodeTypes
<1>6. CASE Append1(k, id, d)
    BY <1>1, <1>3, <1>4, <1>6, AppendOne DEF Append1, NodeTypes
<1>7. CASE \E l \in Lists : Has(l, id) /\ Erase(l, id)
    BY <1>1, <1>3, <1>4, <1>7, EraseFirst DEF Has, Erase, NodeTypes
<1>8. CASE Overwrite(k, id, d)
  <2>1. [i \in Ids |-> IF i = id THEN <<d>> ELSE <<>>] \in [Ids -> Seq(Payloads)]
      BY <1>1
  <2>2. objs' \in [Lists -> [Ids -> Seq(Payloads)]]
      BY <1>1, <1>8, <2>1 DEF Overwrite, NodeTypes
  <2> QED
      BY <1>1, <1>8, <2>2 DEF Overwrite, NodeTypes, Parents
<1>9. CASE SetFlag
    BY <1>1, <1>9 DEF SetFlag, NodeTypes, Parents
<1>10. CASE up' = FALSE /\ UNCHANGED <<parent, objs, certsOff>>
    BY <1>1, <1>10 DEF NodeTypes
<1> QED
    BY <1>1, <1>2, <1>5, <1>6, <1>7, <1>8, <1>9, <1>10 DEF NodeEffect, id, d, k

(* A call that goes on to a step that fits it.                             *)
LEMMA ProceedFits ==
    ASSUME Typed, NEW c \in Clients, NEW label \in Labels \ {"idle", "done"},
           pc[c] \notin {"idle", "done"}, failed[c] => label = "deleteTls",
           Fits(label, list[c], call[c].kind), Proceed(c, label)
    PROVE  CallTypes' /\ Stages'
<1>1. CallTypes'
    BY DEF Typed, TypeOK, CallTypes, Proceed, Goto
<1>2. Stages'
    BY DEF Typed, TypeOK, Stages, Proceed, Goto, setup
<1> QED
    BY <1>1, <1>2

(* A call that is over.                                                    *)
LEMMA DoneFits ==
    ASSUME Typed, NEW c \in Clients, pc[c] # "idle", NEW r \in {"ok", "error"}, Done(c, r),
           UNCHANGED <<setup, call, list, failed>>
    PROVE  CallTypes' /\ Stages'
<1>1. CallTypes'
    BY DEF Typed, TypeOK, CallTypes, Done, Goto, Labels
<1>2. Stages'
    BY DEF Typed, TypeOK, Stages, Done, Goto, setup, Fits, Upserting
<1> QED
    BY <1>1, <1>2

(* There are calls: the one a client has while it is idle is among them.   *)
LEMMA AnyCall == (CHOOSE r \in Calls : TRUE) \in Calls
<1>1. PICK i \in Ids, d \in Payloads : TRUE
    BY InputAssumption
<1>2. [kind |-> "add", id |-> i, data |-> d] \in Calls
    BY DEF Calls
<1> QED
    BY <1>2

(* Every step of a call fits the call.                                     *)
LEMMA CallTypesKept ==
    ASSUME Typed, NEW c \in Clients, Begin(c) \/ Step(c) \/ Return(c)
    PROVE  CallTypes' /\ Stages'
<1>1. /\ call[c] \in Calls /\ list[c] \in Lists /\ pc[c] \in Labels
      /\ failed[c] => pc[c] \in {"deleteTls", "done"}
      /\ Fits(pc[c], list[c], call[c].kind)
    BY DEF Typed, TypeOK, Stages
<1>2. ASSUME Fails(c) \/ Succeeds(c), pc[c] # "idle"
      PROVE  CallTypes' /\ Stages'
    BY <1>2, DoneFits DEF Fails, Succeeds
<1>3. ASSUME pc[c] \in Upserting, Upserted(c)
      PROVE  CallTypes' /\ Stages'
  <2>1. pc[c] \notin {"idle", "done"} /\ ~ failed[c]
      BY <1>1, <1>3 DEF Upserting
  <2>2. CASE list[c] = "tls" /\ Proceed(c, "automate")
      BY <1>1, <1>3, <2>1, <2>2, ProceedFits DEF Fits, Labels, Upserting
  <2>3. CASE list[c] = "route" /\ call[c].kind = "add" /\ Proceed(c, "stop")
      BY <1>1, <2>1, <2>3, ProceedFits DEF Fits, Labels, Upserting
  <2>4. CASE Succeeds(c)
      BY <1>2, <2>1, <2>4
  <2> QED
      BY <1>3, <2>2, <2>3, <2>4, UpsertedGoesOn
<1>4. ASSUME NEW label \in Upserting, pc[c] \in Upserting \cup {"flag"}, Proceed(c, label)
      PROVE  CallTypes' /\ Stages'
  <2>1. /\ label \in Labels \ {"idle", "done"} /\ ~ failed[c]
        /\ pc[c] \notin {"idle", "done"}
        /\ Fits(label, list[c], call[c].kind)
      BY <1>1, <1>4 DEF Upserting, Labels, Fits
  <2> QED
      BY <1>4, <2>1, ProceedFits
<1>5. CASE Begin(c)
  <2>1. PICK r \in Calls : /\ r.id \in owned[c]
                           /\ call' = [call EXCEPT ![c] = r]
                           /\ Goto(c, First(r.kind))
      BY <1>5 DEF Begin
  <2>2. /\ First(r.kind) \in Labels \ {"idle", "done", "deleteTls"}
        /\ Fits(First(r.kind), "tls", r.kind)
      BY DEF First, Calls, Labels, Fits, Upserting
  <2>3. pc[c] = "idle" /\ UNCHANGED <<setup, list, failed, result>>
      BY <1>5 DEF Begin
  <2>4. CallTypes'
      BY <2>1, <2>2, <2>3 DEF Typed, TypeOK, CallTypes, Goto
  <2>5. Stages'
      BY <1>1, <2>1, <2>2, <2>3 DEF Typed, TypeOK, Stages, Goto, setup, Fits
  <2> QED
      BY <2>4, <2>5
<1>6. CASE Get(c)
    BY <1>2, <1>4, <1>6 DEF Get, Upserting
<1>7. CASE Put(c)
    BY <1>2, <1>3, <1>7 DEF Put, Mutate, Upserting
<1>8. CASE Post(c)
    BY <1>2, <1>3, <1>4, <1>8 DEF Post, Mutate, Upserting
<1>9. CASE Parent(c)
    BY <1>2, <1>4, <1>9 DEF Parent, Upserting
<1>10. CASE InitParent(c)
    BY <1>2, <1>4, <1>10 DEF InitParent, Mutate, Upserting
<1>11. CASE Repost(c)
    BY <1>2, <1>3, <1>11 DEF Repost, Mutate, Upserting
<1>12. CASE DisableLocalCerts(c)
    BY <1>2, <1>4, <1>12 DEF DisableLocalCerts, Mutate, Upserting
<1>13. CASE Automate(c)
  <2>1. CASE /\ Goto(c, "get")
             /\ list' = [list EXCEPT ![c] = "route"]
             /\ UNCHANGED <<setup, call, failed, result>>
    <3>1. pc[c] = "automate" /\ call[c].kind \in {"add", "replay"} /\ ~ failed[c]
        BY <1>1, <1>13 DEF Automate, Fits
    <3>2. CallTypes'
        BY <2>1, <3>1 DEF Typed, TypeOK, CallTypes, Goto, Labels, Lists
    <3>3. Stages'
        BY <2>1, <3>1 DEF Typed, TypeOK, Stages, Goto, setup, Fits
    <3> QED
        BY <3>2, <3>3
  <2> QED
      BY <1>2, <1>13, <2>1 DEF Automate
<1>14. CASE Stop(c)
    BY <1>2, <1>14 DEF Stop
<1>15. CASE DeleteRoute(c)
  <2>1. pc[c] = "deleteRoute" /\ call[c].kind = "delete" /\ ~ failed[c]
      BY <1>1, <1>15 DEF DeleteRoute, Fits
  <2>2. Fits("deleteTls", list[c], call[c].kind)
      BY <2>1 DEF Fits, Upserting
  <2>3. CASE Proceed(c, "deleteTls")
      BY <2>1, <2>2, <2>3, ProceedFits DEF Labels
  <2>4. CASE DeleteFailed(c, "deleteTls")
    <3>1. CallTypes'
        BY <2>1, <2>4 DEF Typed, TypeOK, CallTypes, DeleteFailed, Goto, Labels
    <3>2. Stages'
        BY <2>1, <2>2, <2>4 DEF Typed, TypeOK, Stages, DeleteFailed, Goto, setup
    <3> QED
        BY <3>1, <3>2
  <2> QED
      BY <1>15, <2>3, <2>4 DEF DeleteRoute, Mutate
<1>16. CASE DeleteTls(c)
    BY <1>2, <1>16 DEF DeleteTls, Mutate
<1>17. CASE Return(c)
  <2>1. (CHOOSE r \in Calls : TRUE) \in Calls
      BY AnyCall
  <2>2. CallTypes'
      BY <1>17, <2>1 DEF Return, Typed, TypeOK, CallTypes, Goto, Labels, Lists
  <2>3. Stages'
      BY <1>17 DEF Return, Typed, TypeOK, Stages, Goto, setup, Fits, Upserting
  <2> QED
      BY <2>2, <2>3
<1> QED
    BY <1>5, <1>6, <1>7, <1>8, <1>9, <1>10, <1>11, <1>12, <1>13, <1>14, <1>15, <1>16, <1>17
    DEF Step

(* Types and stages are kept by every step.                                *)
LEMMA TypedKept == Typed /\ [Next]_vars => Typed'
<1> SUFFICES ASSUME Typed, [Next]_vars
             PROVE  Typed'
    OBVIOUS
<1>1. ASSUME NEW c \in Clients, Begin(c) \/ Step(c) \/ Return(c)
      PROVE  Typed'
  <2>1. NodeTypes' /\ UNCHANGED setup
      BY <1>1, StepEffect, NodeTypesKept
  <2>2. CallTypes' /\ Stages'
      BY <1>1, CallTypesKept
  <2> QED
      BY <2>1, <2>2 DEF Typed, TypeOK, NodeTypes, CallTypes, setup
<1>2. CASE NodeUp
    BY <1>2 DEF NodeUp, setup, Typed, TypeOK, Stages
<1>3. CASE UNCHANGED vars
    BY <1>3 DEF vars, node, setup, Typed, TypeOK, Stages
<1> QED
    BY <1>1, <1>2, <1>3 DEF Next

(* A node in one of the situations we start from.                          *)
LEMMA InitTyped == Init => Typed
<1> SUFFICES ASSUME Init
             PROVE  Typed
    OBVIOUS
<1>1. PICK s \in Setups :
          /\ parent = s.parent
          /\ rejects = s.rejects
          /\ owned = s.owned
          /\ \E d \in Payloads :
               objs = [k \in Lists |-> [id \in Ids |-> IF id \in s.there THEN <<d>> ELSE <<>>]]
    BY DEF Init
<1>2. /\ parent \in [Lists -> Parents]
      /\ rejects \in BOOLEAN
      /\ owned \in [Clients -> SUBSET Ids]
    BY <1>1, SetupAssumption
<1>3. objs \in [Lists -> [Ids -> Seq(Payloads)]]
    BY <1>1
<1>4. /\ pc = [c \in Clients |-> "idle"]
      /\ call \in [Clients -> {CHOOSE r \in Calls : TRUE}]
      /\ list = [c \in Clients |-> "tls"]
      /\ failed = [c \in Clients |-> FALSE]
      /\ result = [c \in Clients |-> "none"]
      /\ certsOff = FALSE /\ up = TRUE
    BY DEF Init
<1>5. call \in [Clients -> Calls]
    BY <1>4, AnyCall
<1>6. TypeOK
    BY <1>2, <1>3, <1>4, <1>5 DEF TypeOK, Labels, Lists
<1>7. Stages
    BY <1>4 DEF Stages, Fits, Upserting
<1> QED
    BY <1>6, <1>7 DEF Typed

(* On any node and for any callers, every variable keeps its type, a       *)
(* result is there exactly when the call is over, and the errors of a      *)
(* delete belong to one call (caddy.go:451-478).                           *)
THEOREM TypeCorrect == Spec => []TypeOK
<1>1. Spec => []Typed
    BY InitTyped, TypedKept, PTL DEF Spec
<1> QED
    BY <1>1, PTL DEF Typed

(* A step of one client leaves the calls of the others alone.              *)
Untouched(b) ==
    /\ pc'[b] = pc[b] /\ call'[b] = call[b] /\ list'[b] = list[b]
    /\ failed'[b] = failed[b] /\ result'[b] = result[b]

(* What two calls share is the node.                                       *)
LEMMA OthersUntouched ==
    ASSUME Typed, NEW a \in Clients, Begin(a) \/ Step(a) \/ Return(a)
    PROVE  \A b \in Clients \ {a} : Untouched(b)
<1> USE DEF Typed, TypeOK, Untouched, Goto
<1>1. ASSUME NEW label, Proceed(a, label)
      PROVE  \A b \in Clients \ {a} : Untouched(b)
    BY <1>1 DEF Proceed
<1>2. ASSUME Fails(a) \/ Succeeds(a) \/ DeleteFailed(a, "deleteTls")
      PROVE  \A b \in Clients \ {a} : Untouched(b)
    BY <1>2 DEF Fails, Succeeds, Done, DeleteFailed
<1>3. ASSUME pc[a] \in Upserting, Upserted(a)
      PROVE  \A b \in Clients \ {a} : Untouched(b)
    BY <1>1, <1>2, <1>3, UpsertedGoesOn
<1>4. CASE Begin(a)
    BY <1>4 DEF Begin
<1>5. CASE Return(a)
    BY <1>5 DEF Return
<1>6. CASE Get(a) \/ Parent(a)
    BY <1>1, <1>2, <1>6 DEF Get, Parent
<1>7. CASE Put(a) \/ Repost(a)
    BY <1>2, <1>3, <1>7 DEF Put, Repost, Mutate, Upserting
<1>8. CASE Post(a)
    BY <1>1, <1>2, <1>3, <1>8 DEF Post, Mutate, Upserting
<1>9. CASE InitParent(a) \/ DisableLocalCerts(a)
    BY <1>1, <1>2, <1>9 DEF InitParent, DisableLocalCerts, Mutate
<1>10. CASE Automate(a)
    BY <1>2, <1>10 DEF Automate
<1>11. CASE Stop(a)
    BY <1>2, <1>11 DEF Stop
<1>12. CASE DeleteRoute(a)
    BY <1>1, <1>2, <1>12 DEF DeleteRoute, Mutate
<1>13. CASE DeleteTls(a)
    BY <1>2, <1>13 DEF DeleteTls, Mutate
<1> QED
    BY <1>4, <1>5, <1>6, <1>7, <1>8, <1>9, <1>10, <1>11, <1>12, <1>13 DEF Step

(* A request changes nothing under another identifier, except that the PUT *)
(* that creates a list takes away what is in it.                           *)
LEMMA ElsewhereUnchanged ==
    ASSUME Typed, NEW a \in Clients, NodeEffect(a), NEW k \in Lists, NEW i \in Ids,
           i # call[a].id
    PROVE  \/ objs'[k][i] = objs[k][i]
           \/ pc[a] = "init" /\ k = list[a] /\ objs'[k][i] = <<>>
<1> DEFINE id == call[a].id
           d  == call[a].data
<1>1. /\ objs \in [Lists -> [Ids -> Seq(Payloads)]] /\ {"tls", "route"} = Lists
      /\ id \in Ids /\ i # id /\ list[a] \in Lists
    BY DEF Typed, TypeOK, Calls, Lists
<1> HIDE DEF id, d
<1>2. ASSUME NEW l \in Lists, NEW s, SetObjs(l, id, s)
      PROVE  objs'[k][i] = objs[k][i]
    BY <1>1, <1>2 DEF SetObjs
<1>3. CASE pc[a] = "init" /\ Overwrite(list[a], id, d)
    BY <1>1, <1>3 DEF Overwrite
<1>4. CASE UNCHANGED objs
    BY <1>4
<1> QED
    BY <1>1, <1>2, <1>3, <1>4
    DEF NodeEffect, node, Replace, Append1, Erase, SetFlag, id, d

(* What holds a list stays.                                                *)
LEMMA ParentsStay ==
    ASSUME Typed, NEW a \in Clients, NodeEffect(a), NEW k \in Lists
    PROVE  /\ parent[k] # "none" => parent'[k] # "none"
           /\ parent[k] = "ready" => parent'[k] = "ready"
           /\ parent'[k] # parent[k] => pc[a] \in {"flag", "init"}
<1>1. /\ parent \in [Lists -> Parents] /\ {"tls", "route"} = Lists
      /\ list[a] \in Lists
    BY DEF Typed, TypeOK, Lists
<1>2. CASE pc[a] = "init" /\ Overwrite(list[a], call[a].id, call[a].data)
    BY <1>1, <1>2 DEF Overwrite
<1>3. CASE pc[a] = "flag" /\ SetFlag
    BY <1>1, <1>3 DEF SetFlag
<1>4. CASE UNCHANGED parent
    BY <1>4
<1> QED
    BY <1>2, <1>3, <1>4 DEF NodeEffect, node, Replace, Append1, Erase

(***************************************************************************)
(* How a call gets where it is                                             *)
(***************************************************************************)

(* The requests of upsertByID that leave the object with the payload.      *)
Wrote(c) ==
    \/ /\ pc[c] = "put"
       /\ Has(list[c], call[c].id) /\ Replace(list[c], call[c].id, call[c].data)
    \/ /\ pc[c] \in {"post", "repost"}
       /\ CanAppend(list[c], call[c].id) /\ Append1(list[c], call[c].id, call[c].data)

(* Where the requests of a call lead to.                                   *)
Arrives(c) ==
    LET id == call[c].id
    IN  /\ call' = call
        /\ pc'[c] = "post" => /\ pc[c] = "get" /\ ~ Has(list[c], id)
                              /\ UNCHANGED <<node, list>>
        /\ pc'[c] = "init" => /\ pc[c] = "parent" /\ parent[list[c]] = "none"
                              /\ UNCHANGED <<node, list>>
        /\ pc'[c] = "repost" => pc[c] = "init"
        /\ pc'[c] = "deleteTls" /\ ~ failed'[c] =>
              /\ pc[c] = "deleteRoute"
              /\ \/ Has("route", id) /\ Erase("route", id)
                 \/ ~ Has("route", id) /\ UNCHANGED node
        /\ call[c].kind = "delete" /\ pc'[c] = "done" /\ result'[c] = "ok" =>
              /\ pc[c] = "deleteTls" /\ ~ failed[c]
              /\ \/ Has("tls", id) /\ Erase("tls", id)
                 \/ ~ Has("tls", id) /\ UNCHANGED node
        /\ call[c].kind \in {"add", "replay"} /\ PolicyIn(c)' =>
              \/ list[c] = "tls" /\ Wrote(c)
              \/ PolicyIn(c) /\ (UNCHANGED objs \/ list[c] = "route")
        /\ call[c].kind \in {"add", "replay"} /\ RouteIn(c)' =>
              \/ list[c] = "route" /\ Wrote(c)
              \/ RouteIn(c) /\ UNCHANGED objs
        /\ call[c].kind = "add" /\ pc'[c] \in Upserting \cup {"automate", "stop", "done"} =>
              \/ pc[c] = "flag" /\ SetFlag
              \/ pc[c] \in Upserting \cup {"automate", "stop"}
              \/ result'[c] = "error"

(* A call that goes on is at the step named, and as it was otherwise.      *)
LEMMA ProceedArrives ==
    ASSUME Typed, NEW c \in Clients, NEW label, Proceed(c, label)
    PROVE  /\ pc'[c] = label /\ call' = call /\ list' = list
           /\ failed' = failed /\ result' = result
BY DEF Typed, TypeOK, Proceed, Goto

(* A call that ends has its result, and is as it was otherwise.            *)
LEMMA DoneArrives ==
    ASSUME Typed, NEW c \in Clients, NEW r, Done(c, r), UNCHANGED <<setup, call, list, failed>>
    PROVE  /\ pc'[c] = "done" /\ result'[c] = r
           /\ call' = call /\ list' = list /\ failed' = failed
BY DEF Typed, TypeOK, Done, Goto

(* A step leads where Arrives says, with the effect it takes to get there. *)
LEMMA StepArrives ==
    ASSUME Typed, NEW c \in Clients, Step(c)
    PROVE  Arrives(c)
<1> USE DEF PolicyIn, RouteIn
<1>1. /\ call[c] \in Calls /\ list[c] \in Lists
      /\ result[c] = "none" <=> pc[c] # "done"
      /\ failed[c] => pc[c] \in {"deleteTls", "done"}
      /\ Fits(pc[c], list[c], call[c].kind)
      /\ pc \in [Clients -> Labels] /\ list \in [Clients -> Lists]
      /\ failed \in [Clients -> BOOLEAN]
    BY DEF Typed, TypeOK, Stages
<1>2. ASSUME Fails(c), pc[c] # "done"
      PROVE  Arrives(c)
  <2>1. /\ pc'[c] = "done" /\ result'[c] = "error"
        /\ call' = call /\ list' = list /\ failed' = failed
      BY <1>2, DoneArrives DEF Fails
  <2> QED
      BY <2>1 DEF Arrives, Upserting
<1>3. ASSUME pc[c] \in {"put", "post", "repost"}, Upserted(c), Wrote(c)
      PROVE  Arrives(c)
  <2>1. pc[c] \in Upserting /\ call[c].kind # "delete"
      BY <1>1, <1>3 DEF Upserting, Fits
  <2>2. CASE list[c] = "tls" /\ Proceed(c, "automate")
      BY <1>3, <2>1, <2>2, ProceedArrives DEF Arrives, Upserting
  <2>3. CASE list[c] = "route" /\ call[c].kind = "add" /\ Proceed(c, "stop")
      BY <1>3, <2>1, <2>3, ProceedArrives DEF Arrives, Upserting
  <2>4. CASE list[c] = "route" /\ call[c].kind = "replay" /\ Succeeds(c)
      BY <1>3, <2>1, <2>4, DoneArrives DEF Arrives, Upserting, Succeeds
  <2> QED
      BY <1>3, <2>1, <2>2, <2>3, <2>4, UpsertedGoesOn
<1>4. CASE Get(c)
    BY <1>1, <1>2, <1>4, ProceedArrives DEF Get, node, Arrives, Upserting, Fits
<1>5. CASE Put(c)
    BY <1>2, <1>3, <1>5 DEF Put, Mutate, Wrote
<1>6. CASE Post(c)
  <2>1. CASE UNCHANGED node /\ Proceed(c, "parent")
      BY <1>1, <1>6, <2>1, ProceedArrives DEF Post, node, Arrives, Upserting, Fits
  <2> QED
      BY <1>2, <1>3, <1>6, <2>1 DEF Post, Mutate, Wrote
<1>7. CASE Parent(c)
    BY <1>1, <1>2, <1>7, ProceedArrives DEF Parent, node, Arrives, Upserting, Fits
<1>8. CASE InitParent(c)
  <2>1. CASE Proceed(c, "repost")
      BY <1>1, <1>8, <2>1, ProceedArrives DEF InitParent, Lists, Arrives, Upserting, Fits
  <2> QED
      BY <1>2, <1>8, <2>1 DEF InitParent, Mutate
<1>9. CASE Repost(c)
    BY <1>2, <1>3, <1>9 DEF Repost, Mutate, Wrote
<1>10. CASE DisableLocalCerts(c)
  <2>1. CASE SetFlag /\ Proceed(c, "get")
      BY <1>1, <1>10, <2>1, ProceedArrives DEF DisableLocalCerts, Arrives, Upserting, Fits
  <2> QED
      BY <1>2, <1>10, <2>1 DEF DisableLocalCerts, Mutate
<1>11. CASE Automate(c)
  <2>1. CASE /\ Goto(c, "get")
             /\ list' = [list EXCEPT ![c] = "route"]
             /\ UNCHANGED <<setup, call, failed, result>>
      BY <1>1, <1>11, <2>1 DEF Automate, Goto, node, Arrives, Upserting, Fits
  <2> QED
      BY <1>2, <1>11, <2>1 DEF Automate
<1>12. CASE Stop(c)
  <2>1. CASE Succeeds(c)
      BY <1>1, <1>12, <2>1, DoneArrives DEF Stop, Succeeds, node, Arrives, Upserting, Fits
  <2> QED
      BY <1>2, <1>12, <2>1 DEF Stop
<1>13. CASE DeleteRoute(c)
  <2>1. pc[c] = "deleteRoute" /\ call[c].kind = "delete"
      BY <1>1, <1>13 DEF DeleteRoute, Fits
  <2>2. CASE /\ Proceed(c, "deleteTls")
             /\ \/ Has("route", call[c].id) /\ Erase("route", call[c].id)
                \/ ~ Has("route", call[c].id) /\ UNCHANGED node
      BY <2>1, <2>2, ProceedArrives DEF Arrives, Upserting
  <2>3. CASE DeleteFailed(c, "deleteTls")
    <3>1. /\ pc'[c] = "deleteTls" /\ failed'[c] /\ call' = call
        BY <1>1, <2>3 DEF DeleteFailed, Goto
    <3> QED
        BY <2>1, <3>1 DEF Arrives, Upserting
  <2> QED
      BY <1>13, <2>2, <2>3 DEF DeleteRoute, Mutate
<1>14. CASE DeleteTls(c)
  <2>1. pc[c] = "deleteTls" /\ call[c].kind = "delete"
      BY <1>1, <1>14 DEF DeleteTls, Fits
  <2>2. CASE /\ Succeeds(c) /\ ~ failed[c]
             /\ \/ Has("tls", call[c].id) /\ Erase("tls", call[c].id)
                \/ ~ Has("tls", call[c].id) /\ UNCHANGED node
      BY <2>1, <2>2, DoneArrives DEF Succeeds, Arrives, Upserting
  <2> QED
      BY <1>2, <1>14, <2>1, <2>2 DEF DeleteTls, Mutate
<1> QED
    BY <1>4, <1>5, <1>6, <1>7, <1>8, <1>9, <1>10, <1>11, <1>12, <1>13, <1>14 DEF Step

(* After Begin and Return a call is at its start.                          *)
LEMMA StartsOrEnds ==
    ASSUME Typed, NEW c \in Clients, Begin(c) \/ Return(c)
    PROVE  /\ UNCHANGED <<node, setup>> /\ list'[c] = "tls"
           /\ \/ pc'[c] = "idle"
              \/ pc'[c] = "flag" /\ call'[c].kind = "add"
              \/ pc'[c] = "get" /\ call'[c].kind = "replay"
              \/ pc'[c] = "deleteRoute" /\ call'[c].kind = "delete"
              \/ pc'[c] = "stop" /\ call'[c].kind = "restart"
BY DEF Begin, Return, Goto, First, Calls, Typed, TypeOK, Stages, Fits

(***************************************************************************)
(* Nodes that are safe to post to                                          *)
(***************************************************************************)

(* Where callers are disjoint, none shares the identifier of its call.     *)
LEMMA DisjointAlone ==
    ASSUME Typed, Disjoint(owned), NEW c \in Clients, pc[c] # "idle"
    PROVE  Alone(c)
BY DEF Typed, TypeOK, Stages, Disjoint, Alone

(* A client that is not alone can only be met by one with the same call.   *)
LEMMA AloneApart ==
    ASSUME Typed, NEW c \in Clients, Alone(c), NEW b \in Clients \ {c}, pc[b] # "idle"
    PROVE  call[b].id # call[c].id
BY DEF Typed, Stages, Alone

(* Another client's request does not touch the identifier of a call that   *)
(* is alone, except that it may create the list anew.                      *)
LEMMA AloneUnchanged ==
    ASSUME Typed, NEW c \in Clients, Alone(c), NEW a \in Clients \ {c}, NEW k \in Lists,
           Begin(a) \/ Step(a) \/ Return(a)
    PROVE  \/ objs'[k][call[c].id] = objs[k][call[c].id]
           \/ pc[a] = "init" /\ k = list[a] /\ objs'[k][call[c].id] = <<>>
<1>1. CASE pc[a] = "idle"
    BY <1>1 DEF Begin, Return, Step, Get, Put, Post, Parent, InitParent, Repost,
           DisableLocalCerts, Automate, Stop, DeleteRoute, DeleteTls, node
<1>2. CASE pc[a] # "idle"
  <2>1. call[a].id # call[c].id /\ call[c].id \in Ids /\ NodeEffect(a)
      BY <1>2, AloneApart, StepEffect DEF Typed, TypeOK, Calls
  <2> QED
      BY <2>1, ElsewhereUnchanged
<1> QED
    BY <1>1, <1>2

(* The setup does not change, and what holds a list stays.                 *)
LEMMA SafeToPostKept ==
    ASSUME Typed, NEW a \in Clients, Begin(a) \/ Step(a) \/ Return(a)
    PROVE  /\ SafeToPost(parent, rejects, owned) => SafeToPost(parent, rejects, owned)'
           /\ SafeToInit(parent, owned) => SafeToInit(parent, owned)'
<1>1. NodeEffect(a) /\ rejects' = rejects /\ owned' = owned
    BY StepEffect DEF setup
<1>2. Configured(parent) => Configured(parent')
    BY <1>1, ParentsStay DEF Configured
<1> QED
    BY <1>1, <1>2 DEF SafeToPost, SafeToInit

(* Between the GET and the POST only another caller of the identifier      *)
(* could add the object (caddy.go:207-250).                                *)
LEMMA PostSeesKept ==
    ASSUME Typed, PostSees, NEW a \in Clients, Begin(a) \/ Step(a) \/ Return(a)
    PROVE  PostSees'
<1> SUFFICES ASSUME NEW c \in Clients, pc'[c] = "post", Alone(c)'
             PROVE  ~ Has(list[c], call[c].id)'
    BY DEF PostSees
<1>1. owned' = owned
    BY StepEffect DEF setup
<1>2. CASE c # a
  <2>1. Untouched(c)
      BY <1>2, OthersUntouched
  <2>2. Alone(c) /\ list[c] \in Lists /\ ~ Has(list[c], call[c].id)
      BY <1>1, <2>1 DEF Alone, Untouched, PostSees, Typed, TypeOK
  <2>3. \/ objs'[list[c]][call[c].id] = objs[list[c]][call[c].id]
        \/ objs'[list[c]][call[c].id] = <<>>
      BY <1>2, <2>2, AloneUnchanged
  <2> QED
      BY <2>1, <2>2, <2>3 DEF Untouched, Has
<1>3. CASE c = a /\ Step(c)
    BY <1>3, StepArrives DEF Arrives, node, Has
<1>4. CASE c = a /\ (Begin(c) \/ Return(c))
    BY <1>4, StartsOrEnds
<1> QED
    BY <1>2, <1>3, <1>4

(* A call gets to the init only on a node that lacks a list, and such a    *)
(* node refuses duplicates (caddy.go:252-281).                             *)
LEMMA RepostRefusedKept ==
    ASSUME Typed, SafeToPost(parent, rejects, owned), RepostRefused,
           NEW a \in Clients, Begin(a) \/ Step(a) \/ Return(a)
    PROVE  RepostRefused'
<1> SUFFICES ASSUME NEW c \in Clients, pc'[c] \in {"init", "repost"}
             PROVE  rejects'
    BY DEF RepostRefused
<1>1. rejects' = rejects
    BY StepEffect DEF setup
<1>2. CASE c # a
    BY <1>1, <1>2, OthersUntouched DEF Untouched, RepostRefused
<1>3. CASE c = a /\ Step(c)
  <2>1. pc[c] = "init" \/ parent[list[c]] = "none"
      BY <1>3, StepArrives DEF Arrives
  <2> QED
      BY <1>1, <2>1 DEF RepostRefused, SafeToPost, Configured, Typed, TypeOK
<1>4. CASE c = a /\ (Begin(c) \/ Return(c))
    BY <1>4, StartsOrEnds
<1> QED
    BY <1>2, <1>3, <1>4

(* A POST that takes effect finds nothing under the identifier.            *)
LEMMA AppendsFirst ==
    ASSUME PostInv, NEW c \in Clients, pc[c] \in {"post", "repost"},
           CanAppend(list[c], call[c].id)
    PROVE  objs[list[c]][call[c].id] = <<>>
<1>1. CASE rejects
    BY <1>1 DEF CanAppend, Has
<1>2. CASE ~ rejects
  <2>1. pc[c] = "post" /\ Disjoint(owned)
      BY <1>2 DEF PostInv, RepostRefused, SafeToPost
  <2> QED
      BY <2>1, DisjointAlone DEF PostInv, PostSees, Has
<1> QED
    BY <1>1, <1>2

(* A POST adds an object only where there is none.                         *)
LEMMA NoDuplicatesKept ==
    ASSUME PostInv, NEW a \in Clients, NodeEffect(a)
    PROVE  NoDuplicates'
<1> DEFINE id == call[a].id
           d  == call[a].data
           l  == list[a]
<1>1. /\ objs \in [Lists -> [Ids -> Seq(Payloads)]] /\ {"tls", "route"} = Lists
      /\ id \in Ids /\ d \in Payloads /\ l \in Lists
      /\ \A k \in Lists, i \in Ids : Len(objs[k][i]) <= 1
    BY DEF PostInv, Typed, TypeOK, Calls, Lists, NoDuplicates
<1>2. \A k \in Lists : objs[k][id] \in Seq(Payloads) /\ Len(objs[k][id]) <= 1
    BY <1>1
<1>3. pc[a] \in {"post", "repost"} /\ CanAppend(l, id) => objs[l][id] = <<>>
    BY AppendsFirst
<1> HIDE DEF id, d, l
<1>4. ASSUME NEW k \in Lists, NEW s, Len(s) <= 1, SetObjs(k, id, s)
      PROVE  NoDuplicates'
    BY <1>1, <1>4 DEF SetObjs, NoDuplicates
<1>5. /\ Len(<<d>>) <= 1 /\ Len(<<>>) <= 1
    OBVIOUS
<1>6. CASE UNCHANGED objs
    BY <1>1, <1>6 DEF NoDuplicates
<1>7. CASE Has(l, id) /\ Replace(l, id, d)
  <2>1. [objs[l][id] EXCEPT ![1] = d] = <<d>>
      BY <1>1, <1>2, <1>7, ReplaceFirst DEF Has
  <2> QED
      BY <1>1, <1>4, <1>5, <1>7, <2>1 DEF Replace
<1>8. CASE pc[a] \in {"post", "repost"} /\ CanAppend(l, id) /\ Append1(l, id, d)
  <2>1. Append(objs[l][id], d) = <<d>>
      BY <1>1, <1>2, <1>3, <1>8, AppendOne
  <2> QED
      BY <1>1, <1>4, <1>5, <1>8, <2>1 DEF Append1
<1>9. ASSUME NEW k \in Lists, Has(k, id) /\ Erase(k, id)
      PROVE  NoDuplicates'
  <2>1. Tail(objs[k][id]) = <<>>
      BY <1>2, <1>9, EraseFirst DEF Has
  <2> QED
      BY <1>4, <1>5, <1>9, <2>1 DEF Erase
<1>10. CASE Overwrite(l, id, d)
    BY <1>1, <1>5, <1>10 DEF Overwrite, NoDuplicates
<1> QED
    BY <1>1, <1>6, <1>7, <1>8, <1>9, <1>10 DEF NodeEffect, node, SetFlag, id, d, l

(* A DELETE leaves nothing under the identifier.                           *)
LEMMA ErasesAll ==
    ASSUME PostInv, NEW c \in Clients, NEW k \in Lists, Has(k, call[c].id), Erase(k, call[c].id)
    PROVE  /\ objs'[k][call[c].id] = <<>>
           /\ \A l \in Lists \ {k} : objs'[l] = objs[l]
<1>1. /\ objs \in [Lists -> [Ids -> Seq(Payloads)]] /\ call[c].id \in Ids
      /\ Len(objs[k][call[c].id]) <= 1
    BY DEF PostInv, Typed, TypeOK, Calls, NoDuplicates
<1>2. Tail(objs[k][call[c].id]) = <<>>
    BY <1>1, EraseFirst DEF Has
<1> QED
    BY <1>1, <1>2 DEF Erase, SetObjs

(* What a delete has removed stays removed while it is alone with its      *)
(* identifier (caddy.go:451-478).                                          *)
LEMMA ErasedKept ==
    ASSUME PostInv, NEW a \in Clients, Begin(a) \/ Step(a) \/ Return(a)
    PROVE  Erased'
<1> SUFFICES ASSUME NEW c \in Clients, call'[c].kind = "delete", Alone(c)'
             PROVE  /\ pc'[c] = "deleteTls" /\ ~ failed'[c] => ~ Has("route", call[c].id)'
                    /\ pc'[c] = "done" /\ result'[c] = "ok" =>
                          \A k \in Lists : ~ Has(k, call[c].id)'
    BY DEF Erased
<1>1. /\ owned' = owned /\ Typed /\ Lists = {"tls", "route"}
    BY StepEffect DEF setup, PostInv, Lists
<1>2. CASE c # a
  <2>1. Untouched(c)
      BY <1>1, <1>2, OthersUntouched
  <2>2. Alone(c) /\ call[c].kind = "delete"
      BY <1>1, <2>1 DEF Alone, Untouched
  <2>3. \A k \in Lists : ~ Has(k, call[c].id) => objs'[k][call[c].id] = <<>>
      BY <1>1, <1>2, <2>2, AloneUnchanged DEF Has
  <2> QED
      BY <1>1, <2>1, <2>2, <2>3 DEF Untouched, Has, PostInv, Erased
<1>3. CASE c = a /\ Step(c)
  <2>1. Arrives(c) /\ call' = call
      BY <1>1, <1>3, StepArrives DEF Arrives
  <2>2. Alone(c)
      BY <1>1, <2>1 DEF Alone
  <2>3. ASSUME pc'[c] = "deleteTls", ~ failed'[c]
        PROVE  ~ Has("route", call[c].id)'
      BY <1>1, <2>1, <2>3, ErasesAll DEF Arrives, Has, node
  <2>4. ASSUME pc'[c] = "done", result'[c] = "ok"
        PROVE  \A k \in Lists : ~ Has(k, call[c].id)'
    <3>1. ~ Has("route", call[c].id)
        BY <2>1, <2>2, <2>4 DEF Arrives, PostInv, Erased
    <3> QED
        BY <1>1, <2>1, <2>4, <3>1, ErasesAll DEF Arrives, Has, node
  <2> QED
      BY <2>3, <2>4
<1>4. CASE c = a /\ (Begin(c) \/ Return(c))
    BY <1>1, <1>4, StartsOrEnds
<1> QED
    BY <1>2, <1>3, <1>4

(* Every step keeps what holds on a node that is safe to post to.          *)
LEMMA PostInvKept == PostInv /\ [Next]_vars => PostInv'
<1> SUFFICES ASSUME PostInv, [Next]_vars
             PROVE  PostInv'
    OBVIOUS
<1>1. Typed /\ Typed'
    BY TypedKept DEF PostInv
<1>2. ASSUME NEW a \in Clients, Begin(a) \/ Step(a) \/ Return(a)
      PROVE  PostInv'
  <2>1. SafeToPost(parent, rejects, owned)' /\ PostSees' /\ RepostRefused'
      BY <1>1, <1>2, SafeToPostKept, PostSeesKept, RepostRefusedKept DEF PostInv
  <2>2. NoDuplicates' /\ Erased'
      BY <1>1, <1>2, StepEffect, NoDuplicatesKept, ErasedKept
  <2> QED
      BY <1>1, <2>1, <2>2 DEF PostInv
<1>3. CASE NodeUp \/ UNCHANGED vars
  <2>1. UNCHANGED <<parent, objs, certsOff, setup, pc, call, list, failed, result>>
      BY <1>3 DEF NodeUp, vars, node
  <2> QED
      BY <1>1, <2>1
      DEF PostInv, setup, SafeToPost, PostSees, RepostRefused, NoDuplicates, Erased, Alone, Has
<1> QED
    BY <1>2, <1>3 DEF Next

(* On nodes that are safe to post to, this always holds.                   *)
LEMMA PostInductive == PostSafe /\ Spec => []PostInv
<1>1. PostSafe /\ Init => PostInv
  <2> SUFFICES ASSUME PostSafe, Init
               PROVE  PostInv
      OBVIOUS
  <2>1. PICK s \in Setups :
            /\ parent = s.parent /\ rejects = s.rejects /\ owned = s.owned
            /\ \E d \in Payloads :
                 objs = [k \in Lists |-> [id \in Ids |-> IF id \in s.there THEN <<d>> ELSE <<>>]]
      BY DEF Init
  <2>2. SafeToPost(parent, rejects, owned)
      BY <2>1 DEF PostSafe
  <2>3. NoDuplicates
      BY <2>1 DEF NoDuplicates
  <2>4. PostSees /\ RepostRefused /\ Erased
      BY DEF Init, PostSees, RepostRefused, Erased
  <2> QED
      BY <2>2, <2>3, <2>4, InitTyped DEF PostInv
<1> QED
    BY <1>1, PostInvKept, PTL DEF Spec

(* A node that refuses a second object with an @id, or that holds both     *)
(* lists while no two callers are concerned with one container, never      *)
(* holds two objects with one @id (caddy.go:232-250), whatever gets lost   *)
(* and however many callers there are.                                     *)
THEOREM NeverTwo == PostSafe /\ Spec => []NoDuplicates
BY PostInductive, PTL DEF PostInv

(* On such a node DeleteRouteAndTLS returns nil only when route and policy *)
(* of its container are gone (caddy.go:451-478).                           *)
THEOREM ErasedWhenOk == PostSafe /\ Spec => []OkMeansErased
<1>1. PostInv => OkMeansErased
    BY DEF PostInv, Erased, OkMeansErased
<1> QED
    BY <1>1, PostInductive, PTL

(***************************************************************************)
(* Nodes that are safe to create lists on                                  *)
(***************************************************************************)

(* The list a call is about to create holds nothing.                       *)
LEMMA CreatesMissing ==
    ASSUME NodeInv, NEW c \in Clients, pc[c] = "init"
    PROVE  /\ parent[list[c]] = "none"
           /\ \A i \in Ids : objs[list[c]][i] = <<>>
           /\ list[c] = "tls" => certsOff = FALSE
BY DEF NodeInv, InitSees, MissingIsEmpty, Has, Typed, TypeOK

(* A request changes nothing under another identifier.                     *)
LEMMA ElsewhereKept ==
    ASSUME NodeInv, NEW a \in Clients, NodeEffect(a), NEW k \in Lists, NEW i \in Ids,
           i # call[a].id
    PROVE  objs'[k][i] = objs[k][i]
<1>1. CASE pc[a] = "init" /\ k = list[a] /\ objs'[k][i] = <<>>
    BY <1>1, CreatesMissing
<1> QED
    BY <1>1, ElsewhereUnchanged DEF NodeInv

(* Only the two DELETEs take an object away, and only the one they are     *)
(* sent for.                                                               *)
LEMMA OnlyDeleteErases ==
    ASSUME NodeInv, NEW a \in Clients, NodeEffect(a), NEW k \in Lists, NEW i \in Ids,
           objs[k][i] # <<>>, objs'[k][i] = <<>>
    PROVE  /\ call[a].id = i
           /\ \/ pc[a] = "deleteRoute" /\ k = "route"
              \/ pc[a] = "deleteTls" /\ k = "tls"
<1> DEFINE id == call[a].id
           d  == call[a].data
           l  == list[a]
<1>1. /\ objs \in [Lists -> [Ids -> Seq(Payloads)]] /\ {"tls", "route"} = Lists
      /\ id \in Ids /\ d \in Payloads /\ l \in Lists
    BY DEF NodeInv, Typed, TypeOK, Calls, Lists
<1>2. i = id
    BY ElsewhereKept
<1>3. \A m \in Lists : objs[m][id] \in Seq(Payloads)
    BY <1>1
<1> HIDE DEF id, d, l
<1>4. ASSUME NEW m \in Lists, NEW s, s # <<>>, SetObjs(m, id, s)
      PROVE  FALSE
    BY <1>1, <1>2, <1>4 DEF SetObjs
<1>5. CASE Has(l, id) /\ Replace(l, id, d)
    BY <1>1, <1>3, <1>4, <1>5, ReplaceFirst DEF Has, Replace
<1>6. CASE Append1(l, id, d)
    BY <1>1, <1>3, <1>4, <1>6, AppendOne DEF Append1
<1>7. CASE Overwrite(l, id, d)
    BY <1>1, <1>2, <1>7 DEF Overwrite
<1>8. ASSUME NEW m \in Lists, Erase(m, id)
      PROVE  m = k
    BY <1>1, <1>8 DEF Erase, SetObjs
<1> QED
    BY <1>1, <1>2, <1>5, <1>6, <1>7, <1>8 DEF NodeEffect, node, SetFlag, id, d, l

(* An object is added only where its list is.                              *)
LEMMA MissingIsEmptyKept ==
    ASSUME NodeInv, NEW a \in Clients, NodeEffect(a)
    PROVE  MissingIsEmpty'
<1> DEFINE id == call[a].id
           d  == call[a].data
           l  == list[a]
<1>1. /\ objs \in [Lists -> [Ids -> Seq(Payloads)]] /\ {"tls", "route"} = Lists
      /\ parent \in [Lists -> Parents]
      /\ id \in Ids /\ d \in Payloads /\ l \in Lists /\ certsOff \in BOOLEAN
    BY DEF NodeInv, Typed, TypeOK, Calls, Lists
<1>2. /\ \A k \in Lists, i \in Ids : objs[k][i] # <<>> => parent[k] = "ready"
      /\ certsOff => parent["tls"] # "none"
    BY DEF NodeInv, MissingIsEmpty, Has
<1>3. \A k \in Lists : /\ parent[k] = "ready" => parent'[k] = "ready"
                       /\ parent[k] # "none" => parent'[k] # "none"
    BY ParentsStay DEF NodeInv
<1> HIDE DEF id, d, l
<1>4. ASSUME NEW k \in Lists, NEW s, parent[k] = "ready", SetObjs(k, id, s)
      PROVE  \A m \in Lists, i \in Ids : objs'[m][i] # <<>> => parent'[m] = "ready"
    BY <1>1, <1>2, <1>3, <1>4 DEF SetObjs
<1>5. \A m \in Lists, i \in Ids : objs'[m][i] # <<>> => parent'[m] = "ready"
  <2>1. CASE Has(l, id) /\ Replace(l, id, d)
      BY <1>1, <1>2, <1>4, <2>1 DEF Has, Replace
  <2>2. CASE CanAppend(l, id) /\ Append1(l, id, d)
      BY <1>1, <1>4, <2>2 DEF CanAppend, Append1
  <2>3. CASE \E k \in Lists : Has(k, id) /\ Erase(k, id)
      BY <1>1, <1>2, <1>4, <2>3 DEF Has, Erase
  <2>4. CASE Overwrite(l, id, d)
      BY <1>1, <1>2, <2>4 DEF Overwrite
  <2>5. CASE UNCHANGED objs
      BY <1>2, <1>3, <2>5
  <2> QED
      BY <1>1, <2>1, <2>2, <2>3, <2>4, <2>5 DEF NodeEffect, node, SetFlag, id, d, l
<1>6. certsOff' => parent'["tls"] # "none"
  <2>1. CASE Overwrite(l, id, d)
      BY <1>1, <1>2, <1>3, <2>1 DEF Overwrite
  <2>2. CASE SetFlag
      BY <1>1, <2>2 DEF SetFlag, Parents
  <2>3. CASE UNCHANGED certsOff
      BY <1>1, <1>2, <1>3, <2>3
  <2> QED
      BY <1>1, <2>1, <2>2, <2>3 DEF NodeEffect, node, Replace, Append1, Erase, id, d, l
<1> QED
    BY <1>5, <1>6 DEF MissingIsEmpty, Has

(* While one caller creates a list nobody else does.                       *)
LEMMA InitSeesKept ==
    ASSUME NodeInv, NEW a \in Clients, Begin(a) \/ Step(a) \/ Return(a)
    PROVE  InitSees'
<1> SUFFICES ASSUME NEW c \in Clients, pc'[c] = "init"
             PROVE  parent'[list'[c]] = "none"
    BY DEF InitSees
<1>1. Typed
    BY DEF NodeInv
<1>2. CASE c # a
  <2>1. /\ Untouched(c) /\ pc[c] = "init" /\ list[c] \in Lists
        /\ parent[list[c]] = "none"
      BY <1>1, <1>2, OthersUntouched DEF Untouched, NodeInv, InitSees, Typed, TypeOK
  <2>2. pc[a] = "idle"
    <3>1. ~ Configured(parent)
        BY <2>1 DEF Configured
    <3> QED
        BY <1>2, <2>1, <3>1 DEF NodeInv, SafeToInit, OneCaller, Typed, Stages
  <2>3. parent' = parent
      BY <2>2 DEF Begin, Return, Step, Get, Put, Post, Parent, InitParent, Repost,
         DisableLocalCerts, Automate, Stop, DeleteRoute, DeleteTls, node
  <2> QED
      BY <2>1, <2>3 DEF Untouched
<1>3. CASE c = a /\ Step(c)
    BY <1>1, <1>3, StepArrives DEF Arrives, node
<1>4. CASE c = a /\ (Begin(c) \/ Return(c))
    BY <1>1, <1>4, StartsOrEnds
<1> QED
    BY <1>2, <1>3, <1>4

(* Every step keeps what holds on a node that is safe to create lists on.  *)
LEMMA NodeInvKept == NodeInv /\ [Next]_vars => NodeInv'
<1> SUFFICES ASSUME NodeInv, [Next]_vars
             PROVE  NodeInv'
    OBVIOUS
<1>1. Typed /\ Typed'
    BY TypedKept DEF NodeInv
<1>2. ASSUME NEW a \in Clients, Begin(a) \/ Step(a) \/ Return(a)
      PROVE  NodeInv'
    BY <1>1, <1>2, StepEffect, SafeToPostKept, MissingIsEmptyKept, InitSeesKept DEF NodeInv
<1>3. CASE NodeUp \/ UNCHANGED vars
  <2>1. UNCHANGED <<parent, objs, certsOff, setup, pc, call, list, failed, result>>
      BY <1>3 DEF NodeUp, vars, node
  <2> QED
      BY <1>1, <2>1 DEF NodeInv, setup, SafeToInit, MissingIsEmpty, InitSees, Has
<1> QED
    BY <1>2, <1>3 DEF Next

(* On nodes that are safe to create lists on, this always holds.           *)
LEMMA NodeInductive == NodeSafe /\ Spec => []NodeInv
<1>1. NodeSafe /\ Init => NodeInv
  <2> SUFFICES ASSUME NodeSafe, Init
               PROVE  NodeInv
      OBVIOUS
  <2>1. PICK s \in Setups :
            /\ parent = s.parent /\ rejects = s.rejects /\ owned = s.owned
            /\ \E d \in Payloads :
                 objs = [k \in Lists |-> [id \in Ids |-> IF id \in s.there THEN <<d>> ELSE <<>>]]
      BY DEF Init
  <2>2. SafeToInit(parent, owned)
      BY <2>1 DEF NodeSafe
  <2>3. \A k \in Lists, i \in Ids : Has(k, i) => i \in s.there
      BY <2>1 DEF Has
  <2>4. s.there # {} => \A k \in Lists : parent[k] = "ready"
      BY <2>1, SetupAssumption
  <2>5. MissingIsEmpty
      BY <2>3, <2>4 DEF Init, MissingIsEmpty
  <2>6. InitSees
      BY DEF Init, InitSees
  <2> QED
      BY <2>2, <2>5, <2>6, InitTyped DEF NodeInv
<1> QED
    BY <1>1, NodeInvKept, PTL DEF Spec

(* Where no list is created by one caller while another calls, nothing but *)
(* a delete of that very identifier takes an object away (caddy.go:185-195,*)
(* 266-277).                                                               *)
THEOREM NothingClobbered == NodeSafe /\ Spec => NoClobber
<1>1. NodeInv /\ [Next]_vars =>
        [\A k \in Lists, id \in Ids :
            Has(k, id) /\ ~ Has(k, id)' =>
              \E c \in Clients : /\ pc[c] \in {"deleteRoute", "deleteTls"}
                                 /\ call[c].id = id]_vars
  <2> SUFFICES ASSUME NodeInv, [Next]_vars,
                      NEW k \in Lists, NEW id \in Ids, Has(k, id), ~ Has(k, id)'
               PROVE  \E c \in Clients : /\ pc[c] \in {"deleteRoute", "deleteTls"}
                                         /\ call[c].id = id
      OBVIOUS
  <2>1. objs[k][id] # <<>> /\ objs'[k][id] = <<>>
      BY DEF Has
  <2>2. PICK a \in Clients : Begin(a) \/ Step(a) \/ Return(a)
      BY <2>1 DEF Next, NodeUp, vars, node
  <2> QED
      BY <2>1, <2>2, StepEffect, OnlyDeleteErases DEF NodeInv
<1> QED
    BY <1>1, NodeInductive, PTL DEF Spec, NoClobber

(***************************************************************************)
(* Nodes that are both                                                     *)
(***************************************************************************)

(* A PUT or POST of upsertByID that takes effect leaves one object under   *)
(* the identifier, with the payload of the call.                           *)
LEMMA WritesOne ==
    ASSUME PostInv, NEW c \in Clients, Wrote(c)
    PROVE  objs'[list[c]][call[c].id] = <<call[c].data>>
<1> DEFINE id == call[c].id
           d  == call[c].data
           l  == list[c]
<1>1. /\ objs \in [Lists -> [Ids -> Seq(Payloads)]]
      /\ id \in Ids /\ d \in Payloads /\ l \in Lists
      /\ objs[l][id] \in Seq(Payloads) /\ Len(objs[l][id]) <= 1
    BY DEF PostInv, Typed, TypeOK, Calls, NoDuplicates
<1>2. pc[c] \in {"post", "repost"} /\ CanAppend(l, id) => objs[l][id] = <<>>
    BY AppendsFirst
<1> SUFFICES objs'[l][id] = <<d>>
    OBVIOUS
<1> HIDE DEF id, d, l
<1>3. ASSUME NEW s, SetObjs(l, id, s)
      PROVE  objs'[l][id] = s
    BY <1>1, <1>3 DEF SetObjs
<1>4. CASE Has(l, id) /\ Replace(l, id, d)
    BY <1>1, <1>3, <1>4, ReplaceFirst DEF Has, Replace
<1>5. CASE pc[c] \in {"post", "repost"} /\ CanAppend(l, id) /\ Append1(l, id, d)
    BY <1>1, <1>2, <1>3, <1>5, AppendOne DEF Append1
<1> QED
    BY <1>4, <1>5 DEF Wrote, id, d, l

(* An upsert of the route does not touch the policies.                     *)
LEMMA PoliciesKept ==
    ASSUME Typed, NEW c \in Clients, NodeEffect(c), list[c] = "route",
           call[c].kind \in {"add", "replay"}
    PROVE  objs'["tls"] = objs["tls"]
<1>1. /\ objs \in [Lists -> [Ids -> Seq(Payloads)]] /\ {"tls", "route"} = Lists
      /\ Fits(pc[c], list[c], call[c].kind)
    BY DEF Typed, TypeOK, Stages, Lists
<1>2. pc[c] # "deleteTls" /\ pc[c] # "deleteRoute"
    BY <1>1 DEF Fits
<1>3. CASE Overwrite(list[c], call[c].id, call[c].data)
    BY <1>1, <1>3 DEF Overwrite
<1>4. ASSUME NEW s, SetObjs("route", call[c].id, s)
      PROVE  objs'["tls"] = objs["tls"]
    BY <1>1, <1>4 DEF SetObjs
<1> QED
    BY <1>2, <1>3, <1>4 DEF NodeEffect, node, Replace, Append1, SetFlag

(* The internal CA is not turned on again.                                 *)
LEMMA FlagStays ==
    ASSUME NodeInv, NEW a \in Clients, NodeEffect(a), certsOff
    PROVE  certsOff'
<1>1. CASE pc[a] = "init" /\ Overwrite(list[a], call[a].id, call[a].data)
    BY <1>1, CreatesMissing DEF Overwrite
<1> QED
    BY <1>1 DEF NodeEffect, node, Replace, Append1, Erase, SetFlag

(* What an upsert has installed stays while its caller is alone with the   *)
(* identifier (caddy.go:380-446).                                          *)
LEMMA InstalledKept ==
    ASSUME PostInv, NodeInv, Installed, NEW a \in Clients, Begin(a) \/ Step(a) \/ Return(a)
    PROVE  Installed'
<1> SUFFICES ASSUME NEW c \in Clients, call'[c].kind \in {"add", "replay"}, Alone(c)'
             PROVE  /\ PolicyIn(c)' => objs'["tls"][call'[c].id] = <<call'[c].data>>
                    /\ RouteIn(c)' => objs'["route"][call'[c].id] = <<call'[c].data>>
    BY DEF Installed
<1>1. /\ Typed /\ NodeEffect(a) /\ owned' = owned /\ Lists = {"tls", "route"}
      /\ call[c].id \in Ids
    BY StepEffect DEF setup, PostInv, Lists, Typed, TypeOK, Calls
<1>2. CASE c # a
  <2>1. Untouched(c)
      BY <1>1, <1>2, OthersUntouched
  <2>2. Alone(c) /\ call[c].kind \in {"add", "replay"}
      BY <1>1, <2>1 DEF Alone, Untouched
  <2>3. ASSUME NEW k \in Lists
        PROVE  objs'[k][call[c].id] = objs[k][call[c].id]
    <3>1. CASE pc[a] = "init" /\ k = list[a] /\ objs'[k][call[c].id] = <<>>
        BY <1>1, <3>1, CreatesMissing
    <3> QED
        BY <1>1, <1>2, <2>2, <3>1, AloneUnchanged
  <2>4. PolicyIn(c)' = PolicyIn(c) /\ RouteIn(c)' = RouteIn(c)
      BY <2>1 DEF Untouched, PolicyIn, RouteIn
  <2> QED
      BY <1>1, <2>1, <2>2, <2>3, <2>4 DEF Untouched, Installed
<1>3. CASE c = a /\ Step(c)
  <2>1. Arrives(c) /\ call' = call
      BY <1>1, <1>3, StepArrives DEF Arrives
  <2>2. Alone(c)
      BY <1>1, <2>1 DEF Alone
  <2>3. ASSUME PolicyIn(c)'
        PROVE  objs'["tls"][call[c].id] = <<call[c].data>>
    <3>1. CASE list[c] = "tls" /\ Wrote(c)
        BY <3>1, WritesOne
    <3>2. CASE PolicyIn(c) /\ (UNCHANGED objs \/ list[c] = "route")
      <4>1. objs'["tls"] = objs["tls"]
          BY <1>1, <1>3, <2>1, <3>2, PoliciesKept
      <4> QED
          BY <2>1, <2>2, <3>2, <4>1 DEF Installed
    <3> QED
        BY <2>1, <2>3, <3>1, <3>2 DEF Arrives
  <2>4. ASSUME RouteIn(c)'
        PROVE  objs'["route"][call[c].id] = <<call[c].data>>
    <3>1. CASE list[c] = "route" /\ Wrote(c)
        BY <3>1, WritesOne
    <3>2. CASE RouteIn(c) /\ UNCHANGED objs
        BY <2>1, <2>2, <3>2 DEF Installed
    <3> QED
        BY <2>1, <2>4, <3>1, <3>2 DEF Arrives
  <2> QED
      BY <2>1, <2>3, <2>4
<1>4. CASE c = a /\ (Begin(c) \/ Return(c))
    BY <1>1, <1>4, StartsOrEnds DEF PolicyIn, RouteIn, Upserting
<1> QED
    BY <1>2, <1>3, <1>4

(* The internal CA stays off once a call has switched it off               *)
(* (caddy.go:417-419).                                                     *)
LEMMA FlagSetKept ==
    ASSUME NodeInv, FlagSet, NEW a \in Clients, Begin(a) \/ Step(a) \/ Return(a)
    PROVE  FlagSet'
<1> SUFFICES ASSUME NEW c \in Clients, call'[c].kind = "add",
                    pc'[c] \in Upserting \cup {"automate", "stop", "done"}, result'[c] # "error"
             PROVE  certsOff'
    BY DEF FlagSet
<1>1. Typed /\ NodeEffect(a)
    BY StepEffect DEF NodeInv
<1>2. CASE c # a
    BY <1>1, <1>2, OthersUntouched, FlagStays DEF Untouched, FlagSet
<1>3. CASE c = a /\ Step(c)
  <2>1. CASE SetFlag
      BY <2>1 DEF SetFlag
  <2>2. CASE pc[c] \in Upserting \cup {"automate", "stop"}
    <3>1. result[c] = "none" /\ call[c].kind = "add"
        BY <1>1, <1>3, <2>2, StepArrives DEF Arrives, Typed, TypeOK, Upserting
    <3> QED
        BY <1>1, <1>3, <2>2, <3>1, FlagStays DEF FlagSet
  <2> QED
      BY <1>1, <1>3, <2>1, <2>2, StepArrives DEF Arrives
<1>4. CASE c = a /\ (Begin(c) \/ Return(c))
    BY <1>1, <1>4, StartsOrEnds DEF Upserting
<1> QED
    BY <1>2, <1>3, <1>4

(* The inductive invariant of a node that is safe in both respects.        *)
LEMMA Inductive == PostSafe /\ NodeSafe /\ Spec => []IInv
<1>1. Init => Installed /\ FlagSet
    BY DEF Init, Installed, FlagSet, PolicyIn, RouteIn, Upserting
<1>2. PostInv /\ NodeInv /\ Installed /\ FlagSet /\ [Next]_vars => Installed' /\ FlagSet'
  <2> SUFFICES ASSUME PostInv, NodeInv, Installed, FlagSet, [Next]_vars
               PROVE  Installed' /\ FlagSet'
      OBVIOUS
  <2>1. ASSUME NEW a \in Clients, Begin(a) \/ Step(a) \/ Return(a)
        PROVE  Installed' /\ FlagSet'
      BY <2>1, InstalledKept, FlagSetKept
  <2>2. CASE NodeUp \/ UNCHANGED vars
    <3>1. UNCHANGED <<parent, objs, certsOff, setup, pc, call, list, failed, result>>
        BY <2>2 DEF NodeUp, vars, node
    <3> QED
        BY <3>1 DEF setup, Installed, FlagSet, PolicyIn, RouteIn, Alone
  <2> QED
      BY <2>1, <2>2 DEF Next
<1> QED
    BY <1>1, <1>2, PostInductive, NodeInductive, PTL DEF Spec, IInv

(* On a node that is safe in both respects AddRoute and ReplayRoute return *)
(* nil only when policy and route of a container that is theirs alone are  *)
(* in place with the new payload, and AddRoute leaves the internal CA off  *)
(* (caddy.go:380-446).                                                     *)
THEOREM InstalledWhenOk == PostSafe /\ NodeSafe /\ Spec => []OkMeansInstalled
<1>1. IInv => OkMeansInstalled
  <2> SUFFICES ASSUME IInv, NEW c \in Clients, pc[c] = "done", result[c] = "ok",
                      call[c].kind \in {"add", "replay"}, Alone(c)
               PROVE  /\ \A k \in Lists : objs[k][call[c].id] = <<call[c].data>>
                      /\ call[c].kind = "add" => certsOff
      BY DEF OkMeansInstalled
  <2> QED
      BY DEF IInv, Installed, FlagSet, PolicyIn, RouteIn, Lists
<1> QED
    BY <1>1, Inductive, PTL

(* On such a node a route loses its policy only in a delete that has       *)
(* failed to remove the route, or beside another caller of the same        *)
(* container (caddy.go:457-478).                                           *)
THEOREM PolicyIsLastToGo == PostSafe /\ NodeSafe /\ Spec => PolicyOutlivesRoute
<1>1. IInv /\ [Next]_vars =>
        [\A id \in Ids :
            Has("tls", id) /\ ~ Has("tls", id)' /\ Has("route", id)' =>
              \E c \in Clients : /\ pc[c] = "deleteTls"
                                 /\ call[c].id = id
                                 /\ failed[c] \/ ~ Alone(c)]_vars
  <2> SUFFICES ASSUME IInv, [Next]_vars, NEW id \in Ids,
                      Has("tls", id), ~ Has("tls", id)', Has("route", id)'
               PROVE  \E c \in Clients : /\ pc[c] = "deleteTls"
                                         /\ call[c].id = id
                                         /\ failed[c] \/ ~ Alone(c)
      OBVIOUS
  <2>1. /\ objs["tls"][id] # <<>> /\ objs'["tls"][id] = <<>> /\ objs'["route"][id] # <<>>
        /\ Typed /\ Lists = {"tls", "route"}
      BY DEF Has, IInv, PostInv, Lists
  <2>2. PICK a \in Clients : Begin(a) \/ Step(a) \/ Return(a)
      BY <2>1 DEF Next, NodeUp, vars, node
  <2>3. NodeEffect(a) /\ pc[a] = "deleteTls" /\ call[a].id = id /\ call[a].kind = "delete"
      BY <2>1, <2>2, StepEffect, OnlyDeleteErases DEF IInv, NodeInv, Typed, Stages, Fits
  <2>4. objs[ "route"][id] # <<>>
    <3>1. Erase("tls", id)
        BY <2>1, <2>3 DEF NodeEffect, node
    <3> QED
        BY <2>1, <3>1 DEF Erase, SetObjs, Typed, TypeOK
  <2>5. failed[a] \/ ~ Alone(a)
      BY <2>3, <2>4 DEF IInv, PostInv, Erased, Has
  <2> QED
      BY <2>3, <2>5
<1> QED
    BY <1>1, Inductive, PTL DEF Spec, PolicyOutlivesRoute

(***************************************************************************)
(* The client implements RouteManager                                      *)
(***************************************************************************)

Objects(k) == [id \in Ids |-> Object(k, id)]

Phases == [c \in Clients |-> Phase(c)]

(* A step moves the phase of the client that takes it, and no other.       *)
LEMMA PhaseMoves ==
    ASSUME Typed, NEW c \in Clients, Begin(c) \/ Step(c) \/ Return(c)
    PROVE  Phases' = [Phases EXCEPT ![c] = Phase(c)']
<1>1. \A b \in Clients \ {c} : Phase(b)' = Phase(b)
    BY OthersUntouched DEF Untouched, Phase
<1> QED
    BY <1>1 DEF Phases

(* What is written or created is the object of the call, and it alone.     *)
LEMMA ObjectWritten ==
    ASSUME IInv, NEW c \in Clients, NEW k \in Lists,
           Wrote(c) \/ (pc[c] = "init" /\ Overwrite(list[c], call[c].id, call[c].data))
    PROVE  Objects(k)' = IF k = list[c]
                         THEN [Objects(k) EXCEPT ![call[c].id] = {call[c].data}]
                         ELSE Objects(k)
<1> DEFINE id == call[c].id
           d  == call[c].data
           l  == list[c]
<1>1. /\ objs \in [Lists -> [Ids -> Seq(Payloads)]]
      /\ id \in Ids /\ d \in Payloads /\ l \in Lists
      /\ PostInv /\ NodeInv
    BY DEF IInv, PostInv, Typed, TypeOK, Calls
<1>2. NodeEffect(c)
    BY DEF Wrote, NodeEffect
<1>3. objs'[l][id] = <<d>>
    BY <1>1, WritesOne DEF Overwrite
<1>4. \A i \in Ids \ {id} : objs'[l][i] = objs[l][i]
    BY <1>1, <1>2, ElsewhereKept
<1>5. k # l => objs'[k] = objs[k]
  <2>1. CASE Overwrite(l, id, d)
      BY <1>1, <2>1 DEF Overwrite
  <2>2. ASSUME NEW s, SetObjs(l, id, s)
        PROVE  k # l => objs'[k] = objs[k]
      BY <1>1, <2>2 DEF SetObjs
  <2> QED
      BY <2>1, <2>2 DEF Wrote, Replace, Append1
<1> HIDE DEF id, d, l
<1>6. CASE k = l
  <2>1. <<d>> # <<>> /\ Head(<<d>>) = d
      OBVIOUS
  <2>2. ASSUME NEW i \in Ids
        PROVE  Object(k, i)' = IF i = id THEN {d} ELSE Object(k, i)
    <3>1. CASE i = id
        BY <1>3, <1>6, <2>1, <3>1 DEF Object, Has
    <3>2. CASE i # id
        BY <1>4, <1>6, <3>2 DEF Object, Has
    <3> QED
        BY <3>1, <3>2
  <2> QED
      BY <1>1, <1>6, <2>2 DEF Objects, id, d, l
<1>7. CASE k # l
    BY <1>5, <1>7 DEF Objects, Object, Has, l
<1> QED
    BY <1>6, <1>7

(* What is deleted is the object of the call, and it alone.                *)
LEMMA ObjectErased ==
    ASSUME IInv, NEW c \in Clients, NEW l \in Lists, NEW k \in Lists,
           Has(l, call[c].id), Erase(l, call[c].id)
    PROVE  Objects(k)' = IF k = l THEN [Objects(k) EXCEPT ![call[c].id] = {}]
                         ELSE Objects(k)
<1> DEFINE id == call[c].id
<1>1. /\ objs \in [Lists -> [Ids -> Seq(Payloads)]] /\ id \in Ids
      /\ PostInv
    BY DEF IInv, PostInv, Typed, TypeOK, Calls
<1>2. objs'[l][id] = <<>>
    BY <1>1, ErasesAll
<1>3. /\ \A i \in Ids \ {id} : objs'[l][i] = objs[l][i]
      /\ k # l => objs'[k] = objs[k]
    BY <1>1 DEF Erase, SetObjs
<1> HIDE DEF id
<1>4. CASE k = l
  <2>1. \A i \in Ids : Object(k, i)' = IF i = id THEN {} ELSE Object(k, i)
      BY <1>2, <1>3, <1>4 DEF Object, Has
  <2> QED
      BY <1>1, <1>4, <2>1 DEF Objects, id
<1>5. CASE k # l
    BY <1>3, <1>5 DEF Objects, Object, Has
<1> QED
    BY <1>4, <1>5

(* The objects of a list change only when the node does.                   *)
LEMMA ObjectsKept ==
    ASSUME UNCHANGED objs, NEW k
    PROVE  Objects(k)' = Objects(k)
BY DEF Objects, Object, Has

(* A request that changed nothing and ends a call that is not a delete.    *)
LEMMA GivesUp ==
    ASSUME Typed, NEW c \in Clients, Step(c), Phase(c) \in {"flag", "policy", "route", "stop"},
           UNCHANGED <<objs, certsOff>>, Fails(c)
    PROVE  Manager!GiveUp(c)
<1>1. /\ pc'[c] = "done" /\ result'[c] = "error" /\ UNCHANGED <<call, failed>>
    BY DoneArrives DEF Fails
<1>2. Phase(c)' = "error"
    BY <1>1 DEF Phase
<1>3. Phases' = [Phases EXCEPT ![c] = "error"]
    BY <1>2, PhaseMoves
<1>4. Objects("tls")' = Objects("tls") /\ Objects("route")' = Objects("route")
    BY ObjectsKept
<1> QED
    BY <1>1, <1>3, <1>4
    DEF Manager!GiveUp, Manager!Goto, Manager!node, Phases, Objects

(* A request that changed nothing and leads to another one for the same    *)
(* object.                                                                 *)
LEMMA Stutters ==
    ASSUME Typed, NEW c \in Clients, Step(c), Phase(c)' = Phase(c),
           UNCHANGED <<objs, certsOff, call, failed>>
    PROVE  UNCHANGED Manager!vars
<1>1. Phases' = Phases
    BY PhaseMoves DEF Phases
<1>2. Objects("tls")' = Objects("tls") /\ Objects("route")' = Objects("route")
    BY ObjectsKept
<1> QED
    BY <1>1, <1>2 DEF Manager!vars, Manager!node, Phases, Objects

(* A request of upsertByID that takes effect sets one object.              *)
LEMMA Sets ==
    ASSUME IInv, NEW c \in Clients, Step(c), pc[c] \in Upserting,
           Wrote(c) \/ (pc[c] = "init" /\ Overwrite(list[c], call[c].id, call[c].data)),
           UNCHANGED <<call, failed>>,
           Phase(c)' \in IF list[c] = "tls" THEN {"policy", "route", "error"}
                         ELSE {"route", "error", IF call[c].kind = "add" THEN "stop" ELSE "ok"}
    PROVE  Manager!SetPolicy(c) \/ Manager!SetRoute(c)
<1>1. /\ Typed /\ list[c] \in {"tls", "route"} /\ {"tls", "route"} = Lists
      /\ certsOff \in BOOLEAN
    BY DEF IInv, PostInv, Typed, TypeOK, Lists
<1>2. certsOff' = certsOff
    BY CreatesMissing DEF IInv, Wrote, Replace, Append1, Overwrite
<1>3. Phases' = [Phases EXCEPT ![c] = Phase(c)'] /\ Phases[c] = Phase(c)
    BY <1>1, PhaseMoves DEF Phases
<1>4. CASE list[c] = "tls"
  <2>1. Phase(c) = "policy"
      BY <1>4 DEF Phase, Upserting
  <2>2. /\ Objects("tls")' = [Objects("tls") EXCEPT ![call[c].id] = {call[c].data}]
        /\ Objects("route")' = Objects("route")
      BY <1>1, <1>4, ObjectWritten
  <2> QED
      BY <1>2, <1>3, <1>4, <2>1, <2>2
      DEF Manager!SetPolicy, Manager!Goto, Phases, Objects
<1>5. CASE list[c] = "route"
  <2>1. Phase(c) = "route"
      BY <1>5 DEF Phase, Upserting
  <2>2. /\ Objects("route")' = [Objects("route") EXCEPT ![call[c].id] = {call[c].data}]
        /\ Objects("tls")' = Objects("tls")
      BY <1>1, <1>5, ObjectWritten
  <2> QED
      BY <1>2, <1>3, <1>5, <2>1, <2>2
      DEF Manager!SetRoute, Manager!Goto, Phases, Objects
<1> QED
    BY <1>1, <1>4, <1>5

(* A request of upsertByID: it sets the object, whatever the answer; or it *)
(* fails; or it leads to the next request.                                 *)
LEMMA UpsertImplements ==
    ASSUME IInv, NEW c \in Clients, Step(c), pc[c] \in Upserting
    PROVE  Manager!Next \/ UNCHANGED Manager!vars
<1> DEFINE over == Overwrite(list[c], call[c].id, call[c].data)
<1>1. /\ Typed /\ list[c] \in {"tls", "route"}
      /\ Phase(c) = IF list[c] = "tls" THEN "policy" ELSE "route"
    BY DEF IInv, PostInv, Typed, TypeOK, Lists, Phase, Upserting
<1>2. ASSUME Wrote(c) \/ (pc[c] = "init" /\ over), Fails(c)
      PROVE  Manager!Next
  <2>1. Phase(c)' = "error" /\ UNCHANGED <<call, failed>>
      BY <1>1, <1>2, DoneArrives DEF Fails, Phase
  <2> QED
      BY <1>2, <2>1, Sets DEF Manager!Next
<1>3. ASSUME Wrote(c), Upserted(c)
      PROVE  Manager!Next
  <2>1. CASE list[c] = "tls" /\ Proceed(c, "automate")
    <3>1. Phase(c)' = "route" /\ UNCHANGED <<call, failed>>
        BY <1>1, <2>1, ProceedArrives DEF Phase
    <3> QED
        BY <1>3, <2>1, <3>1, Sets DEF Manager!Next
  <2>2. CASE list[c] = "route" /\ call[c].kind = "add" /\ Proceed(c, "stop")
    <3>1. Phase(c)' = "stop" /\ UNCHANGED <<call, failed>>
        BY <1>1, <2>2, ProceedArrives DEF Phase
    <3> QED
        BY <1>3, <2>2, <3>1, Sets DEF Manager!Next
  <2>3. CASE list[c] = "route" /\ call[c].kind = "replay" /\ Succeeds(c)
    <3>1. Phase(c)' = "ok" /\ UNCHANGED <<call, failed>>
        BY <1>1, <2>3, DoneArrives DEF Succeeds, Phase
    <3> QED
        BY <1>3, <2>3, <3>1, Sets DEF Manager!Next
  <2> QED
      BY <1>1, <1>3, <2>1, <2>2, <2>3, UpsertedGoesOn
<1>4. ASSUME pc[c] = "init", over, Proceed(c, "repost")
      PROVE  Manager!Next
  <2>1. Phase(c)' = Phase(c) /\ UNCHANGED <<call, failed>>
      BY <1>1, <1>4, ProceedArrives DEF Phase
  <2> QED
      BY <1>1, <1>4, <2>1, Sets DEF Manager!Next
<1>5. ASSUME UNCHANGED node, Fails(c)
      PROVE  Manager!Next
    BY <1>1, <1>5, GivesUp DEF node, Manager!Next
<1>6. ASSUME NEW label \in Upserting, UNCHANGED node, Proceed(c, label)
      PROVE  UNCHANGED Manager!vars
  <2>1. Phase(c)' = Phase(c) /\ UNCHANGED <<call, failed>>
      BY <1>1, <1>6, ProceedArrives DEF Phase, Upserting
  <2> QED
      BY <1>1, <1>6, <2>1, Stutters DEF node
<1>7. CASE Get(c)
    BY <1>5, <1>6, <1>7 DEF Get, Upserting
<1>8. CASE Put(c)
    BY <1>2, <1>3, <1>5, <1>8 DEF Put, Mutate, Wrote
<1>9. CASE Post(c)
    BY <1>2, <1>3, <1>5, <1>6, <1>9 DEF Post, Mutate, Wrote, Upserting
<1>10. CASE Parent(c)
    BY <1>5, <1>6, <1>10 DEF Parent, Upserting
<1>11. CASE InitParent(c)
    BY <1>2, <1>4, <1>5, <1>11 DEF InitParent, Mutate
<1>12. CASE Repost(c)
    BY <1>2, <1>3, <1>5, <1>12 DEF Repost, Mutate, Wrote
<1>13. CASE \/ DisableLocalCerts(c) \/ Automate(c) \/ Stop(c)
            \/ DeleteRoute(c) \/ DeleteTls(c)
    BY <1>13 DEF DisableLocalCerts, Automate, Stop, DeleteRoute, DeleteTls, Upserting
<1> QED
    BY <1>7, <1>8, <1>9, <1>10, <1>11, <1>12, <1>13 DEF Step

(* The order for the certificate and the restart change neither object,    *)
(* disableLocalCerts only the flag.                                        *)
LEMMA OtherRequestsImplement ==
    ASSUME IInv, NEW c \in Clients, DisableLocalCerts(c) \/ Automate(c) \/ Stop(c)
    PROVE  Manager!Next \/ UNCHANGED Manager!vars
<1>1. /\ Typed /\ Step(c) /\ list[c] \in {"tls", "route"}
      /\ Fits(pc[c], list[c], call[c].kind)
      /\ list \in [Clients -> Lists] /\ pc \in [Clients -> Labels]
    BY DEF IInv, PostInv, Typed, TypeOK, Stages, Lists, Step
<1>2. Phases' = [Phases EXCEPT ![c] = Phase(c)'] /\ Phases[c] = Phase(c)
    BY <1>1, PhaseMoves DEF Phases
<1>3. CASE DisableLocalCerts(c)
  <2>1. pc[c] = "flag" /\ list[c] = "tls" /\ Phase(c) = "flag"
      BY <1>1, <1>3 DEF DisableLocalCerts, Fits, Phase
  <2>2. ASSUME SetFlag, Proceed(c, "get") \/ Fails(c)
        PROVE  Manager!TurnOff(c)
    <3>1. Phase(c)' \in {"policy", "error"} /\ UNCHANGED <<call, failed>>
        BY <1>1, <2>1, <2>2, ProceedArrives, DoneArrives DEF Fails, Phase
    <3>2. Objects("tls")' = Objects("tls") /\ Objects("route")' = Objects("route")
        BY <2>2, ObjectsKept DEF SetFlag
    <3> QED
        BY <1>2, <2>1, <2>2, <3>1, <3>2
        DEF SetFlag, Manager!TurnOff, Manager!Goto, Phases, Objects
  <2>3. ASSUME UNCHANGED node, Fails(c)
        PROVE  Manager!GiveUp(c)
      BY <1>1, <2>1, <2>3, GivesUp DEF node
  <2> QED
      BY <1>3, <2>2, <2>3 DEF DisableLocalCerts, Mutate, Manager!Next
<1>4. CASE Automate(c)
  <2>1. pc[c] = "automate" /\ Phase(c) = "route" /\ UNCHANGED node
      BY <1>4 DEF Automate, Phase
  <2>2. CASE /\ Goto(c, "get")
             /\ list' = [list EXCEPT ![c] = "route"]
             /\ UNCHANGED <<setup, call, failed, result>>
    <3>1. Phase(c)' = "route"
        BY <1>1, <2>2 DEF Goto, Phase
    <3> QED
        BY <1>1, <2>1, <2>2, <3>1, Stutters DEF node
  <2>3. CASE Fails(c)
      BY <1>1, <2>1, <2>3, GivesUp DEF node, Manager!Next
  <2> QED
      BY <1>4, <2>2, <2>3 DEF Automate
<1>5. CASE Stop(c)
  <2>1. pc[c] = "stop" /\ Phase(c) = "stop" /\ UNCHANGED <<objs, certsOff>>
      BY <1>5 DEF Stop, Phase, node
  <2>2. CASE Succeeds(c)
    <3>1. Phase(c)' = "ok" /\ UNCHANGED <<call, failed>>
        BY <1>1, <2>2, DoneArrives DEF Succeeds, Phase
    <3>2. Objects("tls")' = Objects("tls") /\ Objects("route")' = Objects("route")
        BY <2>1, ObjectsKept
    <3>3. Manager!Stop(c)
        BY <1>2, <2>1, <3>1, <3>2
        DEF Manager!Stop, Manager!Goto, Manager!node, Phases, Objects
    <3> QED
        BY <3>3 DEF Manager!Next
  <2>3. CASE Fails(c)
      BY <1>1, <2>1, <2>3, GivesUp DEF Manager!Next
  <2> QED
      BY <1>5, <2>2, <2>3 DEF Stop
<1> QED
    BY <1>3, <1>4, <1>5

(* What a DELETE leaves: the object is gone, or nothing has happened.      *)
LEMMA ObjectGone ==
    ASSUME IInv, NEW c \in Clients, NEW l \in Lists,
           \/ Has(l, call[c].id) /\ Erase(l, call[c].id)
           \/ ~ Has(l, call[c].id) /\ UNCHANGED node
    PROVE  \A k \in Lists :
              Objects(k)' = IF k = l THEN [Objects(k) EXCEPT ![call[c].id] = {}]
                            ELSE Objects(k)
<1> SUFFICES ASSUME NEW k \in Lists
             PROVE  Objects(k)' = IF k = l THEN [Objects(k) EXCEPT ![call[c].id] = {}]
                                  ELSE Objects(k)
    OBVIOUS
<1>1. CASE Has(l, call[c].id) /\ Erase(l, call[c].id)
    BY <1>1, ObjectErased
<1>2. CASE ~ Has(l, call[c].id) /\ UNCHANGED node
  <2>1. Objects(k)' = Objects(k)
      BY <1>2, ObjectsKept DEF node
  <2>2. k = l => [Objects(k) EXCEPT ![call[c].id] = {}] = Objects(k)
      BY <1>2 DEF Objects, Object
  <2> QED
      BY <2>1, <2>2
<1> QED
    BY <1>1, <1>2

(* The two DELETEs, in their order; an error of the first is remembered.   *)
LEMMA DeletesImplement ==
    ASSUME IInv, NEW c \in Clients, DeleteRoute(c) \/ DeleteTls(c)
    PROVE  Manager!Next
<1> DEFINE id == call[c].id
           gone(l) == \/ Has(l, id) /\ Erase(l, id)
                      \/ ~ Has(l, id) /\ UNCHANGED node
<1>1. /\ Typed /\ Step(c) /\ {"tls", "route"} = Lists
      /\ pc \in [Clients -> Labels] /\ failed \in [Clients -> BOOLEAN]
    BY DEF IInv, PostInv, Typed, TypeOK, Lists, Step
<1>2. Phases' = [Phases EXCEPT ![c] = Phase(c)'] /\ Phases[c] = Phase(c)
    BY <1>1, PhaseMoves DEF Phases
<1>3. ASSUME UNCHANGED node
      PROVE  \A k \in Lists : Objects(k)' = Objects(k)
    BY <1>3, ObjectsKept DEF node
<1>4. CASE DeleteRoute(c)
  <2>1. pc[c] = "deleteRoute" /\ Phase(c) = "eraseRoute"
      BY <1>4 DEF DeleteRoute, Phase
  <2>2. CASE gone("route") /\ Proceed(c, "deleteTls")
    <3>1. Phase(c)' = "erasePolicy" /\ UNCHANGED <<call, failed, certsOff>>
        BY <1>1, <2>2, ProceedArrives DEF Phase, Erase, node
    <3>2. /\ Objects("route")' = [Objects("route") EXCEPT ![id] = {}]
          /\ Objects("tls")' = Objects("tls")
        BY <1>1, <2>2, ObjectGone
    <3>3. Manager!EraseRoute(c)
        BY <1>2, <2>1, <3>1, <3>2 DEF Manager!EraseRoute, Phases, Objects
    <3> QED
        BY <3>3 DEF Manager!Next
  <2>3. CASE (gone("route") \/ UNCHANGED node) /\ DeleteFailed(c, "deleteTls")
    <3>1. /\ Phase(c)' = "erasePolicy" /\ UNCHANGED <<call, certsOff>>
          /\ failed' = [failed EXCEPT ![c] = TRUE]
        BY <1>1, <2>3 DEF DeleteFailed, Goto, Phase, Erase, node
    <3>2. /\ Objects("route")' \in {Objects("route"), [Objects("route") EXCEPT ![id] = {}]}
          /\ Objects("tls")' = Objects("tls")
        BY <1>1, <1>3, <2>3, ObjectGone
    <3>3. Manager!EraseRoute(c)
        BY <1>2, <2>1, <3>1, <3>2 DEF Manager!EraseRoute, Phases, Objects
    <3> QED
        BY <3>3 DEF Manager!Next
  <2> QED
      BY <1>4, <2>2, <2>3 DEF DeleteRoute, Mutate
<1>5. CASE DeleteTls(c)
  <2>1. pc[c] = "deleteTls" /\ Phase(c) = "erasePolicy"
      BY <1>5 DEF DeleteTls, Phase
  <2>2. CASE gone("tls") /\ (IF failed[c] THEN Fails(c) ELSE Succeeds(c))
    <3>1. /\ Phase(c)' = IF failed[c] THEN "error" ELSE "ok"
          /\ UNCHANGED <<call, failed, certsOff>>
        BY <1>1, <2>2, DoneArrives DEF Fails, Succeeds, Phase, Erase, node
    <3>2. /\ Objects("tls")' = [Objects("tls") EXCEPT ![id] = {}]
          /\ Objects("route")' = Objects("route")
        BY <1>1, <2>2, ObjectGone
    <3>3. Manager!ErasePolicy(c)
        BY <1>2, <2>1, <3>1, <3>2 DEF Manager!ErasePolicy, Manager!Goto, Phases, Objects
    <3> QED
        BY <3>3 DEF Manager!Next
  <2>3. CASE (gone("tls") \/ UNCHANGED node) /\ Fails(c)
    <3>1. Phase(c)' = "error" /\ UNCHANGED <<call, failed, certsOff>>
        BY <1>1, <2>3, DoneArrives DEF Fails, Phase, Erase, node
    <3>2. /\ Objects("tls")' \in {Objects("tls"), [Objects("tls") EXCEPT ![id] = {}]}
          /\ Objects("route")' = Objects("route")
        BY <1>1, <1>3, <2>3, ObjectGone
    <3>3. Manager!ErasePolicy(c)
        BY <1>2, <2>1, <3>1, <3>2 DEF Manager!ErasePolicy, Manager!Goto, Phases, Objects
    <3> QED
        BY <3>3 DEF Manager!Next
  <2> QED
      BY <1>5, <2>2, <2>3 DEF DeleteTls, Mutate
<1> QED
    BY <1>4, <1>5

(* A call begins and its result is taken.                                  *)
LEMMA CallsImplement ==
    ASSUME IInv, NEW c \in Clients, Begin(c) \/ Return(c)
    PROVE  Manager!Next
<1>1. /\ Typed /\ UNCHANGED node /\ list'[c] = "tls" /\ Manager!Calls = Calls
      /\ call \in [Clients -> Calls] /\ pc \in [Clients -> Labels]
      /\ result \in [Clients -> {"none", "ok", "error"}]
      /\ result[c] = "none" <=> pc[c] # "done"
    BY StartsOrEnds DEF IInv, PostInv, Typed, TypeOK, Calls, Manager!Calls
<1>2. Phases' = [Phases EXCEPT ![c] = Phase(c)'] /\ Phases[c] = Phase(c)
    BY <1>1, PhaseMoves DEF Phases
<1>3. Objects("tls")' = Objects("tls") /\ Objects("route")' = Objects("route")
    BY <1>1, ObjectsKept DEF node
<1>4. CASE Begin(c)
  <2>1. PICK r \in Calls : call' = [call EXCEPT ![c] = r] /\ Goto(c, First(r.kind))
      BY <1>4 DEF Begin
  <2>2. pc[c] = "idle" /\ Phase(c) = "idle" /\ UNCHANGED <<failed, certsOff>>
      BY <1>1, <1>4 DEF Begin, Phase, node
  <2>3. pc'[c] = First(r.kind)
      BY <1>1, <2>1 DEF Goto
  <2>4. Phase(c)' = Manager!First[r.kind]
      BY <1>1, <2>3 DEF Phase, First, Manager!First, Calls
  <2>5. Manager!Invoke(c)
      BY <1>1, <1>2, <1>3, <2>1, <2>2, <2>4
      DEF Manager!Invoke, Manager!node, Phases, Objects
  <2> QED
      BY <2>5 DEF Manager!Next
<1>5. CASE Return(c)
  <2>1. /\ Phase(c) \in {"ok", "error"} /\ UNCHANGED certsOff
        /\ call' = [call EXCEPT ![c] = CHOOSE r \in Calls : TRUE]
        /\ failed' = [failed EXCEPT ![c] = FALSE]
      BY <1>1, <1>5 DEF Return, Phase, node
  <2>2. Phase(c)' = "idle"
      BY <1>1, <1>5 DEF Return, Goto, Phase
  <2>3. Manager!Return(c)
      BY <1>1, <1>2, <1>3, <2>1, <2>2, AnyCall
      DEF Manager!Return, Manager!node, Phases, Objects
  <2> QED
      BY <2>3 DEF Manager!Next
<1> QED
    BY <1>4, <1>5

(* On a node that is safe in both respects the HTTP requests of any number *)
(* of callers, with whatever gets lost, are the calls of RouteManager that *)
(* Engine relies on (interfaces.go:34-43).                                 *)
THEOREM ClientImplementsManager == PostSafe /\ NodeSafe /\ Spec => Implements
<1>1. Init => Manager!Init
  <2> SUFFICES ASSUME Init
               PROVE  Manager!Init
      OBVIOUS
  <2>1. Typed /\ Manager!Calls = Calls
      BY InitTyped DEF Calls, Manager!Calls
  <2>2. ASSUME NEW k \in Lists
        PROVE  Objects(k) \in [Ids -> {{}} \cup {{d} : d \in Payloads}]
    <3>1. ASSUME NEW i \in Ids
          PROVE  Object(k, i) \in {{}} \cup {{d} : d \in Payloads}
      <4>1. Has(k, i) => Head(objs[k][i]) \in Payloads
          BY <2>1, HeadTailProperties DEF Typed, TypeOK, Has
      <4> QED
          BY <4>1 DEF Object
    <3> QED
        BY <3>1 DEF Objects
  <2>3. Phases = [c \in Clients |-> "idle"]
      BY DEF Init, Phases, Phase
  <2>4. call \in [Clients -> Calls] /\ certsOff = FALSE /\ failed = [c \in Clients |-> FALSE]
      BY <2>1 DEF Init, Typed, TypeOK
  <2> QED
      BY <2>1, <2>2, <2>3, <2>4 DEF Manager!Init, Phases, Objects, Lists
<1>2. IInv /\ [Next]_vars => [Manager!Next]_(Manager!vars)
  <2> SUFFICES ASSUME IInv, [Next]_vars
               PROVE  Manager!Next \/ UNCHANGED Manager!vars
      OBVIOUS
  <2>1. ASSUME NEW c \in Clients, Begin(c) \/ Return(c)
        PROVE  Manager!Next
      BY <2>1, CallsImplement
  <2>2. ASSUME NEW c \in Clients, Step(c)
        PROVE  Manager!Next \/ UNCHANGED Manager!vars
    <3>1. CASE pc[c] \in Upserting
        BY <2>2, <3>1, UpsertImplements
    <3>2. CASE \/ DisableLocalCerts(c) \/ Automate(c) \/ Stop(c)
        BY <3>2, OtherRequestsImplement
    <3>3. CASE DeleteRoute(c) \/ DeleteTls(c)
        BY <3>3, DeletesImplement
    <3> QED
        BY <2>2, <3>1, <3>2, <3>3
        DEF Step, Get, Put, Post, Parent, InitParent, Repost, Upserting
  <2>3. CASE NodeUp \/ UNCHANGED vars
    <3>1. UNCHANGED <<objs, certsOff, pc, call, list, failed, result>>
        BY <2>3 DEF NodeUp, vars, node
    <3>2. Phases' = Phases
        BY <3>1 DEF Phases, Phase
    <3>3. Objects("tls")' = Objects("tls") /\ Objects("route")' = Objects("route")
        BY <3>1, ObjectsKept
    <3> QED
        BY <3>1, <3>2, <3>3 DEF Manager!vars, Manager!node, Phases, Objects
  <2> QED
      BY <2>1, <2>2, <2>3 DEF Next
<1> QED
    BY <1>1, <1>2, Inductive, PTL DEF Implements, Manager!Spec, Spec

=============================================================================
