---------------------------- MODULE CaddyClient ----------------------------
(***************************************************************************)
(* core/caddy.go against the admin API of one Caddy node, one HTTP request *)
(* a step: AddRoute, ReplayRoute, DeleteRouteAndTLS and RestartCaddy by    *)
(* several callers at once.  The identifiers proxy-<vmid>-<node> and       *)
(* tls-<vmid>-<node> differ in their prefix only, so one member of Ids     *)
(* names the pair and the two lists of the node keep the objects.          *)
(*                                                                         *)
(* The node itself is not part of the repository.  It is modelled as       *)
(* caddy.go uses it: PUT replaces what is at its path, POST appends to a   *)
(* list and answers 500 when what should hold the list is missing (the     *)
(* comment at caddy.go:185-195), the configuration outlives /stop, and     *)
(* systemd starts the process again.  Whether the node refuses a second    *)
(* object with the same @id depends on the setup.                          *)
(***************************************************************************)
EXTENDS Sequences, Naturals

CONSTANTS
    Clients,       \* requests that call the client at the same time
    Ids,           \* <vmid>-<node> pairs
    Payloads,      \* domain, target and protocol of a route
    Setups,        \* the situations the node may be in when we start
    Faulty         \* TRUE if requests and answers may get lost

Lists == {"tls", "route"}

(* none: /config/apps/tls (or .../servers/srv0) does not exist; bare: it   *)
(* does, but has no automation.policies (no routes); ready: it has.        *)
Parents == {"none", "bare", "ready"}

(* Objects are where the lists that hold them are.                         *)
ASSUME SetupAssumption ==
    /\ Setups \subseteq [parent : [Lists -> Parents], rejects : BOOLEAN,
                         owned : [Clients -> SUBSET Ids], there : SUBSET Ids]
    /\ \A s \in Setups : s.there # {} => \A k \in Lists : s.parent[k] = "ready"

ASSUME InputAssumption == Ids # {} /\ Payloads # {}

VARIABLES
    parent,      \* the objects that hold the two lists of the node
    objs,        \* objs[k][id]: the payloads list k has under id, in order
    certsOff,    \* local_certs_disabled of the node
    up,          \* FALSE from /stop until systemd has restarted Caddy
    rejects,     \* TRUE if the node refuses a second object with an @id
    owned,       \* owned[c]: the identifiers client c may be asked about
    pc, call,    \* the next step and the call of each client
    list,        \* the list upsertByID is working on
    failed,      \* a step of DeleteRouteAndTLS has failed (errs)
    result       \* what the call returns

node  == <<parent, objs, certsOff, up>>
setup == <<rejects, owned>>
vars  == <<node, setup, pc, call, list, failed, result>>

Calls == [kind : {"add", "replay", "delete", "restart"}, id : Ids, data : Payloads]

Init ==
    /\ \E s \in Setups :
         /\ parent = s.parent
         /\ rejects = s.rejects
         /\ owned = s.owned
         /\ \E d \in Payloads :
              objs = [k \in Lists |-> [id \in Ids |-> IF id \in s.there THEN <<d>> ELSE <<>>]]
    /\ certsOff = FALSE
    /\ up = TRUE
    /\ pc = [c \in Clients |-> "idle"]
    /\ call \in [Clients -> {CHOOSE r \in Calls : TRUE}]
    /\ list = [c \in Clients |-> "tls"]
    /\ failed = [c \in Clients |-> FALSE]
    /\ result = [c \in Clients |-> "none"]

(***************************************************************************)
(* The node                                                                *)
(***************************************************************************)

Has(k, id) == objs[k][id] # <<>>

SetObjs(k, id, s) == objs' = [objs EXCEPT ![k][id] = s]

(* POST to a list. *)
CanAppend(k, id) == parent[k] = "ready" /\ ~ (rejects /\ Has(k, id))

Append1(k, id, d) ==
    /\ SetObjs(k, id, Append(objs[k][id], d))
    /\ UNCHANGED <<parent, certsOff, up>>

(* PUT /id/<id>. *)
Replace(k, id, d) ==
    /\ SetObjs(k, id, [objs[k][id] EXCEPT ![1] = d])
    /\ UNCHANGED <<parent, certsOff, up>>

(* DELETE /id/<id>. *)
Erase(k, id) ==
    /\ SetObjs(k, id, Tail(objs[k][id]))
    /\ UNCHANGED <<parent, certsOff, up>>

(* PUT of the object that holds the list: whatever was there is replaced   *)
(* by the one object given; for the tls app that includes the flag.        *)
Overwrite(k, id, d) ==
    /\ parent' = [parent EXCEPT ![k] = "ready"]
    /\ objs' = [objs EXCEPT ![k] = [i \in Ids |-> IF i = id THEN <<d>> ELSE <<>>]]
    /\ certsOff' = IF k = "tls" THEN FALSE ELSE certsOff
    /\ UNCHANGED up

(* POST of the flag, which is a field of the tls app.  A node that refuses *)
(* to create the app for it answers an error, as a fault does.             *)
SetFlag ==
    /\ certsOff' = TRUE
    /\ parent' = IF parent["tls"] = "none" THEN [parent EXCEPT !["tls"] = "bare"]
                 ELSE parent
    /\ UNCHANGED <<objs, up>>

(* systemd, Restart=always. *)
NodeUp ==
    /\ ~ up
    /\ up' = TRUE
    /\ UNCHANGED <<parent, objs, certsOff, setup, pc, call, list, failed, result>>

(***************************************************************************)
(* One HTTP request that changes the node.  It takes effect and is         *)
(* answered 2xx (then); or it takes effect and the answer is lost; or it   *)
(* has no effect: refused, answered 5xx, or the node is not reachable.     *)
(***************************************************************************)

Mutate(can, effect, then, else) ==
    \/ up /\ can /\ effect /\ then
    \/ up /\ can /\ Faulty /\ effect /\ else
    \/ (~ up \/ ~ can \/ Faulty) /\ UNCHANGED node /\ else

Goto(c, label) == pc' = [pc EXCEPT ![c] = label]

Done(c, r) ==
    /\ Goto(c, "done")
    /\ result' = [result EXCEPT ![c] = r]

Proceed(c, label) ==
    /\ Goto(c, label)
    /\ UNCHANGED <<setup, call, list, failed, result>>

Fails(c) == Done(c, "error") /\ UNCHANGED <<setup, call, list, failed>>

Succeeds(c) == Done(c, "ok") /\ UNCHANGED <<setup, call, list, failed>>

(* upsertByID has returned nil: installRouteAndCert goes on. *)
Upserted(c) ==
    CASE list[c] = "tls" -> Proceed(c, "automate")
      [] list[c] = "route" /\ call[c].kind = "add" -> Proceed(c, "stop")
      [] list[c] = "route" /\ call[c].kind = "replay" -> Succeeds(c)

(***************************************************************************)
(* upsertByID                                                              *)
(***************************************************************************)

(* A bug: any answer but 200 to the GET leads to the POST. *)
GetFallsThrough(c) ==
    /\ pc[c] = "get"
    /\ \/ up /\ Proceed(c, IF Has(list[c], call[c].id) THEN "put" ELSE "post")
       \/ Faulty /\ Proceed(c, "post")
       \/ (~ up \/ Faulty) /\ Fails(c)
    /\ UNCHANGED node

(* GET /id/<id>: 200, 404, or anything else, which is an error. *)
Get(c) ==
    /\ pc[c] = "get"
    /\ \/ up /\ Proceed(c, IF Has(list[c], call[c].id) THEN "put" ELSE "post")
       \/ (~ up \/ Faulty) /\ Fails(c)
    /\ UNCHANGED node

(* A bug: the status of the PUT is not looked at. *)
PutUnchecked(c) ==
    /\ pc[c] = "put"
    /\ Mutate(Has(list[c], call[c].id),
              Replace(list[c], call[c].id, call[c].data),
              Upserted(c), Upserted(c))

(* PUT /id/<id>. *)
Put(c) ==
    /\ pc[c] = "put"
    /\ Mutate(Has(list[c], call[c].id),
              Replace(list[c], call[c].id, call[c].data),
              Upserted(c), Fails(c))

(* POST createPath: 500 leads to the parent check, other errors return. *)
Post(c) ==
    /\ pc[c] = "post"
    /\ LET can == CanAppend(list[c], call[c].id)
       IN  \/ Mutate(can, Append1(list[c], call[c].id, call[c].data),
                     Upserted(c), Fails(c))
           \/ up /\ (~ can \/ Faulty) /\ UNCHANGED node /\ Proceed(c, "parent")

(* A bug: a 500 is taken for a missing parent without looking. *)
ParentUnchecked(c) ==
    /\ pc[c] = "parent"
    /\ Proceed(c, "init")
    /\ UNCHANGED node

(* parentExists: only a 404 leads to initIfMissing. *)
Parent(c) ==
    /\ pc[c] = "parent"
    /\ \/ up /\ parent[list[c]] = "none" /\ Proceed(c, "init")
       \/ (~ up \/ Faulty \/ parent[list[c]] # "none") /\ Fails(c)
    /\ UNCHANGED node

(* initTLSParent, initSrv0. *)
InitParent(c) ==
    /\ pc[c] = "init"
    /\ Mutate(TRUE, Overwrite(list[c], call[c].id, call[c].data),
              Proceed(c, "repost"), Fails(c))

(* The POST after the init; its 500 is an error like any other. *)
Repost(c) ==
    /\ pc[c] = "repost"
    /\ Mutate(CanAppend(list[c], call[c].id),
              Append1(list[c], call[c].id, call[c].data),
              Upserted(c), Fails(c))

(***************************************************************************)
(* AddRoute, ReplayRoute, DeleteRouteAndTLS, RestartCaddy                  *)
(***************************************************************************)

First(kind) ==
    CASE kind = "add"     -> "flag"
      [] kind = "replay"  -> "get"
      [] kind = "delete"  -> "deleteRoute"
      [] kind = "restart" -> "stop"

Begin(c) ==
    /\ pc[c] = "idle"
    /\ \E r \in Calls :
         /\ r.id \in owned[c]
         /\ call' = [call EXCEPT ![c] = r]
         /\ Goto(c, First(r.kind))
    /\ UNCHANGED <<node, setup, list, failed, result>>

(* disableLocalCerts. *)
DisableLocalCerts(c) ==
    /\ pc[c] = "flag"
    /\ Mutate(TRUE, SetFlag, Proceed(c, "get"), Fails(c))

(* automateCert, then the upsert of the route. *)
Automate(c) ==
    /\ pc[c] = "automate"
    /\ UNCHANGED node
    /\ \/ /\ up /\ parent["tls"] # "none"
          /\ Goto(c, "get")
          /\ list' = [list EXCEPT ![c] = "route"]
          /\ UNCHANGED <<setup, call, failed, result>>
       \/ (~ up \/ parent["tls"] = "none" \/ Faulty) /\ Fails(c)

(* RestartCaddy: a status of 400 or more is an error; that the request     *)
(* could not be sent, or was never answered, is not.                       *)
Stop(c) ==
    /\ pc[c] = "stop"
    /\ \/ /\ up
          /\ up' = FALSE
          /\ UNCHANGED <<parent, objs, certsOff>>
          /\ Succeeds(c)
       \/ (~ up \/ Faulty) /\ UNCHANGED node /\ Succeeds(c)
       \/ up /\ Faulty /\ UNCHANGED node /\ Fails(c)

(* A bug: the delete returns at its first error. *)
DeleteFailedReturns(c, label) ==
    /\ Done(c, "error")
    /\ failed' = [failed EXCEPT ![c] = TRUE]
    /\ UNCHANGED <<setup, call, list>>

DeleteFailed(c, label) ==
    /\ Goto(c, label)
    /\ failed' = [failed EXCEPT ![c] = TRUE]
    /\ UNCHANGED <<setup, call, list, result>>

(* A bug: the policy is deleted first. *)
DeleteRouteSwapped(c) ==
    /\ pc[c] = "deleteRoute"
    /\ LET id == call[c].id
       IN  \/ Mutate(Has("tls", id), Erase("tls", id),
                     Proceed(c, "deleteTls"), DeleteFailed(c, "deleteTls"))
           \/ up /\ ~ Has("tls", id) /\ UNCHANGED node /\ Proceed(c, "deleteTls")

(* DELETE /id/proxy-...: 404 is a success, a failure is remembered. *)
DeleteRoute(c) ==
    /\ pc[c] = "deleteRoute"
    /\ LET id == call[c].id
       IN  \/ Mutate(Has("route", id), Erase("route", id),
                     Proceed(c, "deleteTls"), DeleteFailed(c, "deleteTls"))
           \/ up /\ ~ Has("route", id) /\ UNCHANGED node /\ Proceed(c, "deleteTls")

(* A bug: only the error of the second DELETE is reported. *)
DeleteTlsForgets(c) ==
    /\ pc[c] = "deleteTls"
    /\ LET id == call[c].id
       IN  \/ Mutate(Has("tls", id), Erase("tls", id), Succeeds(c), Fails(c))
           \/ up /\ ~ Has("tls", id) /\ UNCHANGED node /\ Succeeds(c)

(* DELETE /id/tls-...: the call fails if either request failed. *)
DeleteTls(c) ==
    /\ pc[c] = "deleteTls"
    /\ LET id   == call[c].id
           over == IF failed[c] THEN Fails(c) ELSE Succeeds(c)
       IN  \/ Mutate(Has("tls", id), Erase("tls", id), over, Fails(c))
           \/ up /\ ~ Has("tls", id) /\ UNCHANGED node /\ over

(* A bug: the errors are kept in the client and not in the call. *)
ReturnKeepsErrors(c) ==
    /\ pc[c] = "done"
    /\ Goto(c, "idle")
    /\ call' = [call EXCEPT ![c] = CHOOSE r \in Calls : TRUE]
    /\ list' = [list EXCEPT ![c] = "tls"]
    /\ result' = [result EXCEPT ![c] = "none"]
    /\ UNCHANGED <<node, setup, failed>>

(* The caller takes the result. *)
Return(c) ==
    /\ pc[c] = "done"
    /\ Goto(c, "idle")
    /\ call' = [call EXCEPT ![c] = CHOOSE r \in Calls : TRUE]
    /\ list' = [list EXCEPT ![c] = "tls"]
    /\ failed' = [failed EXCEPT ![c] = FALSE]
    /\ result' = [result EXCEPT ![c] = "none"]
    /\ UNCHANGED <<node, setup>>

Step(c) ==
    \/ Get(c) \/ Put(c) \/ Post(c) \/ Parent(c) \/ InitParent(c) \/ Repost(c)
    \/ DisableLocalCerts(c) \/ Automate(c) \/ Stop(c)
    \/ DeleteRoute(c) \/ DeleteTls(c)

Next ==
    \/ \E c \in Clients : Begin(c) \/ Step(c) \/ Return(c)
    \/ NodeUp

Spec == Init /\ [][Next]_vars

(***************************************************************************)
(* On some nodes a POST adds a second object, and the PUT that creates a   *)
(* missing list wipes one that is no longer missing.  These are the nodes  *)
(* on which neither happens.                                               *)
(***************************************************************************)

Configured(parents) == \A k \in Lists : parents[k] # "none"

Disjoint(ids) == \A b, c \in Clients : b # c => ids[b] \cap ids[c] = {}

OneCaller(ids) == \A b, c \in Clients : b # c => ids[b] = {} \/ ids[c] = {}

(* The node refuses a second object with an @id; or it holds both lists    *)
(* and no two callers are concerned with one container.                    *)
SafeToPost(parents, refuses, ids) ==
    refuses \/ (Configured(parents) /\ Disjoint(ids))

(* Both lists have what holds them; or nobody else calls while the one     *)
(* caller creates it.                                                      *)
SafeToInit(parents, ids) == Configured(parents) \/ OneCaller(ids)

PostSafe == \A s \in Setups : SafeToPost(s.parent, s.rejects, s.owned)

NodeSafe == \A s \in Setups : SafeToInit(s.parent, s.owned)

(***************************************************************************)
(* Properties                                                              *)
(***************************************************************************)

Labels == {"idle", "flag", "get", "put", "post", "parent", "init",
           "repost", "automate", "stop", "deleteRoute", "deleteTls", "done"}

(* Every variable has its type; a result is there exactly when the call is *)
(* over, and the errors of a delete belong to one call.                    *)
TypeOK ==
    /\ parent \in [Lists -> Parents]
    /\ objs \in [Lists -> [Ids -> Seq(Payloads)]]
    /\ certsOff \in BOOLEAN
    /\ up \in BOOLEAN
    /\ rejects \in BOOLEAN
    /\ owned \in [Clients -> SUBSET Ids]
    /\ pc \in [Clients -> Labels]
    /\ call \in [Clients -> Calls]
    /\ list \in [Clients -> Lists]
    /\ failed \in [Clients -> BOOLEAN]
    /\ result \in [Clients -> {"none", "ok", "error"}]
    /\ \A c \in Clients : /\ result[c] = "none" <=> pc[c] # "done"
                          /\ failed[c] => pc[c] \in {"deleteTls", "done"}

(* A node never holds two objects with one @id: /id/<id> would reach only  *)
(* one of them, so a later upsert or delete would leave the other behind   *)
(* (caddy.go:232-234 says this is why a failed GET must not lead to POST). *)
NoDuplicates == \A k \in Lists, id \in Ids : Len(objs[k][id]) <= 1

(* Nothing but a delete of that very identifier takes an object away: no   *)
(* 500, lost answer or restart makes an upsert wipe the list it adds to    *)
(* (caddy.go:190-195, parentExists).                                       *)
NoClobber ==
    [][\A k \in Lists, id \in Ids :
          Has(k, id) /\ ~ Has(k, id)' =>
            \E c \in Clients : /\ pc[c] \in {"deleteRoute", "deleteTls"}
                               /\ call[c].id = id]_vars

(* No other caller is concerned with the identifier of c's call: nothing   *)
(* keeps two requests for one container apart.                             *)
Alone(c) == \A b \in Clients \ {c} : call[c].id \notin owned[b]

(* AddRoute and ReplayRoute that return nil leave both objects in place    *)
(* with the new payload, and AddRoute leaves the internal CA off, whatever *)
(* was lost or restarted on the way (caddy.go:376-447).                    *)
OkMeansInstalled ==
    \A c \in Clients :
        pc[c] = "done" /\ result[c] = "ok" /\ call[c].kind \in {"add", "replay"} /\ Alone(c) =>
            /\ \A k \in Lists : objs[k][call[c].id] = <<call[c].data>>
            /\ call[c].kind = "add" => certsOff

(* DeleteRouteAndTLS that returns nil leaves neither object (caddy.go:     *)
(* 449-478: a failed first DELETE is still an error after the second).     *)
OkMeansErased ==
    \A c \in Clients :
        pc[c] = "done" /\ result[c] = "ok" /\ call[c].kind = "delete" /\ Alone(c) =>
            \A k \in Lists : ~ Has(k, call[c].id)

(* A route loses its TLS policy only in a delete that has already failed   *)
(* to remove the route, and which therefore reports an error: otherwise    *)
(* Caddy would serve the domain with its internal CA and nobody would know *)
(* (caddy.go:457, the route goes first).  Where two callers share the      *)
(* identifier, the other may have installed the route again.               *)
PolicyOutlivesRoute ==
    [][\A id \in Ids :
          Has("tls", id) /\ ~ Has("tls", id)' /\ Has("route", id)' =>
            \E c \in Clients : /\ pc[c] = "deleteTls"
                               /\ call[c].id = id
                               /\ failed[c] \/ ~ Alone(c)]_vars

(* RouteManager, with the first object of each list under an identifier as *)
(* the policy and the route, and the requests of upsertByID as one step.   *)
Object(k, id) == IF Has(k, id) THEN {Head(objs[k][id])} ELSE {}

Phase(c) ==
    CASE pc[c] = "done" -> result[c]
      [] pc[c] \in {"get", "put", "post", "parent", "init", "repost"} ->
            IF list[c] = "tls" THEN "policy" ELSE "route"
      [] pc[c] = "automate" -> "route"
      [] pc[c] = "deleteRoute" -> "eraseRoute"
      [] pc[c] = "deleteTls" -> "erasePolicy"
      [] OTHER -> pc[c]

Manager == INSTANCE RouteManager WITH
    policy <- [id \in Ids |-> Object("tls", id)],
    route  <- [id \in Ids |-> Object("route", id)],
    at     <- [c \in Clients |-> Phase(c)],
    bad    <- failed

(* However requests and answers get lost, whenever the node restarts and   *)
(* whatever has to be created first, the client is the RouteManager that   *)
(* Engine is written against (interfaces.go:34-43): it touches nothing but *)
(* the objects of the call, and an error of the first DELETE does not keep *)
(* the second from being sent.                                             *)
Implements == Manager!Spec

(* Without faults AddRoute succeeds on a node in any state: what holds the *)
(* lists is created where it is missing (caddy.go:186-188, INTERNALS.md    *)
(* "Логика upsert", step 2).                                               *)
AddInitialisesNode ==
    \A c \in Clients :
        pc[c] = "done" /\ call[c].kind = "add" => result[c] = "ok"

=============================================================================
