------------------------------- MODULE Engine -------------------------------
(***************************************************************************)
(* core/engine.go: Provision, Deprovision and ReplayCaddy, called by the   *)
(* HTTP handlers of api/routes.go, any number of them at the same time and *)
(* with no lock between them.  Each walks through four systems that share  *)
(* no transaction: Proxmox (which container has the MAC), the Intermasq    *)
(* panel (the dnsmasq hosts), Caddy on the container's node (TLS policy    *)
(* and route) and the state file.  A step here is one call to one of them. *)
(*                                                                         *)
(* The calls on Caddy are those of CaddyClient with an upsert as one step, *)
(* on nodes that hold both lists; the wait for the certificate, which      *)
(* changes nothing here, is seen only in that it may never end (CertPoll   *)
(* has the rest of it); the state file is the table that StateStore        *)
(* implements.  The panel and Proxmox are not part of the repository and   *)
(* are modelled as core/intermasq.go and core/proxmox.go use them.         *)
(***************************************************************************)
EXTENDS Integers

CONSTANTS
    Workers,     \* goroutines that serve HTTP requests
    Asks,        \* Asks[w]: the requests worker w may be sent
    Macs,
    VMIDs,       \* numbers of containers, as integers
    VMIDBase,    \* EngineSettings.VMIDBase
    Nodes,       \* keys of the node configuration
    Listing,     \* Listing[v]: the nodes whose Proxmox API lists container v
    Confs,       \* what else is read off a container: name, port, protocol
    CaddyTag,    \* the member of Confs that stands for the tag "caddy"
    NoTag,       \* the member of Confs that stands for no port tag
    Shapes,      \* Shapes[v]: the states container v may be put in
    Faults,      \* which calls may fail, and "crash", "reset", "silent"
    CaddyFile,   \* EngineSettings.CaddyFile
    NodeFile,    \* NodeFile[id]: the file of the real node and the key's subnet
    None         \* "nothing there"

Ids == VMIDs \X Nodes    \* <vmid>-<node>: names route, policy, record and IP

Files == {NodeFile[id] : id \in Ids} \cup {CaddyFile}

Guests == [mac : Macs, running : BOOLEAN, conf : Confs] \cup {None}

Requests ==
         [op : {"provision"}, mac : Macs, dnsOnly : BOOLEAN]
    \cup [op : {"deprovision"}, mac : Macs]
    \cup [op : {"replay"}]

FaultKinds == {"pve", "addHost", "findFile", "deleteHost", "reload", "caddy",
               "state", "crash", "reset", "silent"}

ASSUME ConfAssumption == None \notin Confs /\ {CaddyTag, NoTag} \subseteq Confs

ASSUME NumberAssumption == VMIDs \subseteq Int /\ VMIDBase \in Int

ASSUME EnvAssumption ==
    /\ Asks \in [Workers -> SUBSET Requests]
    /\ Listing \in [VMIDs -> SUBSET Nodes]
    /\ Shapes \in [VMIDs -> SUBSET Guests]
    /\ Faults \subseteq FaultKinds

VARIABLES
    guest,        \* guest[v]: container v in Proxmox
    hosts,        \* host entries in the files of the panel
    loaded,       \* the entries dnsmasq has read at its last reload
    policy,       \* policy[id]: the TLS policy on the node's Caddy
    route,        \* route[id]: the route on the node's Caddy
    localCerts,   \* localCerts[n]: Caddy's internal CA is in use on n
    up,           \* up[n]: Caddy answers on n
    table,        \* table[id]: the record in the state file
    pc,           \* pc[w]: the next step of worker w
    ask,          \* ask[w]: the request it serves
    cur,          \* cur[w]: the container or record it works on
    todo,         \* todo[w]: records still to be replayed
    touched,      \* touched[w]: nodes a replay must restart
    errs,         \* errs[w]: the containers and nodes an error is listed for
    result,       \* result[w]: the outcome the client is sent
    trouble       \* history: what the request met with from outside

panel   == <<hosts, loaded>>
caddy   == <<policy, route, localCerts, up>>
outside == <<guest, panel, caddy, table>>
work    == <<ask, cur, todo, touched, errs>>
vars    == <<outside, pc, work, result, trouble>>

NoJob == [id |-> None, conf |-> None, file |-> None]

Init ==
    /\ guest \in {g \in [VMIDs -> Guests] : \A v \in VMIDs : g[v] \in Shapes[v]}
    /\ hosts = {}
    /\ loaded = {}
    /\ policy = [id \in Ids |-> None]
    /\ route = [id \in Ids |-> None]
    /\ localCerts = [n \in Nodes |-> TRUE]
    /\ up = [n \in Nodes |-> TRUE]
    /\ table = [id \in Ids |-> None]
    /\ pc = [w \in Workers |-> "idle"]
    /\ ask = [w \in Workers |-> None]
    /\ cur = [w \in Workers |-> NoJob]
    /\ todo = [w \in Workers |-> {}]
    /\ touched = [w \in Workers |-> {}]
    /\ errs = [w \in Workers |-> {}]
    /\ result = [w \in Workers |-> "none"]
    /\ trouble = [w \in Workers |-> {}]

(***************************************************************************)
(* How a step ends                                                         *)
(***************************************************************************)

Goto(w, label) == pc' = [pc EXCEPT ![w] = label]

Proceed(w, label) ==
    /\ Goto(w, label)
    /\ UNCHANGED <<work, result>>

(* Answer the client with r. *)
Finish(w, r) ==
    /\ Goto(w, "done")
    /\ result' = [result EXCEPT ![w] = r]
    /\ UNCHANGED work

(* Remember an error about x. *)
List(w, x) == errs' = [errs EXCEPT ![w] = @ \cup {x}]

(* Remember an error about the current job and go on. *)
Collect(w, label) ==
    /\ Goto(w, label)
    /\ List(w, cur[w].id)
    /\ UNCHANGED <<ask, cur, todo, touched, result>>

Note(w, what) == trouble' = [trouble EXCEPT ![w] = @ \cup {what}]

(* A call to another system.  It is carried out and answered (then); or it *)
(* is carried out and the answer is an error all the same, or it is not    *)
(* carried out (else).                                                     *)
Try(w, fault, reachable, effect, same, then, else) ==
    \/ reachable /\ effect /\ then /\ UNCHANGED trouble
    \/ reachable /\ fault \in Faults /\ effect /\ else /\ Note(w, "fault")
    \/ (~ reachable \/ fault \in Faults) /\ same /\ else /\ Note(w, "fault")

(***************************************************************************)
(* Finding the container                                                   *)
(***************************************************************************)

(* FindByMAC: the nodes are asked in no fixed order, and any that lists    *)
(* the container will do; a container with neither a port tag nor the      *)
(* caddy tag is not found.                                                 *)
Matches(mac) ==
    {id \in Ids : LET g == guest[id[1]]
                  IN  /\ g # None
                      /\ g.mac = mac
                      /\ g.conf # NoTag
                      /\ id[2] \in Listing[id[1]]}

(* computeIP: the last octet of the address. *)
ValidIP(id) == id[1] - VMIDBase \in 0..255

HostFile(id, conf) == IF conf = CaddyTag THEN CaddyFile ELSE NodeFile[id]

Job(id) == [id |-> id, conf |-> guest[id[1]].conf,
            file |-> HostFile(id, guest[id[1]].conf)]

SetJob(w, job) ==
    /\ cur' = [cur EXCEPT ![w] = job]
    /\ UNCHANGED <<ask, todo, touched, errs, result>>

(* The containers FindByMAC may find, and the files their entries go to.   *)
Sightings(mac) ==
    {s \in Ids \X Confs :
        /\ s[1][2] \in Listing[s[1][1]]
        /\ s[2] # NoTag
        /\ \E g \in Shapes[s[1][1]] : g # None /\ g.mac = mac /\ g.conf = s[2]}

FilesOf(mac) == {HostFile(s[1], s[2]) : s \in Sightings(mac)}

(* What a request may concern: the containers its MAC may be found at. *)
Concerns(r) == IF r.op = "replay" THEN Ids ELSE {s[1] : s \in Sightings(r.mac)}

(* The requests under way that concern a container r may concern. *)
Rivals(w, r) ==
    {x \in Workers \ {w} : /\ pc[x] # "idle"
                           /\ Concerns(ask[x]) \cap Concerns(r) # {}}

(* The request is decoded and dispatched, whatever else is under way.  The *)
(* history notes with whom it shares a container.                          *)
Accept(w) ==
    /\ pc[w] = "idle"
    /\ \E r \in Asks[w] :
         /\ ask' = [ask EXCEPT ![w] = r]
         /\ Goto(w, IF r.op = "replay" THEN "load" ELSE "find")
         /\ trouble' = [x \in Workers |->
               IF x \in Rivals(w, r) \/ (x = w /\ Rivals(w, r) # {})
               THEN trouble[x] \cup {"other"} ELSE trouble[x]]
    /\ UNCHANGED <<outside, cur, todo, touched, errs, result>>

(* A bug: the return after the error is missing. *)
FindFailsGoesOn(w) ==
    /\ pc[w] = "find"
    /\ \/ Matches(ask[w].mac) = {} /\ UNCHANGED trouble
       \/ "pve" \in Faults /\ Note(w, "fault")
    /\ Proceed(w, "addHost")
    /\ UNCHANGED outside

(* No container has the MAC, or Proxmox cannot be asked: both are 404. *)
FindFails(w) ==
    /\ pc[w] = "find"
    /\ \/ Matches(ask[w].mac) = {} /\ UNCHANGED trouble
       \/ "pve" \in Faults /\ Note(w, "fault")
    /\ Finish(w, "notFound")
    /\ UNCHANGED outside

(* Provision: the container is found and its address computed. *)
FindToProvision(w) ==
    /\ pc[w] = "find"
    /\ ask[w].op = "provision"
    /\ \E id \in Matches(ask[w].mac) :
         \/ ~ ValidIP(id) /\ Finish(w, "badRequest")
         \/ ValidIP(id) /\ SetJob(w, Job(id)) /\ Goto(w, "addHost")
    /\ UNCHANGED <<outside, trouble>>

(* Deprovision: only a stopped container is taken apart. *)
FindToDeprovision(w) ==
    /\ pc[w] = "find"
    /\ ask[w].op = "deprovision"
    /\ \E id \in Matches(ask[w].mac) :
         \/ guest[id[1]].running /\ Finish(w, "conflict")
         \/ ~ guest[id[1]].running /\ SetJob(w, Job(id)) /\ Goto(w, "deleteRoute")
    /\ UNCHANGED <<outside, trouble>>

(***************************************************************************)
(* The panel                                                               *)
(***************************************************************************)

Host(mac, job) == [mac |-> mac, file |-> job.file, id |-> job.id]

(* An entry replaces the one the file has for the MAC. *)
WithHost(hs, h) == {g \in hs : ~ (g.mac = h.mac /\ g.file = h.file)} \cup {h}

AddHost(w) ==
    /\ pc[w] = "addHost"
    /\ Try(w, "addHost", TRUE,
           hosts' = WithHost(hosts, Host(ask[w].mac, cur[w])), UNCHANGED hosts,
           Proceed(w, IF cur[w].conf = CaddyTag \/ ask[w].dnsOnly
                      THEN "reload" ELSE "flag"),
           Finish(w, "failed"))
    /\ UNCHANGED <<guest, loaded, caddy, table>>

(* FindFileByMAC: some file that has an entry for the MAC. *)
FindFile(w) ==
    /\ pc[w] = "findFile"
    /\ \/ \E h \in hosts :
            /\ h.mac = ask[w].mac
            /\ SetJob(w, [cur[w] EXCEPT !.file = h.file])
            /\ Goto(w, "deleteHost")
            /\ UNCHANGED trouble
       \/ /\ \A h \in hosts : h.mac # ask[w].mac
          /\ Proceed(w, "reload")
          /\ UNCHANGED trouble
       \/ /\ "findFile" \in Faults
          /\ Proceed(w, "reload")
          /\ Note(w, "lookup")
    /\ UNCHANGED outside

(* A bug: the entry is named by its file alone. *)
DeleteHostFile(w) ==
    /\ pc[w] = "deleteHost"
    /\ Try(w, "deleteHost", TRUE,
           hosts' = {h \in hosts : h.file # cur[w].file}, UNCHANGED hosts,
           Proceed(w, "reload"), Collect(w, "reload"))
    /\ UNCHANGED <<guest, loaded, caddy, table>>

(* A bug: the error of the panel is only logged. *)
DeleteHostSilent(w) ==
    /\ pc[w] = "deleteHost"
    /\ Try(w, "deleteHost", TRUE,
           hosts' = {h \in hosts : ~ (h.mac = ask[w].mac /\ h.file = cur[w].file)},
           UNCHANGED hosts,
           Proceed(w, "reload"), Proceed(w, "reload"))
    /\ UNCHANGED <<guest, loaded, caddy, table>>

(* The entry of the MAC in the file FindFileByMAC has named. *)
DeleteHost(w) ==
    /\ pc[w] = "deleteHost"
    /\ Try(w, "deleteHost", TRUE,
           hosts' = {h \in hosts : ~ (h.mac = ask[w].mac /\ h.file = cur[w].file)},
           UNCHANGED hosts,
           Proceed(w, "reload"), Collect(w, "reload"))
    /\ UNCHANGED <<guest, loaded, caddy, table>>

(* reloadDnsmasq: an error is only logged.  It is the last call of         *)
(* Provision and Deprovision.                                              *)
Reload(w) ==
    /\ pc[w] = "reload"
    /\ LET over == Finish(w, IF errs[w] = {} THEN "ok" ELSE "failed")
       IN  Try(w, "reload", TRUE, loaded' = hosts, UNCHANGED loaded, over, over)
    /\ UNCHANGED <<guest, hosts, caddy, table>>

(***************************************************************************)
(* Caddy                                                                   *)
(***************************************************************************)

Node(w) == cur[w].id[2]

(* A call to Caddy on the node of the current job. *)
TryCaddy(w, effect, then, else) ==
    /\ Try(w, "caddy", up[Node(w)], effect, UNCHANGED caddy, then, else)
    /\ UNCHANGED <<guest, panel, table>>

(* A bug: Provision logs an error of AddRoute and goes on. *)
RouteFailsLogged(w) ==
    IF ask[w].op = "replay" THEN Collect(w, "next") ELSE Proceed(w, "upsert")

(* A bug: ReplayCaddy stops at the first error. *)
RouteFailsStops(w) ==
    IF ask[w].op = "replay"
    THEN /\ Goto(w, "next")
         /\ List(w, cur[w].id)
         /\ todo' = [todo EXCEPT ![w] = {}]
         /\ UNCHANGED <<ask, cur, touched, result>>
    ELSE Finish(w, "failed")

(* An error of AddRoute ends the request; ReplayCaddy notes it and takes   *)
(* the next record.                                                        *)
RouteFails(w) ==
    IF ask[w].op = "replay" THEN Collect(w, "next") ELSE Finish(w, "failed")

(* disableLocalCerts, in AddRoute only. *)
Flag(w) ==
    /\ pc[w] = "flag"
    /\ TryCaddy(w,
                /\ localCerts' = [localCerts EXCEPT ![Node(w)] = FALSE]
                /\ UNCHANGED <<policy, route, up>>,
                Proceed(w, "policy"), RouteFails(w))

(* installRouteAndCert: the policy, the order for the certificate, the     *)
(* route.                                                                  *)
Policy(w) ==
    /\ pc[w] = "policy"
    /\ TryCaddy(w,
                /\ policy' = [policy EXCEPT ![cur[w].id] = cur[w].conf]
                /\ UNCHANGED <<route, localCerts, up>>,
                Proceed(w, "automate"), RouteFails(w))

Automate(w) ==
    /\ pc[w] = "automate"
    /\ TryCaddy(w, UNCHANGED caddy, Proceed(w, "route"), RouteFails(w))

InstallRoute(w) ==
    /\ route' = [route EXCEPT ![cur[w].id] = cur[w].conf]
    /\ UNCHANGED <<policy, localCerts, up>>

(* A bug: the error of a replayed record is dropped. *)
RouteReplayedSilent(w) ==
    /\ pc[w] = "route"
    /\ ask[w].op = "replay"
    /\ LET on == /\ touched' = [touched EXCEPT ![w] = @ \cup {Node(w)}]
                 /\ Goto(w, "next")
                 /\ UNCHANGED <<ask, cur, todo, errs, result>>
       IN  TryCaddy(w, InstallRoute(w), on, on)

(* A bug: AddRoute tries again until the node takes the route. *)
RouteAddedRetries(w) ==
    /\ pc[w] = "route"
    /\ ask[w].op = "provision"
    /\ TryCaddy(w, InstallRoute(w), Proceed(w, "restart"), Proceed(w, "route"))

(* A bug: AddRoute takes any answer to the upsert of the route for a good  *)
(* one.                                                                    *)
RouteAddedUnchecked(w) ==
    /\ pc[w] = "route"
    /\ ask[w].op = "provision"
    /\ TryCaddy(w, InstallRoute(w), Proceed(w, "restart"), Proceed(w, "restart"))

RouteAdded(w) ==
    /\ pc[w] = "route"
    /\ ask[w].op = "provision"
    /\ TryCaddy(w, InstallRoute(w), Proceed(w, "restart"), RouteFails(w))

RouteReplayed(w) ==
    /\ pc[w] = "route"
    /\ ask[w].op = "replay"
    /\ TryCaddy(w, InstallRoute(w),
                /\ touched' = [touched EXCEPT ![w] = @ \cup {Node(w)}]
                /\ Goto(w, "next")
                /\ UNCHANGED <<ask, cur, todo, errs, result>>,
                RouteFails(w))

(* WaitForCert comes before every restart.  Its error is only logged; but  *)
(* tls.Dial has no timeout, and on a handshake that is never answered the  *)
(* request hangs until the connection breaks, if it ever does.             *)
Awaits(w) == pc[w] = "restart" \/ (pc[w] = "next" /\ todo[w] = {} /\ touched[w] # {})

DialHangs(w) ==
    /\ "silent" \in Faults
    /\ Awaits(w)
    /\ Proceed(w, "hung")
    /\ UNCHANGED <<outside, trouble>>

DialBreaks(w) ==
    /\ pc[w] = "hung"
    /\ Proceed(w, IF ask[w].op = "replay" THEN "next" ELSE "restart")
    /\ UNCHANGED <<outside, trouble>>

(* RestartCaddy: a node that cannot be reached counts as restarted; a      *)
(* status of 400 or more is an error and leaves it running.                *)
TryRestart(w, n, then, else) ==
    /\ \/ up[n] /\ up' = [up EXCEPT ![n] = FALSE] /\ then /\ UNCHANGED trouble
       \/ ~ up[n] /\ UNCHANGED up /\ then /\ UNCHANGED trouble
       \/ "caddy" \in Faults /\ UNCHANGED up /\ then /\ Note(w, "fault")
       \/ "caddy" \in Faults /\ UNCHANGED up /\ else /\ Note(w, "fault")
    /\ UNCHANGED <<guest, panel, policy, route, localCerts, table>>

(* The restart at the end of AddRoute, once WaitForCert has returned. *)
RestartAdded(w) ==
    /\ pc[w] = "restart"
    /\ TryRestart(w, Node(w), Proceed(w, "upsert"), RouteFails(w))

(* DeleteRouteAndTLS: two requests, an error of the first does not keep    *)
(* the second from being sent.                                             *)
DeleteRoute(w) ==
    /\ pc[w] = "deleteRoute"
    /\ TryCaddy(w,
                /\ route' = [route EXCEPT ![cur[w].id] = None]
                /\ UNCHANGED <<policy, localCerts, up>>,
                Proceed(w, "deletePolicy"), Collect(w, "deletePolicy"))

(* A bug: the error of the second request is not collected. *)
DeletePolicySilent(w) ==
    /\ pc[w] = "deletePolicy"
    /\ TryCaddy(w,
                /\ policy' = [policy EXCEPT ![cur[w].id] = None]
                /\ UNCHANGED <<route, localCerts, up>>,
                Proceed(w, "remove"), Proceed(w, "remove"))

(* The policy, whatever became of the route. *)
DeletePolicy(w) ==
    /\ pc[w] = "deletePolicy"
    /\ TryCaddy(w,
                /\ policy' = [policy EXCEPT ![cur[w].id] = None]
                /\ UNCHANGED <<route, localCerts, up>>,
                Proceed(w, "remove"), Collect(w, "remove"))

(***************************************************************************)
(* The state file                                                          *)
(***************************************************************************)

(* A bug: the record is only written on an identifier that has none. *)
UpsertOnce(w) ==
    /\ pc[w] = "upsert"
    /\ Try(w, "state", TRUE,
           table' = IF table[cur[w].id] # None THEN table
                    ELSE [table EXCEPT ![cur[w].id] = cur[w].conf],
           UNCHANGED table,
           Proceed(w, "reload"), Proceed(w, "reload"))
    /\ UNCHANGED <<guest, panel, caddy>>

(* Provision only logs that the record could not be written. *)
Upsert(w) ==
    /\ pc[w] = "upsert"
    /\ Try(w, "state", TRUE,
           table' = [table EXCEPT ![cur[w].id] = cur[w].conf], UNCHANGED table,
           Proceed(w, "reload"), Proceed(w, "reload"))
    /\ UNCHANGED <<guest, panel, caddy>>

Remove(w) ==
    /\ pc[w] = "remove"
    /\ Try(w, "state", TRUE,
           table' = [table EXCEPT ![cur[w].id] = None], UNCHANGED table,
           Proceed(w, "findFile"), Collect(w, "findFile"))
    /\ UNCHANGED <<guest, panel, caddy>>

(***************************************************************************)
(* ReplayCaddy                                                             *)
(***************************************************************************)

Recorded == {id \in Ids : table[id] # None}

(* The table is read once; what happens to it afterwards goes unnoticed. *)
Load(w) ==
    /\ pc[w] = "load"
    /\ \/ /\ todo' = [todo EXCEPT ![w] =
                        {[id |-> id, conf |-> table[id], file |-> None] : id \in Recorded}]
          /\ Goto(w, "next")
          /\ UNCHANGED <<ask, cur, touched, errs, result, trouble>>
       \/ /\ "state" \in Faults
          /\ Finish(w, "failed")
          /\ Note(w, "fault")
    /\ UNCHANGED outside

NextRecord(w) ==
    /\ pc[w] = "next"
    /\ \E r \in todo[w] :
         /\ cur' = [cur EXCEPT ![w] = r]
         /\ todo' = [todo EXCEPT ![w] = @ \ {r}]
    /\ Goto(w, "policy")
    /\ UNCHANGED <<outside, ask, touched, errs, result, trouble>>

(* After the last record, the nodes that took one are waited for and       *)
(* restarted in turn.                                                      *)
RestartReplayed(w) ==
    /\ pc[w] = "next"
    /\ todo[w] = {}
    /\ \E n \in touched[w] :
         LET rest == touched' = [touched EXCEPT ![w] = @ \ {n}]
             stay == UNCHANGED <<pc, ask, cur, todo, result>>
         IN  TryRestart(w, n, rest /\ stay /\ UNCHANGED errs,
                        rest /\ stay /\ List(w, n))

(* The answer is 200 and lists the errors. *)
ReplayEnds(w) ==
    /\ pc[w] = "next"
    /\ todo[w] = {} /\ touched[w] = {}
    /\ Finish(w, IF errs[w] = {} THEN "ok" ELSE "partial")
    /\ UNCHANGED <<outside, trouble>>

(***************************************************************************)
(* The end of a request, and what happens outside                          *)
(***************************************************************************)

Reset1(f, w, x) == [f EXCEPT ![w] = x]

Respond(w) ==
    /\ pc[w] = "done"
    /\ Goto(w, "idle")
    /\ ask' = Reset1(ask, w, None)
    /\ cur' = Reset1(cur, w, NoJob)
    /\ todo' = Reset1(todo, w, {})
    /\ touched' = Reset1(touched, w, {})
    /\ errs' = Reset1(errs, w, {})
    /\ result' = Reset1(result, w, "none")
    /\ trouble' = Reset1(trouble, w, {})
    /\ UNCHANGED outside

(* The plugin dies and is started again: every request is cut off. *)
Crash ==
    /\ "crash" \in Faults
    /\ pc' = [w \in Workers |-> "idle"]
    /\ ask' = [w \in Workers |-> None]
    /\ cur' = [w \in Workers |-> NoJob]
    /\ todo' = [w \in Workers |-> {}]
    /\ touched' = [w \in Workers |-> {}]
    /\ errs' = [w \in Workers |-> {}]
    /\ result' = [w \in Workers |-> "none"]
    /\ trouble' = [w \in Workers |-> {}]
    /\ UNCHANGED outside

(* The owner starts, stops, retags, deletes or makes a container. *)
Churn(v) ==
    /\ \E g \in Shapes[v] : g # guest[v] /\ guest' = [guest EXCEPT ![v] = g]
    /\ UNCHANGED <<panel, caddy, table, pc, work, result, trouble>>

(* systemd starts Caddy again with the configuration it had. *)
NodeUp(n) ==
    /\ ~ up[n]
    /\ up' = [up EXCEPT ![n] = TRUE]
    /\ UNCHANGED <<guest, panel, policy, route, localCerts, table,
                   pc, work, result, trouble>>

(* Caddy on a node loses what was configured through its API and falls     *)
(* back to a configuration file of its own that has both lists: the reason *)
(* ReplayCaddy exists.  (A node without them refuses every upsert:         *)
(* CaddyClient.)                                                           *)
NodeReset(n) ==
    /\ "reset" \in Faults
    /\ policy' = [id \in Ids |-> IF id[2] = n THEN None ELSE policy[id]]
    /\ route' = [id \in Ids |-> IF id[2] = n THEN None ELSE route[id]]
    /\ localCerts' = [localCerts EXCEPT ![n] = TRUE]
    /\ trouble' = [w \in Workers |-> IF pc[w] = "idle" THEN {}
                                     ELSE trouble[w] \cup {"reset"}]
    /\ UNCHANGED <<guest, panel, up, table, pc, work, result>>

Step(w) ==
    \/ FindFails(w) \/ FindToProvision(w) \/ FindToDeprovision(w)
    \/ AddHost(w) \/ FindFile(w) \/ DeleteHost(w) \/ Reload(w)
    \/ Flag(w) \/ Policy(w) \/ Automate(w) \/ RouteAdded(w) \/ RouteReplayed(w)
    \/ RestartAdded(w) \/ DeleteRoute(w) \/ DeletePolicy(w)
    \/ Upsert(w) \/ Remove(w)
    \/ Load(w) \/ NextRecord(w) \/ RestartReplayed(w) \/ ReplayEnds(w)
    \/ Respond(w)

Next ==
    \/ \E w \in Workers : Accept(w) \/ Step(w) \/ DialHangs(w) \/ DialBreaks(w)
    \/ \E v \in VMIDs : Churn(v)
    \/ \E n \in Nodes : NodeUp(n) \/ NodeReset(n)
    \/ Crash

Spec == Init /\ [][Next]_vars

(* The HTTP clients of the plugin have timeouts and the wait for a         *)
(* certificate a deadline, so every call ends but for a dial that hangs;   *)
(* systemd restarts Caddy.                                                 *)
FairSpec ==
    /\ Spec
    /\ \A w \in Workers : WF_vars(Step(w))
    /\ \A n \in Nodes : WF_vars(NodeUp(n))

(***************************************************************************)
(* The instances in which a container is listed under one key, and those   *)
(* in which a MAC has one host file.                                       *)
(***************************************************************************)

OneKey == \A v \in VMIDs : \A n, m \in Listing[v] : n = m

OneFile == \A mac \in Macs : \A f, g \in FilesOf(mac) : f = g

(***************************************************************************)
(* Properties                                                              *)
(***************************************************************************)

Labels == {"idle", "find", "addHost", "flag", "policy", "automate", "route",
           "restart", "upsert", "reload", "deleteRoute", "deletePolicy", "remove",
           "findFile", "deleteHost", "load", "next", "hung", "done"}

Results == {"none", "ok", "partial", "notFound", "conflict", "badRequest", "failed"}

Jobs == [id : Ids \cup {None}, conf : Confs \cup {None}, file : Files \cup {None}]

Errors == Ids \cup Nodes \cup {None}

Remarks == {"fault", "lookup", "reset", "other"}

(* Every variable has its type, and a step that works on a container or a  *)
(* record has one to work on.                                              *)
TypeOK ==
    /\ guest \in [VMIDs -> Guests]
    /\ hosts \subseteq [mac : Macs, file : Files, id : Ids]
    /\ loaded \subseteq [mac : Macs, file : Files, id : Ids]
    /\ policy \in [Ids -> Confs \cup {None}]
    /\ route \in [Ids -> Confs \cup {None}]
    /\ localCerts \in [Nodes -> BOOLEAN]
    /\ up \in [Nodes -> BOOLEAN]
    /\ table \in [Ids -> Confs \cup {None}]
    /\ pc \in [Workers -> Labels]
    /\ ask \in [Workers -> Requests \cup {None}]
    /\ cur \in [Workers -> Jobs]
    /\ todo \in [Workers -> SUBSET Jobs]
    /\ touched \in [Workers -> SUBSET Nodes]
    /\ errs \in [Workers -> SUBSET Errors]
    /\ result \in [Workers -> Results]
    /\ trouble \in [Workers -> SUBSET Remarks]
    /\ \A w \in Workers :
          /\ pc[w] # "idle" => ask[w] \in Requests
          /\ pc[w] \notin {"idle", "find", "load", "next", "hung", "done"} =>
                cur[w].id \in Ids

Answered(w, op) == pc[w] = "done" /\ ask[w].op = op

(* The request asks for a route as well as for a host entry. *)
Routable(w) == ~ ask[w].dnsOnly /\ cur[w].conf # CaddyTag

(* No other request that may concern the same container was under way at   *)
(* any time of this one: nothing in the code sees to that.                 *)
Unrivalled(w) == "other" \notin trouble[w]

(* Nothing but this request's own calls has changed what Caddy has of its  *)
(* containers.                                                             *)
Unspoilt(w) == Unrivalled(w) /\ "reset" \notin trouble[w]

(* A Provision that reports success has done what it was asked to, however *)
(* many of its calls were carried out without an answer, and whatever      *)
(* earlier requests left behind: the host entry is there and, unless only  *)
(* DNS was asked for, policy and route are those of the container as it    *)
(* was found and the internal CA is off, provided that no other request    *)
(* for the container and no reset of the node came in between              *)
(* (engine.go:140-170).                                                    *)
ProvisionOk ==
    \A w \in Workers : Answered(w, "provision") /\ result[w] = "ok" =>
        /\ Unrivalled(w) => Host(ask[w].mac, cur[w]) \in hosts
        /\ Routable(w) /\ Unspoilt(w) =>
              /\ policy[cur[w].id] = cur[w].conf
              /\ route[cur[w].id] = cur[w].conf
              /\ ~ localCerts[Node(w)]

(* A Provision during which nothing failed and no other request for its    *)
(* container was under way succeeds on any container that can be           *)
(* provisioned and makes good what failed or crashed requests left undone: *)
(* dnsmasq has the entry, the state file has the record (so that asking    *)
(* again is the remedy FEATURES.md suggests).                              *)
ProvisionHeals ==
    \A w \in Workers : Answered(w, "provision") /\ trouble[w] = {} =>
        \/ result[w] \in {"notFound", "badRequest"}
        \/ /\ result[w] = "ok"
           /\ Host(ask[w].mac, cur[w]) \in loaded
           /\ Routable(w) => table[cur[w].id] = cur[w].conf

(* Nothing is left under the identifier id. *)
Gone(id) == route[id] = None /\ policy[id] = None /\ table[id] = None

(* A Deprovision that reports success, and that no other request for the   *)
(* container overlapped, leaves no route, no policy, no record and no host *)
(* entry of the container: errors are collected and not lost, and what an  *)
(* earlier attempt could not remove is removed (engine.go:173-208).  The   *)
(* one error that does get lost is that the panel cannot say which file    *)
(* has the entry (engine.go:195-200).                                      *)
DeprovisionOk ==
    \A w \in Workers :
        Answered(w, "deprovision") /\ result[w] = "ok" /\ Unrivalled(w) =>
            /\ Gone(cur[w].id)
            /\ "lookup" \in trouble[w] \/ \A h \in hosts : h.mac # ask[w].mac

(* Nothing of the container of w is left under any node's key, nor a host  *)
(* entry of its MAC.                                                       *)
Erased(w) ==
    /\ \A n \in Nodes : Gone(<<cur[w].id[1], n>>)
    /\ \A h \in hosts : h.mac # ask[w].mac

(* A Deprovision that reports success leaves nothing of the container      *)
(* under any node's key: "Удаляются маршрут и политика TLS из Caddy,       *)
(* запись из routes.json и хост-запись из dnsmasq" (FEATURES.md:67-68).    *)
(* The code does not keep this promise on a cluster, nor beside a replay.  *)
DeprovisionErases ==
    \A w \in Workers : Answered(w, "deprovision") /\ result[w] = "ok" => Erased(w)

(* What is left of that promise (FEATURES.md:67-68) where a container is   *)
(* listed under one key and its MAC has one host file: a Deprovision that  *)
(* reports success erases the container unless another request that may    *)
(* concern it overlapped, however that one's restarts and this one's       *)
(* errors fall (engine.go:173-208).                                        *)
DeprovisionClears ==
    \A w \in Workers :
        Answered(w, "deprovision") /\ result[w] = "ok" /\ Unrivalled(w) => Erased(w)

(* A ReplayCaddy that comes to its end has dealt with every record of the  *)
(* state file: either the client is told of an error for it, or its route  *)
(* and its policy are there.  One record that fails neither stops the      *)
(* others nor is forgotten (engine.go:217-258).                            *)
ReplayOk ==
    \A w \in Workers :
        Answered(w, "replay") /\ result[w] \in {"ok", "partial"} /\ Unspoilt(w) =>
            \A id \in Recorded :
                \/ result[w] = "partial" /\ id \in errs[w]
                \/ route[id] = table[id] /\ policy[id] = table[id]

(* What is written to the state file is what Caddy has been given, unless  *)
(* a reset or another request for the container came between the two: a    *)
(* crash or an error never leaves a new record that the next replay would  *)
(* install although its Provision failed before it (engine.go:152-166, the *)
(* record comes after the route).                                          *)
RecordedAsRouted ==
    [][\A id \in Ids :
          table'[id] \notin {table[id], None} =>
            \/ route[id] = table'[id] /\ policy[id] = table'[id]
            \/ \E w \in Workers : pc[w] = "upsert" /\ ~ Unspoilt(w)]_vars

(* A request is answered, or cut off by a crash, or hangs in a handshake   *)
(* of its own that is never answered (caddy.go:550): requests never wait   *)
(* for one another, whichever share a node or a container, and none goes   *)
(* round in circles at a node that another keeps stopping                  *)
(* (engine.go:116-258).                                                    *)
AnsweredOrHung ==
    \A w \in Workers : pc[w] # "idle" ~> pc[w] \in {"idle", "hung"}

=============================================================================
