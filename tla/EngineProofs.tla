---------------------------- MODULE EngineProofs ----------------------------
(***************************************************************************)
(* What is proved of Engine for any number of workers, containers, nodes   *)
(* and tags and any set of faults, whatever requests meet: types, and what *)
(* a request promises its client if no other request that may concern its  *)
(* container was under way meanwhile (Unrivalled, which the properties     *)
(* name themselves).  What a Deprovision promises takes in addition that a *)
(* MAC has one host file (OneFile).                                        *)
(***************************************************************************)
EXTENDS Engine, TLAPS

(***************************************************************************)
(* The inductive invariant                                                 *)
(***************************************************************************)

(* What a worker's step says of its request.                               *)
Serves(label, op) ==
    /\ label \in {"find", "reload"} => op \in {"provision", "deprovision"}
    /\ label \in {"addHost", "flag", "restart", "upsert"} => op = "provision"
    /\ label \in {"policy", "automate", "route", "hung"} => op \in {"provision", "replay"}
    /\ label \in {"deleteRoute", "deletePolicy", "remove", "findFile", "deleteHost"} =>
          op = "deprovision"
    /\ label \in {"load", "next"} => op = "replay"

Ok(w) == pc[w] = "done" /\ result[w] = "ok"

(* The worker has a container or a record to work on, or has answered that *)
(* it is done with it.                                                     *)
Busy(w) ==
    /\ pc[w] \notin {"idle", "find", "load", "next", "done"}
    /\ pc[w] = "hung" => ask[w].op # "replay"

HasJob(w) == Busy(w) \/ (Ok(w) /\ ask[w].op # "replay")

Stages ==
    \A w \in Workers :
        /\ pc[w] # "idle" => ask[w] \in Asks[w] /\ Serves(pc[w], ask[w].op)
        /\ \A r \in todo[w] : r.id \in Ids
        /\ HasJob(w) => cur[w].id \in Ids
        /\ HasJob(w) /\ ask[w].op # "replay" =>
              /\ cur[w].id \in Concerns(ask[w])
              /\ cur[w].file \in FilesOf(ask[w].mac)
              /\ cur[w].conf \in Confs

Sources ==
    /\ \A v \in VMIDs : guest[v] \in Shapes[v]
    /\ \A h \in hosts : h.file \in FilesOf(h.mac)

Typed == TypeOK /\ Stages /\ Sources

(* A Provision that wants a route is past the given steps.                 *)
Past(w, labels) ==
    pc[w] \in labels \/ (Routable(w) /\ (pc[w] = "reload" \/ Ok(w)))

Fresh(w) == pc[w] = "idle" \/ Ok(w) => errs[w] = {}

Provisioned(w) ==
    pc[w] # "idle" /\ ask[w].op = "provision" =>
        /\ errs[w] = {}
        /\ pc[w] \in {"flag", "policy", "automate", "route", "restart", "hung", "upsert"} =>
              Routable(w)
        /\ HasJob(w) /\ pc[w] # "addHost" => Host(ask[w].mac, cur[w]) \in hosts
        /\ "reset" \notin trouble[w] =>
              /\ Past(w, {"policy", "automate", "route", "restart", "hung", "upsert"}) =>
                    ~ localCerts[Node(w)]
              /\ Past(w, {"automate", "route", "restart", "hung", "upsert"}) =>
                    policy[cur[w].id] = cur[w].conf
              /\ Past(w, {"restart", "hung", "upsert"}) => route[cur[w].id] = cur[w].conf
        /\ trouble[w] = {} =>
              /\ Past(w, {}) => table[cur[w].id] = cur[w].conf
              /\ pc[w] = "done" => result[w] \in {"ok", "notFound", "badRequest"}
              /\ Ok(w) => Host(ask[w].mac, cur[w]) \in loaded

Deprovisioned(w) ==
    HasJob(w) /\ ask[w].op = "deprovision" /\ errs[w] = {} =>
        /\ pc[w] # "deleteRoute" => route[cur[w].id] = None
        /\ pc[w] \notin {"deleteRoute", "deletePolicy"} => policy[cur[w].id] = None
        /\ pc[w] \notin {"deleteRoute", "deletePolicy", "remove"} => table[cur[w].id] = None

(* The panel has no entry for the MAC, or the worker could not ask it.     *)
Unlisted(w) ==
    HasJob(w) /\ ask[w].op = "deprovision" /\ errs[w] = {} /\ (pc[w] = "reload" \/ Ok(w)) =>
        "lookup" \in trouble[w] \/ \A h \in hosts : h.mac # ask[w].mac

(* The records as the replay has read them, and how far it has got.        *)
Installing(w) == pc[w] \in {"policy", "automate", "route"}

Ended(w) == pc[w] = "done" /\ result[w] \in {"ok", "partial"}

Replayed(w) ==
    (pc[w] \in {"next", "hung"} \/ Installing(w) \/ Ended(w)) /\ ask[w].op = "replay" =>
        /\ \A r \in todo[w] : r.conf = table[r.id]
        /\ Ended(w) => todo[w] = {}
        /\ Installing(w) => cur[w].conf = table[cur[w].id]
        /\ "reset" \notin trouble[w] =>
              /\ pc[w] \in {"automate", "route"} => policy[cur[w].id] = cur[w].conf
              /\ \A id \in Recorded :
                    \/ id \in errs[w]
                    \/ \E r \in todo[w] : r.id = id
                    \/ Installing(w) /\ cur[w].id = id
                    \/ route[id] = table[id] /\ policy[id] = table[id]

(* What a request may count on that no rival has met.                      *)
Holds(w) == Provisioned(w) /\ Deprovisioned(w) /\ Replayed(w)

Promised == \A w \in Workers : Fresh(w) /\ (Unrivalled(w) => Holds(w))

(* The history misses no request that meets another over a container.      *)
Noticed ==
    \A w, x \in Workers :
        w # x /\ pc[w] # "idle" /\ pc[x] # "idle" /\ Unrivalled(x) =>
            Concerns(ask[w]) \cap Concerns(ask[x]) = {}

IInv == Typed /\ Noticed /\ Promised

(* What a worker may do next. *)
Moves(w) == Accept(w) \/ Step(w) \/ DialHangs(w) \/ DialBreaks(w)

(***************************************************************************)
(* Requests and containers                                                 *)
(***************************************************************************)

(* The fields a request has, by its kind (routes.go:104-172).              *)
LEMMA RequestTypes ==
    /\ \A w \in Workers : Asks[w] \subseteq Requests
    /\ \A r \in Requests :
          /\ r.op \in {"provision", "deprovision", "replay"}
          /\ r.op # "replay" => r.mac \in Macs
          /\ r.op = "provision" => r.dnsOnly \in BOOLEAN
<1>1. \A w \in Workers : Asks[w] \subseteq Requests
    BY EnvAssumption
<1>2. \A r \in Requests :
          /\ r.op \in {"provision", "deprovision", "replay"}
          /\ r.op # "replay" => r.mac \in Macs
          /\ r.op = "provision" => r.dnsOnly \in BOOLEAN
    BY DEF Requests
<1> QED
    BY <1>1, <1>2

(* What FindByMAC finds is one of the containers it may find, and the job  *)
(* made of it has the file of its entry (engine.go:111-139, 174-183).      *)
LEMMA MatchesSighted ==
    ASSUME Typed, NEW mac \in Macs, NEW id \in Matches(mac)
    PROVE  /\ id \in Ids /\ id[1] \in VMIDs /\ id[2] \in Nodes
           /\ guest[id[1]].conf \in Confs
           /\ Job(id) = [id |-> id, conf |-> guest[id[1]].conf,
                         file |-> HostFile(id, guest[id[1]].conf)]
           /\ Job(id) \in Jobs
           /\ <<id, guest[id[1]].conf>> \in Sightings(mac)
           /\ HostFile(id, guest[id[1]].conf) \in FilesOf(mac)
           /\ id \in {s[1] : s \in Sightings(mac)}
<1>1. /\ id \in Ids /\ id[1] \in VMIDs /\ id[2] \in Nodes
      /\ guest[id[1]] # None /\ guest[id[1]].mac = mac /\ guest[id[1]].conf # NoTag
      /\ id[2] \in Listing[id[1]]
    BY DEF Matches, Ids
<1>2. guest[id[1]].conf \in Confs
    BY <1>1 DEF Typed, TypeOK, Guests
<1>3. Job(id) = [id |-> id, conf |-> guest[id[1]].conf,
                 file |-> HostFile(id, guest[id[1]].conf)]
    BY DEF Job
<1>4. HostFile(id, guest[id[1]].conf) \in Files
    BY <1>1 DEF HostFile, Files
<1>5. Job(id) \in Jobs
    BY <1>1, <1>2, <1>3, <1>4 DEF Jobs
<1>6. <<id, guest[id[1]].conf>> \in Sightings(mac)
  <2>1. guest[id[1]] \in Shapes[id[1]]
      BY <1>1 DEF Typed, Sources
  <2> QED
      BY <1>1, <1>2, <2>1 DEF Sightings
<1>7. HostFile(id, guest[id[1]].conf) \in FilesOf(mac)
  <2> DEFINE s == <<id, guest[id[1]].conf>>
  <2>1. HostFile(s[1], s[2]) \in FilesOf(mac)
      BY <1>6 DEF FilesOf
  <2> QED
      BY <2>1
<1>8. id \in {s[1] : s \in Sightings(mac)}
  <2> DEFINE s == <<id, guest[id[1]].conf>>
  <2>1. s[1] \in {x[1] : x \in Sightings(mac)}
      BY <1>6
  <2> QED
      BY <2>1
<1> QED
    BY <1>1, <1>2, <1>3, <1>5, <1>6, <1>7, <1>8

(* The panel is only asked for files that there are.                       *)
LEMMA FilesAreFiles ==
    ASSUME NEW mac
    PROVE  FilesOf(mac) \subseteq Files
BY DEF FilesOf, Sightings, HostFile, Files, Ids

(***************************************************************************)
(* What a step may change                                                  *)
(***************************************************************************)

OutsideTypes ==
    /\ guest \in [VMIDs -> Guests]
    /\ hosts \subseteq [mac : Macs, file : Files, id : Ids]
    /\ loaded \subseteq [mac : Macs, file : Files, id : Ids]
    /\ policy \in [Ids -> Confs \cup {None}]
    /\ route \in [Ids -> Confs \cup {None}]
    /\ localCerts \in [Nodes -> BOOLEAN]
    /\ up \in [Nodes -> BOOLEAN]
    /\ table \in [Ids -> Confs \cup {None}]

ControlTypes ==
    /\ pc \in [Workers -> Labels]
    /\ ask \in [Workers -> Requests \cup {None}]
    /\ cur \in [Workers -> Jobs]
    /\ todo \in [Workers -> SUBSET Jobs]
    /\ touched \in [Workers -> SUBSET Nodes]
    /\ errs \in [Workers -> SUBSET Errors]
    /\ result \in [Workers -> Results]
    /\ trouble \in [Workers -> SUBSET Remarks]
    /\ \A w \in Workers :
          /\ pc[w] # "idle" => ask[w] \in Requests
          /\ pc[w] \notin {"idle", "find", "load", "next", "hung", "done"} =>
                cur[w].id \in Ids

(* What the calls of a request do to the other systems, each at its step.  *)
PanelEffect(w) ==
    \/ pc[w] = "addHost" /\ hosts' = WithHost(hosts, Host(ask[w].mac, cur[w]))
                         /\ UNCHANGED loaded
    \/ /\ pc[w] = "deleteHost"
       /\ hosts' = {h \in hosts : ~ (h.mac = ask[w].mac /\ h.file = cur[w].file)}
       /\ UNCHANGED loaded
    \/ pc[w] = "reload" /\ loaded' = hosts /\ UNCHANGED hosts

CaddyEffect(w) ==
    \/ /\ pc[w] = "flag" /\ localCerts' = [localCerts EXCEPT ![Node(w)] = FALSE]
       /\ UNCHANGED <<policy, route, up>>
    \/ /\ pc[w] = "policy" /\ policy' = [policy EXCEPT ![cur[w].id] = cur[w].conf]
       /\ UNCHANGED <<route, localCerts, up>>
    \/ /\ pc[w] = "deletePolicy" /\ policy' = [policy EXCEPT ![cur[w].id] = None]
       /\ UNCHANGED <<route, localCerts, up>>
    \/ pc[w] = "route" /\ InstallRoute(w)
    \/ /\ pc[w] = "deleteRoute" /\ route' = [route EXCEPT ![cur[w].id] = None]
       /\ UNCHANGED <<policy, localCerts, up>>
    \/ /\ pc[w] \in {"restart", "next"}
       /\ \E n \in Nodes : up' = [up EXCEPT ![n] = FALSE]
       /\ UNCHANGED <<policy, route, localCerts>>

TableEffect(w) ==
    \/ pc[w] = "upsert" /\ table' = [table EXCEPT ![cur[w].id] = cur[w].conf]
    \/ pc[w] = "remove" /\ table' = [table EXCEPT ![cur[w].id] = None]

Effect(w) ==
    \/ UNCHANGED outside
    \/ PanelEffect(w) /\ UNCHANGED <<guest, caddy, table>>
    \/ CaddyEffect(w) /\ UNCHANGED <<guest, panel, table>>
    \/ TableEffect(w) /\ UNCHANGED <<guest, panel, caddy>>

(* A dial that hangs, and one that breaks in the end, change nothing but   *)
(* where the request is (caddy.go:550).                                    *)
LEMMA DialSteps ==
    ASSUME Typed, NEW w \in Workers, DialHangs(w) \/ DialBreaks(w)
    PROVE  /\ UNCHANGED <<outside, ask, cur, todo, touched, errs, result, trouble>>
           /\ \/ /\ ask[w].op = "provision"
                 /\ <<pc[w], pc'[w]>> \in {<<"restart", "hung">>, <<"hung", "restart">>}
              \/ /\ ask[w].op = "replay"
                 /\ <<pc[w], pc'[w]>> \in {<<"next", "hung">>, <<"hung", "next">>}
           /\ pc' = [pc EXCEPT ![w] = pc'[w]]
<1>1. pc \in [Workers -> Labels] /\ (pc[w] # "idle" => Serves(pc[w], ask[w].op))
    BY DEF Typed, TypeOK, Stages
<1>2. /\ UNCHANGED <<outside, ask, cur, todo, touched, errs, result, trouble>>
      /\ \E label \in {"hung", "next", "restart"} : Goto(w, label)
    BY DEF DialHangs, DialBreaks, Proceed, work
<1>3. CASE DialHangs(w)
    BY <1>1, <1>2, <1>3 DEF DialHangs, Awaits, Proceed, Goto, Serves
<1>4. CASE DialBreaks(w)
    BY <1>1, <1>2, <1>4 DEF DialBreaks, Proceed, Goto, Serves
<1> QED
    BY <1>2, <1>3, <1>4

(* What a step of a request does outside is one of those effects, at the   *)
(* step it belongs to.                                                     *)
LEMMA StepEffect ==
    ASSUME Typed, NEW w \in Workers, Moves(w)
    PROVE  Effect(w)
<1> USE DEF Effect
<1>1. CASE Accept(w)
    BY <1>1 DEF Accept
<1>2. CASE FindFails(w) \/ FindToProvision(w) \/ FindToDeprovision(w) \/ FindFile(w)
    BY <1>2 DEF FindFails, FindToProvision, FindToDeprovision, FindFile
<1>3. CASE AddHost(w)
    BY <1>3 DEF AddHost, Try, PanelEffect, outside, panel
<1>4. CASE DeleteHost(w)
    BY <1>4 DEF DeleteHost, Try, PanelEffect, outside, panel
<1>5. CASE Reload(w)
    BY <1>5 DEF Reload, Try, PanelEffect, outside, panel
<1>6. CASE Flag(w)
    BY <1>6 DEF Flag, TryCaddy, Try, CaddyEffect, outside
<1>7. CASE Policy(w)
    BY <1>7 DEF Policy, TryCaddy, Try, CaddyEffect, outside
<1>8. CASE Automate(w)
    BY <1>8 DEF Automate, TryCaddy, Try, outside
<1>9. CASE RouteAdded(w) \/ RouteReplayed(w)
    BY <1>9 DEF RouteAdded, RouteReplayed, TryCaddy, Try, CaddyEffect, outside
<1>10. ASSUME NEW n \in Nodes, pc[w] \in {"restart", "next"},
              up' = [up EXCEPT ![n] = FALSE] \/ UNCHANGED up,
              UNCHANGED <<guest, panel, policy, route, localCerts, table>>
       PROVE  Effect(w)
    BY <1>10 DEF CaddyEffect, outside, caddy
<1>11. CASE RestartAdded(w)
  <2>1. Node(w) \in Nodes /\ pc[w] = "restart"
      BY <1>11 DEF RestartAdded, Node, Typed, TypeOK, Ids
  <2> QED
      BY <1>10, <1>11, <2>1 DEF RestartAdded, TryRestart
<1>12. CASE RestartReplayed(w)
  <2>1. PICK n \in touched[w] :
            /\ up' = [up EXCEPT ![n] = FALSE] \/ UNCHANGED up
            /\ UNCHANGED <<guest, panel, policy, route, localCerts, table>>
      BY <1>12 DEF RestartReplayed, TryRestart
  <2>2. n \in Nodes /\ pc[w] = "next"
      BY <1>12 DEF RestartReplayed, Typed, TypeOK
  <2> QED
      BY <1>10, <2>1, <2>2
<1>13. CASE DeleteRoute(w)
    BY <1>13 DEF DeleteRoute, TryCaddy, Try, CaddyEffect, outside
<1>14. CASE DeletePolicy(w)
    BY <1>14 DEF DeletePolicy, TryCaddy, Try, CaddyEffect, outside
<1>15. CASE Upsert(w)
    BY <1>15 DEF Upsert, Try, TableEffect, outside
<1>16. CASE Remove(w)
    BY <1>16 DEF Remove, Try, TableEffect, outside
<1>17. CASE Load(w) \/ NextRecord(w) \/ ReplayEnds(w) \/ Respond(w)
    BY <1>17 DEF Load, NextRecord, ReplayEnds, Respond
<1>18. CASE DialHangs(w) \/ DialBreaks(w)
    BY <1>18 DEF DialHangs, DialBreaks
<1> QED
    BY <1>1, <1>2, <1>3, <1>4, <1>5, <1>6, <1>7, <1>8, <1>9, <1>11, <1>12, <1>13, <1>14,
       <1>15, <1>16, <1>17, <1>18 DEF Moves, Step

(* Each effect keeps the types of what is outside, and every host entry in *)
(* a file of its MAC (engine.go:135-150).                                  *)
LEMMA OutsideTypesKept ==
    ASSUME Typed, NEW w \in Workers, Effect(w)
    PROVE  OutsideTypes' /\ Sources'
<1>1. /\ OutsideTypes
      /\ Busy(w) => cur[w].id \in Ids /\ cur[w].conf \in Confs \cup {None}
      /\ pc[w] \in {"addHost", "deleteHost"} =>
            ask[w].mac \in Macs /\ cur[w].file \in FilesOf(ask[w].mac)
    BY RequestTypes
    DEF Typed, TypeOK, OutsideTypes, Jobs, Busy, Stages, Serves, HasJob
<1>2. CASE UNCHANGED outside
    BY <1>1, <1>2 DEF OutsideTypes, outside, panel, caddy, Typed, Sources
<1>3. CASE PanelEffect(w) /\ UNCHANGED <<guest, caddy, table>>
  <2>1. pc[w] = "addHost" => Host(ask[w].mac, cur[w]) \in [mac : Macs, file : Files, id : Ids]
      BY <1>1, FilesAreFiles DEF Host, Busy
  <2>2. OutsideTypes'
      BY <1>1, <1>3, <2>1 DEF OutsideTypes, PanelEffect, WithHost, caddy
  <2>3. Sources'
      BY <1>1, <1>3 DEF Typed, Sources, PanelEffect, WithHost, Host
  <2> QED
      BY <2>2, <2>3
<1>4. CASE CaddyEffect(w) /\ UNCHANGED <<guest, panel, table>>
  <2>1. Busy(w) => Node(w) \in Nodes
      BY <1>1 DEF Node, Ids
  <2>2. OutsideTypes'
      BY <1>1, <1>4, <2>1 DEF OutsideTypes, CaddyEffect, InstallRoute, Busy, panel
  <2>3. Sources'
      BY <1>4 DEF Typed, Sources, panel
  <2> QED
      BY <2>2, <2>3
<1>5. CASE TableEffect(w) /\ UNCHANGED <<guest, panel, caddy>>
    BY <1>1, <1>5 DEF Typed, OutsideTypes, TableEffect, Sources, Busy, panel, caddy
<1> QED
    BY <1>2, <1>3, <1>4, <1>5 DEF Effect

(* The history of a request grows by one remark at most.                   *)
Noted(w) ==
    UNCHANGED trouble \/ \E what \in {"fault", "lookup"} : Note(w, what)

(* A step within the request, in which the worker goes to a step that fits *)
(* the request.                                                            *)
LEMMA ProceedFits ==
    ASSUME Typed, NEW w \in Workers, NEW label \in Labels \ {"idle", "done"},
           pc[w] # "idle", Serves(label, ask[w].op),
           Busy(w) \/ label \in {"find", "load", "next"},
           Goto(w, label), UNCHANGED <<ask, cur, result>>, Noted(w),
           todo' \in [Workers -> SUBSET Jobs], \A x \in Workers : todo'[x] \subseteq todo[x],
           touched' \in [Workers -> SUBSET Nodes], errs' \in [Workers -> SUBSET Errors]
    PROVE  ControlTypes' /\ Stages'
<1>1. trouble' \in [Workers -> SUBSET Remarks]
    BY DEF Noted, Note, Typed, TypeOK, Remarks
<1>2. pc' = [pc EXCEPT ![w] = label] /\ pc'[w] = label
    BY DEF Goto, Typed, TypeOK
<1>3. ControlTypes'
    BY <1>1, <1>2 DEF ControlTypes, Typed, TypeOK, Stages, HasJob, Busy
<1>4. \A x \in Workers : HasJob(x)' => HasJob(x)
    BY <1>2 DEF HasJob, Busy, Ok, Typed, TypeOK
<1>5. Stages'
    BY <1>2, <1>4 DEF Typed, TypeOK, Stages
<1> QED
    BY <1>3, <1>5

(* The answer to the client.                                               *)
LEMMA FinishFits ==
    ASSUME Typed, NEW w \in Workers, pc[w] # "idle", NEW r \in Results, Finish(w, r),
           r = "ok" => Busy(w) \/ ask[w].op = "replay", Noted(w)
    PROVE  ControlTypes' /\ Stages'
<1>1. trouble' \in [Workers -> SUBSET Remarks]
    BY DEF Noted, Note, Typed, TypeOK, Remarks
<1>2. /\ pc' = [pc EXCEPT ![w] = "done"] /\ pc'[w] = "done"
      /\ result' = [result EXCEPT ![w] = r] /\ UNCHANGED <<ask, cur, todo, touched, errs>>
    BY DEF Finish, Goto, work, Typed, TypeOK
<1>3. ControlTypes'
    BY <1>1, <1>2 DEF ControlTypes, Typed, TypeOK, Labels
<1>4. ASSUME NEW x \in Workers, HasJob(x)'
      PROVE  HasJob(x) \/ (x = w /\ ask[w].op = "replay" /\ ~ Busy(w)')
    BY <1>2, <1>4 DEF HasJob, Busy, Ok, Typed, TypeOK
<1>5. Stages'
    BY <1>2, <1>4 DEF Typed, TypeOK, Stages, Serves, HasJob, Busy, Ok
<1> QED
    BY <1>3, <1>5

(* Every step of a request fits the request.                               *)
LEMMA ControlKept ==
    ASSUME Typed, NEW w \in Workers, Moves(w)
    PROVE  ControlTypes' /\ Stages'
<1> DEFINE kept == ControlTypes' /\ Stages'
<1> USE DEF Noted
<1>1. /\ pc[w] \in Labels /\ todo \in [Workers -> SUBSET Jobs]
      /\ touched \in [Workers -> SUBSET Nodes] /\ errs \in [Workers -> SUBSET Errors]
      /\ pc[w] # "idle" => /\ ask[w] \in Asks[w] /\ Serves(pc[w], ask[w].op)
                           /\ ask[w].op \in {"provision", "deprovision", "replay"}
                           /\ ask[w].op # "replay" => ask[w].mac \in Macs
    BY RequestTypes DEF Typed, TypeOK, Stages
<1>2. ASSUME NEW label \in Labels \ {"idle", "done"}, Busy(w), Serves(label, ask[w].op),
             Proceed(w, label) \/ Collect(w, label), Noted(w)
      PROVE  kept
  <2>1. UNCHANGED <<ask, cur, todo, touched, result>> /\ Goto(w, label)
      BY <1>2 DEF Proceed, Collect, work
  <2>2. errs' \in [Workers -> SUBSET Errors]
    <3>1. cur[w].id \in Errors
        BY <1>2 DEF Typed, Stages, HasJob, Errors
    <3> QED
        BY <1>1, <1>2, <3>1 DEF Proceed, Collect, List, work
  <2> QED
      BY <1>1, <1>2, <2>1, <2>2, ProceedFits DEF Busy
<1>3. ASSUME Busy(w), RouteFails(w), pc[w] \in {"flag", "policy", "automate", "route", "restart"},
             Noted(w)
      PROVE  kept
  <2>1. CASE ask[w].op = "replay" /\ Collect(w, "next")
      BY <1>2, <1>3, <2>1 DEF Serves, Labels
  <2>2. CASE Finish(w, "failed")
      BY <1>1, <1>3, <2>2, FinishFits DEF Results, Busy
  <2> QED
      BY <1>3, <2>1, <2>2 DEF RouteFails
<1>4. CASE Accept(w)
  <2>1. PICK r \in Asks[w] :
            /\ ask' = [ask EXCEPT ![w] = r]
            /\ Goto(w, IF r.op = "replay" THEN "load" ELSE "find")
            /\ trouble' = [x \in Workers |->
                  IF x \in Rivals(w, r) \/ (x = w /\ Rivals(w, r) # {})
                  THEN trouble[x] \cup {"other"} ELSE trouble[x]]
      BY <1>4 DEF Accept
  <2>2. r \in Requests /\ r.op \in {"provision", "deprovision", "replay"}
      BY RequestTypes
  <2>3. /\ pc[w] = "idle" /\ UNCHANGED <<cur, todo, touched, errs, result>>
        /\ trouble' \in [Workers -> SUBSET Remarks]
      BY <1>4, <2>1 DEF Accept, Typed, TypeOK, Remarks
  <2>4. /\ pc' = [pc EXCEPT ![w] = IF r.op = "replay" THEN "load" ELSE "find"]
        /\ pc'[w] \in {"load", "find"}
      BY <1>1, <2>1 DEF Goto, Typed, TypeOK
  <2>5. ControlTypes'
      BY <2>1, <2>2, <2>3, <2>4 DEF ControlTypes, Typed, TypeOK, Labels
  <2>6. ASSUME NEW x \in Workers, HasJob(x)'
        PROVE  x # w /\ HasJob(x)
      BY <2>1, <2>3, <2>4, <2>6 DEF HasJob, Busy, Ok, Typed, TypeOK
  <2>7. Stages'
      BY <2>1, <2>2, <2>3, <2>4, <2>6 DEF Typed, TypeOK, Stages, Serves
  <2> QED
      BY <2>5, <2>7
<1>5. CASE FindFails(w)
  <2>1. pc[w] = "find" /\ Finish(w, "notFound") /\ Noted(w)
      BY <1>5 DEF FindFails
  <2> QED
      BY <2>1, FinishFits DEF Results
<1>6. ASSUME NEW id \in Matches(ask[w].mac), pc[w] = "find", UNCHANGED trouble,
             NEW label \in {"addHost", "deleteRoute"}, Serves(label, ask[w].op),
             SetJob(w, Job(id)), Goto(w, label)
      PROVE  kept
  <2>1. ask[w].op # "replay" /\ ask[w].mac \in Macs
      BY <1>1, <1>6 DEF Serves
  <2>2. /\ id \in Ids /\ Job(id) \in Jobs /\ Job(id).id = id /\ Job(id).conf \in Confs
        /\ Job(id).file \in FilesOf(ask[w].mac)
        /\ id \in Concerns(ask[w])
    <3>1. /\ id \in Ids /\ Job(id) \in Jobs /\ guest[id[1]].conf \in Confs
          /\ Job(id) = [id |-> id, conf |-> guest[id[1]].conf,
                        file |-> HostFile(id, guest[id[1]].conf)]
          /\ HostFile(id, guest[id[1]].conf) \in FilesOf(ask[w].mac)
          /\ id \in {s[1] : s \in Sightings(ask[w].mac)}
        BY <1>6, <2>1, MatchesSighted
    <3>2. id \in Concerns(ask[w])
        BY <2>1, <3>1 DEF Concerns
    <3> QED
        BY <3>1, <3>2
  <2>3. /\ cur' = [cur EXCEPT ![w] = Job(id)]
        /\ pc' = [pc EXCEPT ![w] = label] /\ pc'[w] = label
        /\ UNCHANGED <<ask, todo, touched, errs, result, trouble>>
      BY <1>6 DEF SetJob, Goto, Typed, TypeOK
  <2>4. ControlTypes'
      BY <1>1, <1>6, <2>2, <2>3 DEF ControlTypes, Typed, TypeOK, Labels
  <2>5. ASSUME NEW x \in Workers, HasJob(x)', x # w
        PROVE  HasJob(x)
      BY <2>3, <2>5 DEF HasJob, Busy, Ok, Typed, TypeOK
  <2>6. Stages'
      BY <1>1, <1>6, <2>2, <2>3, <2>5 DEF Typed, TypeOK, Stages
  <2> QED
      BY <2>4, <2>6
<1>7. CASE FindToProvision(w)
  <2>1. PICK id \in Matches(ask[w].mac) :
            \/ Finish(w, "badRequest")
            \/ SetJob(w, Job(id)) /\ Goto(w, "addHost")
      BY <1>7 DEF FindToProvision
  <2>2. pc[w] = "find" /\ ask[w].op = "provision" /\ UNCHANGED trouble
      BY <1>7 DEF FindToProvision
  <2>3. CASE Finish(w, "badRequest")
      BY <2>2, <2>3, FinishFits DEF Results
  <2>4. CASE SetJob(w, Job(id)) /\ Goto(w, "addHost")
      BY <1>6, <2>2, <2>4 DEF Serves
  <2> QED
      BY <2>1, <2>3, <2>4
<1>8. CASE FindToDeprovision(w)
  <2>1. PICK id \in Matches(ask[w].mac) :
            \/ Finish(w, "conflict")
            \/ SetJob(w, Job(id)) /\ Goto(w, "deleteRoute")
      BY <1>8 DEF FindToDeprovision
  <2>2. pc[w] = "find" /\ ask[w].op = "deprovision" /\ UNCHANGED trouble
      BY <1>8 DEF FindToDeprovision
  <2>3. CASE Finish(w, "conflict")
      BY <2>2, <2>3, FinishFits DEF Results
  <2>4. CASE SetJob(w, Job(id)) /\ Goto(w, "deleteRoute")
      BY <1>6, <2>2, <2>4 DEF Serves
  <2> QED
      BY <2>1, <2>3, <2>4
<1>9. CASE AddHost(w)
  <2>1. /\ pc[w] = "addHost" /\ Noted(w) /\ Busy(w)
        /\ \/ Finish(w, "failed")
           \/ \E label \in {"reload", "flag"} : Proceed(w, label)
      BY <1>9 DEF AddHost, Try, Busy
  <2>2. CASE Finish(w, "failed")
      BY <2>1, <2>2, FinishFits DEF Results
  <2> QED
      BY <1>1, <1>2, <2>1, <2>2 DEF Serves, Labels
<1>10. CASE FindFile(w)
  <2>1. pc[w] = "findFile" /\ Busy(w) /\ ask[w].op = "deprovision"
      BY <1>1, <1>10 DEF FindFile, Busy, Serves
  <2>2. ASSUME NEW h \in hosts, h.mac = ask[w].mac, UNCHANGED trouble,
               SetJob(w, [cur[w] EXCEPT !.file = h.file]), Goto(w, "deleteHost")
        PROVE  kept
    <3>1. /\ h.file \in FilesOf(ask[w].mac) /\ h.file \in Files
        BY <2>2 DEF Typed, TypeOK, Sources
    <3>2. /\ cur' = [cur EXCEPT ![w] = [cur[w] EXCEPT !.file = h.file]]
          /\ pc' = [pc EXCEPT ![w] = "deleteHost"] /\ pc'[w] = "deleteHost"
          /\ UNCHANGED <<ask, todo, touched, errs, result, trouble>>
        BY <2>2 DEF SetJob, Goto, Typed, TypeOK
    <3>3. HasJob(w) /\ cur[w] \in Jobs
        BY <2>1 DEF HasJob, Typed, TypeOK
    <3>4. /\ cur'[w] \in Jobs /\ cur'[w].id = cur[w].id
          /\ cur'[w].conf = cur[w].conf /\ cur'[w].file = h.file
        BY <3>1, <3>2, <3>3 DEF Jobs, Typed, TypeOK
    <3>5. ControlTypes'
        BY <2>1, <3>2, <3>3, <3>4 DEF ControlTypes, Typed, TypeOK, Labels
    <3>6. ASSUME NEW x \in Workers, HasJob(x)'
          PROVE  HasJob(x)
        BY <3>2, <3>3, <3>6 DEF HasJob, Busy, Ok, Typed, TypeOK
    <3>7. Stages'
        BY <1>1, <2>1, <3>1, <3>2, <3>3, <3>4, <3>6 DEF Typed, TypeOK, Stages, Serves
    <3> QED
        BY <3>5, <3>7
  <2>3. CASE Proceed(w, "reload") /\ Noted(w)
      BY <1>2, <2>1, <2>3 DEF Serves, Labels
  <2> QED
      BY <1>10, <2>2, <2>3 DEF FindFile
<1>11. CASE DeleteHost(w)
  <2>1. /\ pc[w] = "deleteHost" /\ Noted(w) /\ Busy(w)
        /\ Proceed(w, "reload") \/ Collect(w, "reload")
      BY <1>11 DEF DeleteHost, Try, Busy
  <2> QED
      BY <1>1, <1>2, <2>1 DEF Serves, Labels
<1>12. CASE Reload(w)
  <2>1. /\ pc[w] = "reload" /\ Noted(w) /\ Busy(w)
        /\ Finish(w, IF errs[w] = {} THEN "ok" ELSE "failed")
      BY <1>12 DEF Reload, Try, Busy
  <2> QED
      BY <2>1, FinishFits DEF Results
<1>13. CASE Flag(w) \/ Policy(w) \/ Automate(w) \/ RouteAdded(w) \/ RestartAdded(w)
  <2>1. /\ pc[w] \in {"flag", "policy", "automate", "route", "restart"} /\ Noted(w) /\ Busy(w)
        /\ \/ RouteFails(w)
           \/ pc[w] = "flag" /\ Proceed(w, "policy")
           \/ pc[w] = "policy" /\ Proceed(w, "automate")
           \/ pc[w] = "automate" /\ Proceed(w, "route")
           \/ pc[w] = "route" /\ ask[w].op = "provision" /\ Proceed(w, "restart")
           \/ pc[w] = "restart" /\ Proceed(w, "upsert")
      BY <1>13
      DEF Flag, Policy, Automate, RouteAdded, RestartAdded, TryCaddy, TryRestart, Try, Busy
  <2> QED
      BY <1>1, <1>2, <1>3, <2>1 DEF Serves, Labels
<1>14. CASE RouteReplayed(w)
  <2>1. pc[w] = "route" /\ ask[w].op = "replay" /\ Noted(w) /\ Busy(w)
      BY <1>14 DEF RouteReplayed, TryCaddy, Try, Busy
  <2>2. CASE /\ touched' = [touched EXCEPT ![w] = @ \cup {Node(w)}]
             /\ Goto(w, "next")
             /\ UNCHANGED <<ask, cur, todo, errs, result>>
    <3>1. Node(w) \in Nodes
        BY <2>1 DEF Typed, TypeOK, Node, Ids
    <3>2. touched' \in [Workers -> SUBSET Nodes]
        BY <1>1, <2>2, <3>1
    <3> QED
        BY <1>1, <2>1, <2>2, <3>2, ProceedFits DEF Serves, Labels
  <2> QED
      BY <1>3, <1>14, <2>1, <2>2 DEF RouteReplayed, TryCaddy, Try
<1>15. CASE DeleteRoute(w) \/ DeletePolicy(w) \/ Remove(w) \/ Upsert(w)
  <2>1. /\ Noted(w) /\ Busy(w)
        /\ \/ pc[w] = "deleteRoute" /\ (Proceed(w, "deletePolicy") \/ Collect(w, "deletePolicy"))
           \/ pc[w] = "deletePolicy" /\ (Proceed(w, "remove") \/ Collect(w, "remove"))
           \/ pc[w] = "remove" /\ (Proceed(w, "findFile") \/ Collect(w, "findFile"))
           \/ pc[w] = "upsert" /\ Proceed(w, "reload")
      BY <1>15 DEF DeleteRoute, DeletePolicy, Remove, Upsert, TryCaddy, Try, Busy
  <2> QED
      BY <1>1, <1>2, <2>1 DEF Serves, Labels
<1>16. CASE Load(w)
  <2>1. pc[w] = "load" /\ Serves("next", ask[w].op)
      BY <1>1, <1>16 DEF Load, Serves
  <2>2. CASE Finish(w, "failed") /\ Noted(w)
      BY <2>1, <2>2, FinishFits DEF Results
  <2>3. CASE /\ todo' = [todo EXCEPT ![w] =
                          {[id |-> id, conf |-> table[id], file |-> None] : id \in Recorded}]
             /\ Goto(w, "next")
             /\ UNCHANGED <<ask, cur, touched, errs, result, trouble>>
    <3>1. \A id \in Recorded : [id |-> id, conf |-> table[id], file |-> None] \in Jobs
        BY DEF Recorded, Jobs, Typed, TypeOK
    <3>2. /\ todo' \in [Workers -> SUBSET Jobs]
          /\ \A r \in todo'[w] : r.id \in Ids
        BY <1>1, <2>3, <3>1 DEF Recorded
    <3>3. pc' = [pc EXCEPT ![w] = "next"] /\ pc'[w] = "next"
        BY <2>3 DEF Goto, Typed, TypeOK
    <3>4. ControlTypes'
        BY <2>1, <2>3, <3>2, <3>3 DEF ControlTypes, Typed, TypeOK, Labels
    <3>5. ASSUME NEW x \in Workers, HasJob(x)'
          PROVE  HasJob(x)
        BY <2>3, <3>3, <3>5 DEF HasJob, Busy, Ok, Typed, TypeOK
    <3>6. Stages'
        BY <1>1, <2>1, <2>3, <3>2, <3>3, <3>5 DEF Typed, TypeOK, Stages
    <3> QED
        BY <3>4, <3>6
  <2> QED
      BY <1>16, <2>2, <2>3 DEF Load
<1>17. CASE NextRecord(w)
  <2>1. PICK r \in todo[w] : /\ cur' = [cur EXCEPT ![w] = r]
                             /\ todo' = [todo EXCEPT ![w] = @ \ {r}]
      BY <1>17 DEF NextRecord
  <2>2. /\ pc[w] = "next" /\ ask[w].op = "replay" /\ r \in Jobs /\ r.id \in Ids
        /\ UNCHANGED <<ask, touched, errs, result, trouble>>
      BY <1>1, <1>17 DEF NextRecord, Serves, Typed, Stages
  <2>3. pc' = [pc EXCEPT ![w] = "policy"] /\ pc'[w] = "policy"
      BY <1>17 DEF NextRecord, Goto, Typed, TypeOK
  <2>4. todo' \in [Workers -> SUBSET Jobs] /\ \A x \in Workers : todo'[x] \subseteq todo[x]
      BY <1>1, <2>1
  <2>5. ControlTypes'
      BY <2>1, <2>2, <2>3, <2>4 DEF ControlTypes, Typed, TypeOK, Labels
  <2>6. ASSUME NEW x \in Workers, HasJob(x)', x # w
        PROVE  HasJob(x)
      BY <2>2, <2>3, <2>6 DEF HasJob, Busy, Ok, Typed, TypeOK
  <2>7. Stages'
      BY <1>1, <2>1, <2>2, <2>3, <2>4, <2>6 DEF Typed, TypeOK, Stages, Serves
  <2> QED
      BY <2>5, <2>7
<1>18. CASE RestartReplayed(w)
  <2>1. /\ pc[w] = "next" /\ UNCHANGED <<pc, ask, cur, todo, result>> /\ Noted(w)
        /\ \E n \in Nodes : touched' = [touched EXCEPT ![w] = @ \ {n}]
        /\ errs' = errs \/ \E n \in Nodes : errs' = [errs EXCEPT ![w] = @ \cup {n}]
      BY <1>1, <1>18 DEF RestartReplayed, TryRestart, List
  <2>2. touched' \in [Workers -> SUBSET Nodes]
      BY <1>1, <2>1
  <2>3. errs' \in [Workers -> SUBSET Errors]
      BY <1>1, <2>1 DEF Errors
  <2>4. Goto(w, "next")
      BY <2>1 DEF Goto, Typed, TypeOK
  <2>5. /\ Serves("next", ask[w].op) /\ "next" \in Labels \ {"idle", "done"}
        /\ todo' \in [Workers -> SUBSET Jobs] /\ \A x \in Workers : todo'[x] \subseteq todo[x]
      BY <1>1, <2>1 DEF Labels
  <2> QED
      BY <2>1, <2>2, <2>3, <2>4, <2>5, ProceedFits
<1>19. CASE ReplayEnds(w)
  <2>1. /\ pc[w] = "next" /\ ask[w].op = "replay" /\ UNCHANGED trouble
        /\ Finish(w, IF errs[w] = {} THEN "ok" ELSE "partial")
      BY <1>1, <1>19 DEF ReplayEnds, Serves
  <2> QED
      BY <2>1, FinishFits DEF Results
<1>20. CASE Respond(w)
  <2>1. NoJob \in Jobs
      BY DEF NoJob, Jobs
  <2>2. ControlTypes'
      BY <1>20, <2>1
      DEF Respond, Reset1, Goto, ControlTypes, Typed, TypeOK, Labels, Results
  <2>3. /\ pc' = [pc EXCEPT ![w] = "idle"] /\ pc'[w] = "idle" /\ todo'[w] = {}
        /\ \A x \in Workers \ {w} : /\ cur'[x] = cur[x] /\ todo'[x] = todo[x]
                                    /\ ask'[x] = ask[x] /\ result'[x] = result[x]
      BY <1>20 DEF Respond, Reset1, Goto, Typed, TypeOK
  <2>4. ASSUME NEW x \in Workers, HasJob(x)'
        PROVE  x # w /\ HasJob(x)
      BY <2>3, <2>4 DEF HasJob, Busy, Ok, Typed, TypeOK
  <2>5. Stages'
      BY <2>3, <2>4 DEF Typed, TypeOK, Stages
  <2> QED
      BY <2>2, <2>5
<1>21. CASE DialHangs(w) \/ DialBreaks(w)
  <2>1. /\ UNCHANGED <<ask, cur, todo, touched, errs, result, trouble>>
        /\ \/ /\ ask[w].op = "provision"
              /\ <<pc[w], pc'[w]>> \in {<<"restart", "hung">>, <<"hung", "restart">>}
           \/ /\ ask[w].op = "replay"
              /\ <<pc[w], pc'[w]>> \in {<<"next", "hung">>, <<"hung", "next">>}
        /\ pc' = [pc EXCEPT ![w] = pc'[w]]
      BY <1>21, DialSteps
  <2>2. Busy(w)' <=> Busy(w)
      BY <2>1 DEF Busy
  <2>3. ControlTypes'
      BY <1>1, <2>1, <2>2 DEF ControlTypes, Typed, TypeOK, Stages, HasJob, Busy, Labels
  <2>4. \A x \in Workers : HasJob(x)' <=> HasJob(x)
      BY <2>1, <2>2 DEF HasJob, Busy, Ok, Typed, TypeOK
  <2>5. Stages'
      BY <1>1, <2>1, <2>4 DEF Typed, TypeOK, Stages, Serves
  <2> QED
      BY <2>3, <2>5
<1> QED
    BY <1>4, <1>5, <1>7, <1>8, <1>9, <1>10, <1>11, <1>12, <1>13, <1>14, <1>15, <1>16, <1>17,
       <1>18, <1>19, <1>20, <1>21 DEF Moves, Step

(***************************************************************************)
(* The type invariant                                                      *)
(***************************************************************************)

(* Nothing is recorded, installed or asked for at the start.               *)
LEMMA InitTyped == Init => Typed
<1> SUFFICES ASSUME Init PROVE Typed
    OBVIOUS
<1>1. NoJob \in Jobs
    BY DEF NoJob, Jobs
<1>2. guest \in [VMIDs -> Guests] /\ \A v \in VMIDs : guest[v] \in Shapes[v]
    BY DEF Init
<1>3. TypeOK
    BY <1>1, <1>2 DEF Init, TypeOK, Labels, Results
<1>4. Stages
    BY DEF Init, Stages, HasJob, Busy, Ok
<1>5. Sources
    BY <1>2 DEF Init, Sources
<1> QED
    BY <1>3, <1>4, <1>5 DEF Typed

(* The types, divided by what changes them.                                *)
LEMMA TypedParts == Typed <=> OutsideTypes /\ ControlTypes /\ Stages /\ Sources
BY DEF Typed, TypeOK, OutsideTypes, ControlTypes

(* No action of the model, the crash and the owner's among them, leaves    *)
(* the types.                                                              *)
LEMMA TypedKept == Typed /\ [Next]_vars => Typed'
<1> SUFFICES ASSUME Typed, [Next]_vars PROVE Typed'
    OBVIOUS
<1>1. OutsideTypes /\ ControlTypes /\ Stages /\ Sources
    BY TypedParts
<1>2. SUFFICES OutsideTypes' /\ ControlTypes' /\ Stages' /\ Sources'
    BY DEF Typed, TypeOK, OutsideTypes, ControlTypes
<1>3. ASSUME UNCHANGED <<pc, work, result>>,
             trouble' \in [Workers -> SUBSET Remarks]
      PROVE  ControlTypes' /\ Stages'
  <2>1. UNCHANGED <<pc, ask, cur, todo, touched, errs, result>>
      BY <1>3 DEF work
  <2>2. ControlTypes'
      BY <1>1, <1>3, <2>1 DEF ControlTypes
  <2>3. Stages'
      BY <1>1, <2>1 DEF Stages, HasJob, Busy, Ok
  <2> QED
      BY <2>2, <2>3
<1>4. trouble \in [Workers -> SUBSET Remarks]
    BY <1>1 DEF ControlTypes
<1>5. ASSUME NEW w \in Workers, Moves(w)
      PROVE  OutsideTypes' /\ ControlTypes' /\ Stages' /\ Sources'
    BY <1>5, StepEffect, OutsideTypesKept, ControlKept
<1>6. ASSUME NEW v \in VMIDs, Churn(v)
      PROVE  OutsideTypes' /\ ControlTypes' /\ Stages' /\ Sources'
  <2>1. PICK g \in Shapes[v] : guest' = [guest EXCEPT ![v] = g]
      BY <1>6 DEF Churn
  <2>2. g \in Guests
      BY <2>1, EnvAssumption
  <2>3. UNCHANGED <<hosts, loaded, policy, route, localCerts, up, table, trouble>>
      BY <1>6 DEF Churn, panel, caddy
  <2>4. OutsideTypes'
      BY <1>1, <2>1, <2>2, <2>3 DEF OutsideTypes
  <2>5. Sources'
      BY <1>1, <2>1, <2>3 DEF Sources, OutsideTypes
  <2> QED
      BY <1>3, <1>4, <1>6, <2>3, <2>4, <2>5 DEF Churn
<1>7. ASSUME NEW n \in Nodes, NodeUp(n)
      PROVE  OutsideTypes' /\ ControlTypes' /\ Stages' /\ Sources'
  <2>1. OutsideTypes'
      BY <1>1, <1>7 DEF NodeUp, OutsideTypes, panel
  <2>2. Sources'
      BY <1>1, <1>7 DEF NodeUp, Sources, panel
  <2> QED
      BY <1>3, <1>4, <1>7, <2>1, <2>2 DEF NodeUp
<1>8. ASSUME NEW n \in Nodes, NodeReset(n)
      PROVE  OutsideTypes' /\ ControlTypes' /\ Stages' /\ Sources'
  <2>1. OutsideTypes'
      BY <1>1, <1>8 DEF NodeReset, OutsideTypes, panel
  <2>2. Sources'
      BY <1>1, <1>8 DEF NodeReset, Sources, panel
  <2>3. trouble' \in [Workers -> SUBSET Remarks]
      BY <1>4, <1>8 DEF NodeReset, Remarks
  <2> QED
      BY <1>3, <1>8, <2>1, <2>2, <2>3 DEF NodeReset
<1>9. CASE Crash
  <2>1. NoJob \in Jobs
      BY DEF NoJob, Jobs
  <2>2. ControlTypes'
      BY <1>9, <2>1 DEF Crash, ControlTypes, Labels, Results
  <2>3. Stages'
      BY <1>9 DEF Crash, Stages, HasJob, Busy, Ok
  <2>4. OutsideTypes' /\ Sources'
      BY <1>1, <1>9 DEF Crash, outside, panel, caddy, OutsideTypes, Sources
  <2> QED
      BY <2>2, <2>3, <2>4
<1>10. CASE UNCHANGED vars
  <2>1. OutsideTypes' /\ Sources'
      BY <1>1, <1>10 DEF vars, outside, panel, caddy, OutsideTypes, Sources
  <2> QED
      BY <1>3, <1>4, <1>10, <2>1 DEF vars
<1> QED
    BY <1>5, <1>6, <1>7, <1>8, <1>9, <1>10 DEF Next, Moves

(* Whatever fails, crashes or is retagged in between, every variable has   *)
(* its type, and a request beyond its search has something to work on      *)
(* (engine.go:111-258).                                                    *)
THEOREM TypeCorrect == Spec => []TypeOK
<1>1. Typed => TypeOK
    BY DEF Typed
<1> QED
    BY <1>1, InitTyped, TypedKept, PTL DEF Spec

(***************************************************************************)
(* Requests kept apart                                                     *)
(***************************************************************************)

(* A worker at work shares neither a container nor a MAC with a request    *)
(* that has noticed no other, and that request is no replay.               *)
LEMMA Separate ==
    ASSUME Noticed, Typed, NEW w \in Workers, NEW x \in Workers, w # x,
           HasJob(w), pc[x] # "idle", Unrivalled(x)
    PROVE  /\ ask[x].op # "replay"
           /\ ask[w].op # "replay" => ask[x].mac # ask[w].mac
           /\ HasJob(x) => cur[x].id # cur[w].id
<1>1. /\ ask[w] \in Asks[w] /\ ask[x] \in Asks[x]
      /\ cur[w].id \in Ids
      /\ ask[w].op # "replay" => cur[w].id \in Concerns(ask[w])
      /\ HasJob(x) => cur[x].id \in Ids
      /\ HasJob(x) /\ ask[x].op # "replay" => cur[x].id \in Concerns(ask[x])
    BY DEF Typed, Stages, HasJob, Busy, Ok
<1>2. \A r : r.op = "replay" => Concerns(r) = Ids
    BY DEF Concerns
<1>3. cur[w].id \in Concerns(ask[w])
    BY <1>1, <1>2
<1>4. pc[w] # "idle"
    BY DEF HasJob, Busy, Ok
<1>5. Concerns(ask[w]) \cap Concerns(ask[x]) = {}
    BY <1>4 DEF Noticed
<1>6. ask[x].op # "replay"
    BY <1>1, <1>2, <1>3, <1>5
<1>7. ask[w].op # "replay" => ask[x].mac # ask[w].mac
  <2>1. ask[w].op # "replay" => Concerns(ask[w]) = {s[1] : s \in Sightings(ask[w].mac)}
      BY DEF Concerns
  <2>2. Concerns(ask[x]) = {s[1] : s \in Sightings(ask[x].mac)}
      BY <1>6 DEF Concerns
  <2> QED
      BY <1>3, <1>5, <2>1, <2>2
<1>8. HasJob(x) => cur[x].id # cur[w].id
    BY <1>1, <1>3, <1>5, <1>6
<1> QED
    BY <1>6, <1>7, <1>8

(* What a step of another request or the owner leaves to worker x.         *)
Idles(x) ==
    /\ pc'[x] = pc[x] /\ ask'[x] = ask[x] /\ cur'[x] = cur[x] /\ todo'[x] = todo[x]
    /\ errs'[x] = errs[x] /\ result'[x] = result[x]
    /\ trouble[x] \subseteq trouble'[x] /\ (Unrivalled(x)' => trouble'[x] = trouble[x])

Spares(x) ==
    /\ HasJob(x) /\ ask[x].op # "replay" =>
          /\ policy'[cur[x].id] = policy[cur[x].id]
          /\ route'[cur[x].id] = route[cur[x].id]
          /\ table'[cur[x].id] = table[cur[x].id]
          /\ localCerts'[Node(x)] => localCerts[Node(x)]
          /\ \A h \in hosts : h.mac = ask[x].mac => h \in hosts'
          /\ \A h \in hosts' : h.mac = ask[x].mac => h \in hosts
          /\ loaded' \in {loaded, hosts}
    /\ pc[x] # "idle" /\ ask[x].op = "replay" => UNCHANGED <<policy, route, table>>

(* A step of one request touches no variable of another, but for the       *)
(* history if they meet: what two requests share is outside.               *)
LEMMA OthersIdle ==
    ASSUME Typed, NEW w \in Workers, Moves(w), NEW x \in Workers, x # w
    PROVE  Idles(x)
<1> USE DEF Idles
<1>1. /\ pc \in [Workers -> Labels] /\ DOMAIN ask = Workers /\ DOMAIN cur = Workers
      /\ DOMAIN todo = Workers /\ DOMAIN errs = Workers /\ DOMAIN result = Workers
      /\ DOMAIN trouble = Workers
    BY DEF Typed, TypeOK
<1>2. CASE Accept(w)
  <2>1. /\ pc'[x] = pc[x] /\ ask'[x] = ask[x] /\ UNCHANGED <<cur, todo, errs, result>>
        /\ trouble'[x] \in {trouble[x], trouble[x] \cup {"other"}}
      BY <1>1, <1>2 DEF Accept, Goto
  <2> QED
      BY <2>1 DEF Unrivalled
<1>3. CASE FindFails(w)
    BY <1>1, <1>3 DEF FindFails, Finish, Note, Goto, work
<1>4. CASE FindToProvision(w) \/ FindToDeprovision(w)
    BY <1>1, <1>4 DEF FindToProvision, FindToDeprovision, Finish, SetJob, Goto, work
<1>5. CASE AddHost(w) \/ DeleteHost(w) \/ Reload(w)
    BY <1>1, <1>5
    DEF AddHost, DeleteHost, Reload, Try, Proceed, Collect, List, Finish, Note, Goto, work
<1>6. CASE FindFile(w)
    BY <1>1, <1>6 DEF FindFile, SetJob, Proceed, Note, Goto, work
<1>7. CASE Flag(w) \/ Policy(w) \/ Automate(w) \/ RouteAdded(w) \/ RouteReplayed(w)
    BY <1>1, <1>7
    DEF Flag, Policy, Automate, RouteAdded, RouteReplayed, TryCaddy, Try, RouteFails, Proceed,
        Collect, List, Finish, Note, Goto, work
<1>8. CASE RestartAdded(w)
    BY <1>1, <1>8
    DEF RestartAdded, TryRestart, RouteFails, Proceed, Collect, List, Finish, Note, Goto, work
<1>9. CASE DeleteRoute(w) \/ DeletePolicy(w)
    BY <1>1, <1>9
    DEF DeleteRoute, DeletePolicy, TryCaddy, Try, Proceed, Collect, List, Note, Goto, work
<1>10. CASE Upsert(w) \/ Remove(w)
    BY <1>1, <1>10 DEF Upsert, Remove, Try, Proceed, Collect, List, Note, Goto, work
<1>11. CASE Load(w) \/ NextRecord(w) \/ ReplayEnds(w) \/ Respond(w)
    BY <1>1, <1>11
    DEF Load, NextRecord, ReplayEnds, Respond, Reset1, Finish, Note, Goto, work
<1>12. CASE RestartReplayed(w)
    BY <1>1, <1>12 DEF RestartReplayed, TryRestart, List, Note
<1>13. CASE DialHangs(w) \/ DialBreaks(w)
    BY <1>1, <1>13, DialSteps
<1> QED
    BY <1>2, <1>3, <1>4, <1>5, <1>6, <1>7, <1>8, <1>9, <1>10, <1>11, <1>12, <1>13
    DEF Moves, Step

(* What a step does outside is spared a request that has noticed no other. *)
LEMMA OthersSpared ==
    ASSUME Noticed, Typed, NEW w \in Workers, Effect(w), NEW x \in Workers, x # w,
           Unrivalled(x)
    PROVE  Spares(x)
<1>1. /\ HasJob(x) => pc[x] # "idle"
      /\ HasJob(x) /\ ask[x].op # "replay" =>
            cur[x].id \in Ids /\ Node(x) \in Nodes
      /\ Busy(w) => HasJob(w) /\ cur[w].id \in Ids
      /\ pc[w] \in {"addHost", "deleteHost"} => Busy(w) /\ ask[w].op # "replay"
    BY DEF Typed, Stages, HasJob, Busy, Ok, Node, Ids, Serves
<1>2. Busy(w) /\ pc[x] # "idle" =>
          /\ ask[x].op # "replay"
          /\ ask[w].op # "replay" => ask[x].mac # ask[w].mac
          /\ HasJob(x) => cur[x].id # cur[w].id
    BY <1>1, Separate
<1>3. CASE UNCHANGED outside
    BY <1>3 DEF Spares, outside, panel, caddy
<1>4. CASE PanelEffect(w) /\ UNCHANGED <<guest, caddy, table>>
    BY <1>1, <1>2, <1>4 DEF Spares, PanelEffect, WithHost, Host, caddy
<1>5. CASE CaddyEffect(w) /\ UNCHANGED <<guest, panel, table>>
  <2>1. /\ DOMAIN policy = Ids /\ DOMAIN route = Ids /\ DOMAIN localCerts = Nodes
      BY DEF Typed, TypeOK
  <2> QED
      BY <1>1, <1>2, <1>5, <2>1 DEF Spares, CaddyEffect, InstallRoute, panel, Busy
<1>6. CASE TableEffect(w) /\ UNCHANGED <<guest, panel, caddy>>
  <2>1. DOMAIN table = Ids
      BY DEF Typed, TypeOK
  <2> QED
      BY <1>1, <1>2, <1>6, <2>1 DEF Spares, TableEffect, panel, caddy, Busy
<1> QED
    BY <1>3, <1>4, <1>5, <1>6 DEF Effect

(* A request that others spare keeps what it has achieved.                 *)
LEMMA SparedKeeps ==
    ASSUME Typed, NEW x \in Workers, Idles(x), Spares(x), Unrivalled(x)'
    PROVE  /\ Provisioned(x) => Provisioned(x)'
           /\ Deprovisioned(x) => Deprovisioned(x)'
           /\ Unlisted(x) => Unlisted(x)'
           /\ Replayed(x) => Replayed(x)'
<1>1. /\ Busy(x)' <=> Busy(x)
      /\ Ok(x)' <=> Ok(x)
      /\ HasJob(x)' <=> HasJob(x)
      /\ Routable(x)' <=> Routable(x)
      /\ Installing(x)' <=> Installing(x)
      /\ Ended(x)' <=> Ended(x)
      /\ Node(x)' = Node(x)
    BY DEF Idles, Busy, Ok, HasJob, Routable, Installing, Ended, Node
<1>2. trouble'[x] = trouble[x]
    BY DEF Idles
<1>3. ASSUME Provisioned(x), pc[x] # "idle", ask[x].op = "provision"
      PROVE  Provisioned(x)'
  <2>1. \A labels : Past(x, labels)' <=> Past(x, labels)
      BY <1>1 DEF Idles, Past
  <2>2. \A labels : Past(x, labels) /\ labels \subseteq {"policy", "automate", "route",
                                                        "restart", "hung", "upsert"} => HasJob(x)
      BY <1>3 DEF Past, HasJob, Busy, Ok
  <2>3. Host(ask[x].mac, cur[x])' = Host(ask[x].mac, cur[x])
      BY DEF Idles, Host
  <2>4. Host(ask[x].mac, cur[x]).mac = ask[x].mac
      BY DEF Host
  <2>5. HasJob(x) =>
          /\ policy'[cur[x].id] = policy[cur[x].id]
          /\ route'[cur[x].id] = route[cur[x].id]
          /\ table'[cur[x].id] = table[cur[x].id]
          /\ localCerts'[Node(x)] => localCerts[Node(x)]
          /\ Host(ask[x].mac, cur[x]) \in hosts => Host(ask[x].mac, cur[x]) \in hosts'
          /\ loaded' \in {loaded, hosts}
      BY <1>3, <2>4 DEF Spares
  <2> QED
      BY <1>1, <1>2, <1>3, <2>1, <2>2, <2>3, <2>5 DEF Idles, Provisioned, Ok, HasJob
<1>4. ASSUME Deprovisioned(x) PROVE Deprovisioned(x)'
    BY <1>1, <1>4 DEF Idles, Spares, Deprovisioned
<1>5. ASSUME Unlisted(x) PROVE Unlisted(x)'
    BY <1>1, <1>2, <1>5 DEF Idles, Spares, Unlisted
<1>6. ASSUME Replayed(x) PROVE Replayed(x)'
  <2>1. CASE pc[x] # "idle" /\ ask[x].op = "replay"
      BY <1>1, <1>2, <1>6, <2>1 DEF Idles, Spares, Replayed, Recorded
  <2>2. CASE ~ (pc[x] # "idle" /\ ask[x].op = "replay")
      BY <2>2 DEF Idles, Replayed, Installing, Ended
  <2> QED
      BY <2>1, <2>2
<1>7. Provisioned(x) => Provisioned(x)'
    BY <1>3 DEF Idles, Provisioned
<1> QED
    BY <1>4, <1>5, <1>6, <1>7

(* Caddy's loss of its configuration is noted by every request under way.  *)
LEMMA ResetKeeps ==
    ASSUME Typed, NEW n \in Nodes, NodeReset(n), NEW x \in Workers
    PROVE  /\ Fresh(x) => Fresh(x)'
           /\ Provisioned(x) => Provisioned(x)'
           /\ Deprovisioned(x) => Deprovisioned(x)'
           /\ Unlisted(x) => Unlisted(x)'
           /\ Replayed(x) => Replayed(x)'
<1>1. /\ UNCHANGED <<hosts, loaded, table, pc, ask, cur, todo, errs, result>>
      /\ trouble'[x] = IF pc[x] = "idle" THEN {} ELSE trouble[x] \cup {"reset"}
      /\ \A id \in Ids : /\ policy'[id] \in {None, policy[id]}
                         /\ route'[id] \in {None, route[id]}
    BY DEF NodeReset, panel, work
<1>2. /\ Busy(x)' <=> Busy(x)
      /\ Ok(x)' <=> Ok(x)
      /\ HasJob(x)' <=> HasJob(x)
      /\ Routable(x)' <=> Routable(x)
      /\ Installing(x)' <=> Installing(x)
      /\ HasJob(x) => cur[x].id \in Ids
      /\ HasJob(x) => pc[x] # "idle"
    BY <1>1 DEF Busy, Ok, HasJob, Routable, Installing, Typed, Stages
<1>3. Fresh(x) => Fresh(x)'
    BY <1>1, <1>2 DEF Fresh
<1>4. ASSUME Provisioned(x) PROVE Provisioned(x)'
    BY <1>1, <1>2, <1>4 DEF Provisioned, Host
<1>5. ASSUME Deprovisioned(x) PROVE Deprovisioned(x)'
    BY <1>1, <1>2, <1>5 DEF Deprovisioned
<1>6. ASSUME Unlisted(x) PROVE Unlisted(x)'
    BY <1>1, <1>2, <1>6 DEF Unlisted
<1>7. ASSUME Replayed(x) PROVE Replayed(x)'
    BY <1>1, <1>2, <1>7 DEF Replayed, Installing, Ended
<1> QED
    BY <1>3, <1>4, <1>5, <1>6, <1>7

(* The owner and systemd take nothing that a request has achieved.         *)
LEMMA OwnerSpares ==
    ASSUME NEW x \in Workers,
           (\E v \in VMIDs : Churn(v)) \/ (\E n \in Nodes : NodeUp(n)) \/ UNCHANGED vars
    PROVE  Idles(x) /\ Spares(x)
<1>1. UNCHANGED <<hosts, loaded, policy, route, localCerts, table,
                  pc, ask, cur, todo, errs, result, trouble>>
    BY DEF Churn, NodeUp, panel, caddy, work, outside, vars
<1> QED
    BY <1>1 DEF Idles, Spares

(***************************************************************************)
(* A request's own steps                                                   *)
(***************************************************************************)

(* A request begins without an error, and no answer of success hides one.  *)
LEMMA FreshSteps ==
    ASSUME Typed, NEW w \in Workers, Moves(w)
    PROVE  Fresh(w) => Fresh(w)'
<1>1. /\ pc \in [Workers -> Labels] /\ DOMAIN errs = Workers /\ DOMAIN result = Workers
    BY DEF Typed, TypeOK
<1>2. ASSUME NEW label \in Labels \ {"idle", "done"}, Goto(w, label)
      PROVE  Fresh(w)'
    BY <1>1, <1>2 DEF Goto, Fresh, Ok
<1>3. ASSUME NEW r \in Results, Finish(w, r), r = "ok" => errs[w] = {}
      PROVE  Fresh(w)'
    BY <1>1, <1>3 DEF Finish, Goto, Fresh, Ok, work
<1>4. CASE Accept(w)
    BY <1>2, <1>4 DEF Accept, Labels
<1>5. CASE FindFails(w) \/ FindToProvision(w) \/ FindToDeprovision(w)
    BY <1>2, <1>3, <1>5 DEF FindFails, FindToProvision, FindToDeprovision, Labels, Results
<1>6. CASE AddHost(w)
  <2>1. Finish(w, "failed") \/ \E label \in {"reload", "flag"} : Goto(w, label)
      BY <1>6 DEF AddHost, Try, Proceed
  <2> QED
      BY <1>2, <1>3, <2>1 DEF Labels, Results
<1>7. CASE FindFile(w) \/ DeleteHost(w)
    BY <1>2, <1>7 DEF FindFile, DeleteHost, Try, Proceed, Collect, Labels
<1>8. CASE Reload(w)
  <2>1. Finish(w, IF errs[w] = {} THEN "ok" ELSE "failed")
      BY <1>8 DEF Reload, Try
  <2> QED
      BY <1>3, <2>1 DEF Results
<1>9. RouteFails(w) => Fresh(w)'
    BY <1>2, <1>3 DEF RouteFails, Collect, Labels, Results
<1>10. CASE \/ Flag(w) \/ Policy(w) \/ Automate(w) \/ RouteAdded(w) \/ RouteReplayed(w)
            \/ RestartAdded(w)
    BY <1>2, <1>9, <1>10
    DEF Flag, Policy, Automate, RouteAdded, RouteReplayed, RestartAdded, TryCaddy, TryRestart,
        Try, Proceed, Labels
<1>11. CASE DeleteRoute(w) \/ DeletePolicy(w) \/ Remove(w) \/ Upsert(w)
    BY <1>2, <1>11
    DEF DeleteRoute, DeletePolicy, Remove, Upsert, TryCaddy, Try, Proceed, Collect, Labels
<1>12. CASE Load(w) \/ NextRecord(w)
    BY <1>2, <1>3, <1>12 DEF Load, NextRecord, Labels, Results
<1>13. CASE RestartReplayed(w)
    BY <1>13 DEF RestartReplayed, TryRestart, Fresh, Ok
<1>14. CASE ReplayEnds(w)
  <2>1. Finish(w, IF errs[w] = {} THEN "ok" ELSE "partial")
      BY <1>14 DEF ReplayEnds
  <2> QED
      BY <1>3, <2>1 DEF Results
<1>15. CASE Respond(w)
  <2>1. errs'[w] = {}
      BY <1>1, <1>15 DEF Respond, Reset1
  <2> QED
      BY <2>1 DEF Fresh
<1>16. CASE DialHangs(w) \/ DialBreaks(w)
  <2>1. pc'[w] \in {"hung", "next", "restart"}
      BY <1>16, DialSteps
  <2> QED
      BY <2>1 DEF Fresh, Ok
<1> QED
    BY <1>4, <1>5, <1>6, <1>7, <1>8, <1>10, <1>11, <1>12, <1>13, <1>14, <1>15, <1>16
    DEF Moves, Step

(* Provision (engine.go:111-171): each call that has to succeed comes      *)
(* before the step that needs it, and an error of it ends the request.     *)
LEMMA ProvisionSteps ==
    ASSUME Typed, NEW w \in Workers, Fresh(w), Provisioned(w), Moves(w)
    PROVE  Provisioned(w)'
<1>1. /\ pc \in [Workers -> Labels] /\ DOMAIN ask = Workers /\ cur \in [Workers -> Jobs]
      /\ DOMAIN todo = Workers /\ errs \in [Workers -> SUBSET Errors] /\ result \in [Workers -> Results]
      /\ trouble \in [Workers -> SUBSET Remarks]
    BY DEF Typed, TypeOK
<1>2. /\ DOMAIN policy = Ids /\ DOMAIN route = Ids /\ DOMAIN table = Ids
      /\ localCerts \in [Nodes -> BOOLEAN]
    BY DEF Typed, TypeOK
<1>3. /\ pc[w] # "idle" => Serves(pc[w], ask[w].op)
      /\ Busy(w) => cur[w].id \in Ids /\ Node(w) \in Nodes
    BY DEF Typed, Stages, HasJob, Node, Ids
<1>4. ASSUME NEW what \in {"fault", "lookup"}, Note(w, what)
      PROVE  trouble'[w] # {} /\ ("reset" \in trouble[w] => "reset" \in trouble'[w])
    BY <1>1, <1>4 DEF Note
<1>5. CASE pc'[w] = "done" /\ result'[w] # "ok" /\ UNCHANGED <<ask, cur, errs>>
           /\ pc[w] # "idle" /\ (trouble'[w] = {} => result'[w] \in {"notFound", "badRequest"})
    BY <1>1, <1>5 DEF Provisioned, Fresh, Past, Ok, HasJob, Busy, Routable
<1>6. CASE pc[w] # "idle" /\ ask[w].op # "provision" /\ ask'[w] = ask[w] /\ pc'[w] # "idle"
    BY <1>6 DEF Provisioned, Fresh
<1>7. CASE Accept(w)
  <2>1. pc[w] = "idle" /\ pc'[w] \in {"load", "find"} /\ UNCHANGED errs
      BY <1>1, <1>7 DEF Accept, Goto
  <2> QED
      BY <2>1 DEF Fresh, Provisioned, Past, Ok, HasJob, Busy
<1>8. CASE Respond(w)
  <2>1. pc'[w] = "idle" /\ errs'[w] = {}
      BY <1>1, <1>8 DEF Respond, Goto, Reset1
  <2> QED
      BY <2>1 DEF Fresh, Provisioned
<1>9. CASE FindFails(w)
  <2>1. /\ pc[w] = "find" /\ pc'[w] = "done" /\ result'[w] = "notFound"
        /\ UNCHANGED <<ask, cur, errs>>
      BY <1>1, <1>9 DEF FindFails, Finish, Goto, work
  <2> QED
      BY <1>5, <2>1
<1>10. CASE FindToProvision(w)
  <2>1. pc[w] = "find" /\ UNCHANGED <<ask, errs, trouble>>
      BY <1>10 DEF FindToProvision, Finish, SetJob, work
  <2>2. \/ pc'[w] = "done" /\ result'[w] = "badRequest" /\ UNCHANGED cur
        \/ pc'[w] = "addHost"
      BY <1>1, <1>10 DEF FindToProvision, Finish, Goto, work
  <2>3. CASE pc'[w] = "addHost"
      BY <2>1, <2>3 DEF Provisioned, Fresh, Past, Ok, HasJob, Busy
  <2> QED
      BY <1>5, <2>1, <2>2, <2>3
<1>11. CASE AddHost(w)
  <2>1. pc[w] = "addHost" /\ UNCHANGED <<ask, cur, errs>> /\ ask[w].op = "provision"
      BY <1>3, <1>11 DEF AddHost, Try, Proceed, Finish, work, Serves
  <2>2. CASE Finish(w, "failed") /\ Note(w, "fault")
      BY <1>1, <1>4, <1>5, <2>1, <2>2 DEF Finish, Goto
  <2>3. CASE /\ hosts' = WithHost(hosts, Host(ask[w].mac, cur[w]))
             /\ Proceed(w, IF cur[w].conf = CaddyTag \/ ask[w].dnsOnly THEN "reload" ELSE "flag")
             /\ UNCHANGED trouble
    <3>1. pc'[w] = IF cur[w].conf = CaddyTag \/ ask[w].dnsOnly THEN "reload" ELSE "flag"
        BY <1>1, <2>3 DEF Proceed, Goto
    <3>2. Host(ask[w].mac, cur[w]) \in hosts'
        BY <2>3 DEF WithHost
    <3> QED
        BY <2>1, <3>1, <3>2 DEF Provisioned, Fresh, Past, Ok, HasJob, Busy, Routable, Host
  <2> QED
      BY <1>11, <2>2, <2>3 DEF AddHost, Try
<1>12. CASE Reload(w)
  <2>1. /\ pc[w] = "reload" /\ UNCHANGED <<ask, cur, errs, hosts, caddy, table>> /\ pc'[w] = "done"
        /\ result'[w] = (IF errs[w] = {} THEN "ok" ELSE "failed")
        /\ (UNCHANGED trouble /\ loaded' = hosts) \/ Note(w, "fault")
      BY <1>1, <1>12 DEF Reload, Try, Finish, Goto, work
  <2> QED
      BY <1>1, <1>4, <2>1
      DEF Provisioned, Fresh, Past, Ok, HasJob, Busy, Routable, Host, Node, caddy
<1>13. ASSUME pc[w] \in {"flag", "policy", "automate", "route", "restart"},
              RouteFails(w), Note(w, "fault")
       PROVE  Provisioned(w)'
  <2>1. CASE ask[w].op = "replay" /\ Collect(w, "next")
      BY <1>1, <1>6, <1>13, <2>1 DEF Collect, Goto
  <2>2. CASE Finish(w, "failed")
      BY <1>1, <1>4, <1>5, <1>13, <2>2 DEF Finish, Goto, work
  <2> QED
      BY <1>13, <2>1, <2>2 DEF RouteFails
<1>14. ASSUME NEW label \in {"policy", "automate", "route", "restart"}, Proceed(w, label)
       PROVE  pc'[w] = label /\ UNCHANGED <<ask, cur, errs>>
    BY <1>1, <1>14 DEF Proceed, Goto, work
<1>15. CASE Flag(w)
  <2>1. CASE /\ localCerts' = [localCerts EXCEPT ![Node(w)] = FALSE]
             /\ Proceed(w, "policy") /\ UNCHANGED <<hosts, trouble>> /\ pc[w] = "flag"
      BY <1>2, <1>3, <1>14, <2>1
      DEF Provisioned, Fresh, Past, Ok, HasJob, Busy, Routable, Host, Node
  <2> QED
      BY <1>13, <1>15, <2>1 DEF Flag, TryCaddy, Try, panel
<1>16. CASE Policy(w)
  <2>1. CASE /\ policy' = [policy EXCEPT ![cur[w].id] = cur[w].conf]
             /\ Proceed(w, "automate") /\ UNCHANGED <<hosts, localCerts, trouble>>
             /\ pc[w] = "policy"
      BY <1>2, <1>3, <1>14, <2>1
      DEF Provisioned, Fresh, Past, Ok, HasJob, Busy, Routable, Host, Node
  <2> QED
      BY <1>13, <1>16, <2>1 DEF Policy, TryCaddy, Try, panel
<1>17. CASE Automate(w)
  <2>1. CASE /\ Proceed(w, "route") /\ UNCHANGED <<hosts, localCerts, policy, trouble>>
             /\ pc[w] = "automate"
      BY <1>3, <1>14, <2>1
      DEF Provisioned, Fresh, Past, Ok, HasJob, Busy, Routable, Host, Node
  <2> QED
      BY <1>13, <1>17, <2>1 DEF Automate, TryCaddy, Try, panel, caddy
<1>18. CASE RouteAdded(w)
  <2>1. CASE /\ route' = [route EXCEPT ![cur[w].id] = cur[w].conf]
             /\ Proceed(w, "restart") /\ UNCHANGED <<hosts, localCerts, policy, trouble>>
             /\ pc[w] = "route"
      BY <1>2, <1>3, <1>14, <2>1
      DEF Provisioned, Fresh, Past, Ok, HasJob, Busy, Routable, Host, Node
  <2> QED
      BY <1>13, <1>18, <2>1 DEF RouteAdded, InstallRoute, TryCaddy, Try, panel
<1>19. CASE RestartAdded(w)
  <2>1. CASE /\ Proceed(w, "upsert") /\ UNCHANGED <<hosts, localCerts, policy, route>>
             /\ pc[w] = "restart" /\ (UNCHANGED trouble \/ Note(w, "fault"))
    <3>1. pc'[w] = "upsert" /\ UNCHANGED <<ask, cur, errs>>
        BY <1>1, <2>1 DEF Proceed, Goto, work
    <3> QED
        BY <1>3, <1>4, <2>1, <3>1
        DEF Provisioned, Fresh, Past, Ok, HasJob, Busy, Routable, Host, Node
  <2> QED
      BY <1>13, <1>19, <2>1 DEF RestartAdded, TryRestart, panel
<1>20. CASE Upsert(w)
  <2>1. /\ pc[w] = "upsert" /\ UNCHANGED <<ask, cur, errs, hosts, localCerts, policy, route>>
        /\ pc'[w] = "reload"
        /\ \/ table' = [table EXCEPT ![cur[w].id] = cur[w].conf] /\ UNCHANGED trouble
           \/ Note(w, "fault")
      BY <1>1, <1>20 DEF Upsert, Try, Proceed, Goto, work, panel, caddy
  <2> QED
      BY <1>2, <1>3, <1>4, <2>1
      DEF Provisioned, Fresh, Past, Ok, HasJob, Busy, Routable, Host, Node
<1>21. CASE \/ FindToDeprovision(w) \/ FindFile(w) \/ DeleteHost(w) \/ RouteReplayed(w)
            \/ DeleteRoute(w) \/ DeletePolicy(w) \/ Remove(w)
            \/ Load(w) \/ NextRecord(w) \/ RestartReplayed(w) \/ ReplayEnds(w)
  <2>1. pc[w] \in {"find", "findFile", "deleteHost", "route", "deleteRoute", "deletePolicy",
                   "remove", "load", "next"}
      BY <1>21
      DEF FindToDeprovision, FindFile, DeleteHost, RouteReplayed, DeleteRoute, DeletePolicy,
          Remove, Load, NextRecord, RestartReplayed, ReplayEnds
  <2>2. ask[w].op # "provision"
    <3>1. CASE pc[w] \in {"find", "route"}
      <4>1. FindToDeprovision(w) \/ RouteReplayed(w)
          BY <1>21, <3>1
          DEF FindFile, DeleteHost, DeleteRoute, DeletePolicy, Remove, Load, NextRecord,
              RestartReplayed, ReplayEnds
      <4> QED
          BY <4>1 DEF FindToDeprovision, RouteReplayed
    <3>2. CASE pc[w] \notin {"find", "route"}
        BY <1>3, <2>1, <3>2 DEF Serves
    <3> QED
        BY <3>1, <3>2
  <2>3. CASE FindToDeprovision(w) \/ FindFile(w)
      BY <1>1, <1>6, <2>1, <2>2, <2>3
      DEF FindToDeprovision, FindFile, Finish, SetJob, Proceed, Goto, work
  <2>4. CASE DeleteHost(w) \/ DeleteRoute(w) \/ DeletePolicy(w) \/ Remove(w)
      BY <1>1, <1>6, <2>1, <2>2, <2>4
      DEF DeleteHost, DeleteRoute, DeletePolicy, Remove, TryCaddy, Try, Proceed, Collect, Goto,
          work
  <2>5. CASE RouteReplayed(w)
      BY <1>1, <1>6, <2>1, <2>2, <2>5
      DEF RouteReplayed, TryCaddy, Try, RouteFails, Collect, Finish, Goto, work
  <2>6. CASE Load(w) \/ NextRecord(w) \/ ReplayEnds(w)
      BY <1>1, <1>6, <2>1, <2>2, <2>6 DEF Load, NextRecord, ReplayEnds, Finish, Goto, work
  <2>7. CASE RestartReplayed(w)
      BY <1>6, <2>1, <2>2, <2>7 DEF RestartReplayed, TryRestart
  <2> QED
      BY <1>21, <2>3, <2>4, <2>5, <2>6, <2>7
<1>22. CASE DialHangs(w) \/ DialBreaks(w)
  <2>1. UNCHANGED <<hosts, loaded, policy, route, localCerts, table, ask, cur, errs, trouble>>
      BY <1>22, DialSteps DEF outside, panel, caddy
  <2>2. CASE ask[w].op = "replay"
      BY <1>6, <1>22, <2>1, <2>2, DialSteps
  <2>3. CASE pc[w] \in {"restart", "hung"} /\ pc'[w] \in {"restart", "hung"}
             /\ ask[w].op = "provision"
      BY <2>1, <2>3 DEF Provisioned, Past, Ok, HasJob, Busy, Routable, Host, Node
  <2> QED
      BY <1>22, <2>2, <2>3, DialSteps
<1> QED
    BY <1>7, <1>8, <1>9, <1>10, <1>11, <1>12, <1>15, <1>16, <1>17, <1>18, <1>19, <1>20, <1>21,
       <1>22 DEF Moves, Step

(* The steps of a Deprovision at work that has met no error.               *)
LEMMA DeprovisionStep ==
    ASSUME Typed, NEW w \in Workers, Moves(w),
           HasJob(w)', ask'[w].op = "deprovision", errs'[w] = {}
    PROVE  /\ ask'[w] = ask[w]
           /\ \/ FindToDeprovision(w) /\ pc'[w] = "deleteRoute"
              \/ /\ errs[w] = {}
                 /\ \/ DeleteRoute(w) \/ DeletePolicy(w) \/ Remove(w)
                    \/ FindFile(w) \/ DeleteHost(w) \/ Reload(w)
<1>1. /\ pc \in [Workers -> Labels] /\ DOMAIN ask = Workers
      /\ errs \in [Workers -> SUBSET Errors] /\ result \in [Workers -> Results]
    BY DEF Typed, TypeOK
<1>2. pc[w] # "idle" => Serves(pc[w], ask[w].op)
    BY DEF Typed, Stages
<1>3. CASE Accept(w)
    BY <1>1, <1>3 DEF Accept, Goto, HasJob, Busy, Ok
<1>4. CASE Respond(w)
    BY <1>1, <1>4 DEF Respond, Goto, HasJob, Busy, Ok
<1>5. CASE FindFails(w)
    BY <1>1, <1>5 DEF FindFails, Finish, Goto, HasJob, Busy, Ok
<1>6. CASE FindToProvision(w)
    BY <1>6 DEF FindToProvision, Finish, SetJob, work
<1>7. CASE FindToDeprovision(w)
  <2>1. ask'[w] = ask[w]
      BY <1>7 DEF FindToDeprovision, Finish, SetJob, work
  <2>2. pc'[w] = "deleteRoute" \/ (pc'[w] = "done" /\ result'[w] = "conflict")
      BY <1>1, <1>7 DEF FindToDeprovision, Finish, Goto
  <2> QED
      BY <1>7, <2>1, <2>2 DEF HasJob, Busy, Ok
<1>8. CASE pc[w] \in {"addHost", "flag", "policy", "automate", "route", "restart", "upsert",
                      "load", "next"} /\ ask'[w] = ask[w]
    BY <1>2, <1>8 DEF Serves
<1>9. CASE DeleteRoute(w) \/ DeletePolicy(w) \/ Remove(w) \/ FindFile(w) \/ DeleteHost(w) \/ Reload(w)
  <2>1. ask'[w] = ask[w]
      BY <1>9
      DEF DeleteRoute, DeletePolicy, Remove, FindFile, DeleteHost, Reload, TryCaddy, Try, Proceed,
          Collect, Finish, SetJob, work
  <2>2. errs[w] = {}
      BY <1>1, <1>9
      DEF DeleteRoute, DeletePolicy, Remove, FindFile, DeleteHost, Reload, TryCaddy, Try, Proceed,
          Collect, List, Finish, SetJob, work
  <2> QED
      BY <1>9, <2>1, <2>2
<1>10. CASE AddHost(w) \/ Upsert(w)
    BY <1>8, <1>10 DEF AddHost, Upsert, Try, Proceed, Finish, work
<1>11. CASE Flag(w) \/ Policy(w) \/ Automate(w) \/ RouteAdded(w) \/ RouteReplayed(w)
    BY <1>8, <1>11
    DEF Flag, Policy, Automate, RouteAdded, RouteReplayed, TryCaddy, Try, RouteFails, Proceed,
        Collect, Finish, work
<1>12. CASE RestartAdded(w) \/ RestartReplayed(w)
    BY <1>8, <1>12
    DEF RestartAdded, RestartReplayed, TryRestart, RouteFails, Proceed, Collect, Finish, work
<1>13. CASE Load(w) \/ NextRecord(w) \/ ReplayEnds(w)
    BY <1>8, <1>13 DEF Load, NextRecord, ReplayEnds, Finish, work
<1>14. CASE DialHangs(w) \/ DialBreaks(w)
    BY <1>14, DialSteps
<1> QED
    BY <1>3, <1>4, <1>5, <1>6, <1>7, <1>9, <1>10, <1>11, <1>12, <1>13, <1>14 DEF Moves, Step

(* Deprovision (engine.go:174-208): a deletion that has an error is        *)
(* collected, so that without one each has been carried out.               *)
LEMMA DeprovisionSteps ==
    ASSUME Typed, NEW w \in Workers, Deprovisioned(w), Moves(w)
    PROVE  Deprovisioned(w)'
<1> SUFFICES ASSUME HasJob(w)', ask'[w].op = "deprovision", errs'[w] = {}
             PROVE  Deprovisioned(w)'
    BY DEF Deprovisioned
<1>1. /\ pc \in [Workers -> Labels] /\ cur \in [Workers -> Jobs]
      /\ errs \in [Workers -> SUBSET Errors] /\ result \in [Workers -> Results]
      /\ DOMAIN policy = Ids /\ DOMAIN route = Ids /\ DOMAIN table = Ids
    BY DEF Typed, TypeOK
<1>2. /\ ask'[w] = ask[w]
      /\ \/ FindToDeprovision(w) /\ pc'[w] = "deleteRoute"
         \/ /\ errs[w] = {}
            /\ \/ DeleteRoute(w) \/ DeletePolicy(w) \/ Remove(w)
               \/ FindFile(w) \/ DeleteHost(w) \/ Reload(w)
    BY DeprovisionStep
<1>3. Busy(w) => cur[w].id \in Ids
    BY DEF Typed, Stages, HasJob
<1>4. ASSUME NEW label \in Labels, Collect(w, label)
      PROVE  FALSE
    BY <1>1, <1>4 DEF Collect, List
<1>5. CASE FindToDeprovision(w) /\ pc'[w] = "deleteRoute"
    BY <1>5 DEF Deprovisioned
<1>6. CASE DeleteRoute(w) /\ errs[w] = {}
  <2>1. /\ pc[w] = "deleteRoute" /\ route' = [route EXCEPT ![cur[w].id] = None]
        /\ Proceed(w, "deletePolicy")
      BY <1>4, <1>6 DEF DeleteRoute, TryCaddy, Try, Labels
  <2> QED
      BY <1>1, <1>2, <1>3, <2>1 DEF Deprovisioned, Proceed, Goto, work, Busy
<1>7. CASE DeletePolicy(w) /\ errs[w] = {}
  <2>1. /\ pc[w] = "deletePolicy" /\ policy' = [policy EXCEPT ![cur[w].id] = None]
        /\ UNCHANGED route /\ Proceed(w, "remove")
      BY <1>4, <1>7 DEF DeletePolicy, TryCaddy, Try, Labels
  <2> QED
      BY <1>1, <1>2, <1>3, <1>7, <2>1 DEF Deprovisioned, Proceed, Goto, work, Busy, HasJob
<1>8. CASE Remove(w) /\ errs[w] = {}
  <2>1. /\ pc[w] = "remove" /\ table' = [table EXCEPT ![cur[w].id] = None]
        /\ UNCHANGED <<policy, route>> /\ Proceed(w, "findFile")
      BY <1>4, <1>8 DEF Remove, Try, Labels, caddy
  <2> QED
      BY <1>1, <1>2, <1>3, <1>8, <2>1 DEF Deprovisioned, Proceed, Goto, work, Busy, HasJob
<1>9. CASE (FindFile(w) \/ DeleteHost(w) \/ Reload(w)) /\ errs[w] = {}
  <2>1. /\ pc[w] \in {"findFile", "deleteHost", "reload"} /\ UNCHANGED <<policy, route, table>>
      BY <1>9 DEF FindFile, DeleteHost, Reload, Try, caddy, outside
  <2>2. cur'[w].id = cur[w].id
      BY <1>1, <1>9
      DEF FindFile, DeleteHost, Reload, Try, Proceed, Collect, Finish, SetJob, work, Jobs
  <2> QED
      BY <1>2, <1>9, <2>1, <2>2 DEF Deprovisioned, HasJob, Busy
<1> QED
    BY <1>2, <1>5, <1>6, <1>7, <1>8, <1>9

(* Deprovision deletes the one entry the MAC has, where it has one file.   *)
LEMMA UnlistedSteps ==
    ASSUME OneFile, Typed, NEW w \in Workers, Unlisted(w), Moves(w)
    PROVE  Unlisted(w)'
<1> SUFFICES ASSUME HasJob(w)', ask'[w].op = "deprovision", errs'[w] = {},
                    pc'[w] = "reload" \/ Ok(w)',
                    "lookup" \notin trouble'[w]
             PROVE  \A h \in hosts' : h.mac # ask'[w].mac
    BY DEF Unlisted
<1>1. /\ pc \in [Workers -> Labels] /\ cur \in [Workers -> Jobs]
      /\ errs \in [Workers -> SUBSET Errors] /\ result \in [Workers -> Results]
      /\ trouble \in [Workers -> SUBSET Remarks]
    BY DEF Typed, TypeOK
<1>2. /\ ask'[w] = ask[w]
      /\ \/ FindToDeprovision(w) /\ pc'[w] = "deleteRoute"
         \/ /\ errs[w] = {}
            /\ \/ DeleteRoute(w) \/ DeletePolicy(w) \/ Remove(w)
               \/ FindFile(w) \/ DeleteHost(w) \/ Reload(w)
    BY DeprovisionStep
<1>3. CASE DeleteRoute(w) \/ DeletePolicy(w) \/ Remove(w)
  <2>1. pc'[w] \in {"deletePolicy", "remove", "findFile"}
      BY <1>1, <1>3
      DEF DeleteRoute, DeletePolicy, Remove, TryCaddy, Try, Proceed, Collect, Goto
  <2> QED
      BY <2>1 DEF Ok
<1>4. CASE FindFile(w)
  <2>1. \/ pc'[w] = "deleteHost"
        \/ \A h \in hosts : h.mac # ask[w].mac
        \/ "lookup" \in trouble'[w]
      BY <1>1, <1>4 DEF FindFile, Goto, Note
  <2>2. UNCHANGED hosts
      BY <1>4 DEF FindFile, outside, panel
  <2> QED
      BY <1>2, <2>1, <2>2 DEF Ok
<1>5. CASE DeleteHost(w)
  <2>1. hosts' = {h \in hosts : ~ (h.mac = ask[w].mac /\ h.file = cur[w].file)}
      BY <1>1, <1>5 DEF DeleteHost, Try, Collect, List
  <2>2. pc[w] = "deleteHost" /\ ask[w].op = "deprovision"
      BY <1>2, <1>5 DEF DeleteHost
  <2>3. cur[w].file \in FilesOf(ask[w].mac) /\ ask[w].mac \in Macs
      BY <2>2, RequestTypes DEF Typed, Stages, HasJob, Busy
  <2>4. \A h \in hosts : h.mac = ask[w].mac => h.file = cur[w].file
      BY <2>3 DEF OneFile, Typed, Sources
  <2> QED
      BY <1>2, <2>1, <2>4
<1>6. CASE Reload(w) /\ errs[w] = {}
  <2>1. pc[w] = "reload" /\ UNCHANGED hosts /\ (UNCHANGED trouble \/ Note(w, "fault"))
      BY <1>6 DEF Reload, Try
  <2>2. "lookup" \notin trouble[w]
      BY <1>1, <2>1 DEF Note
  <2> QED
      BY <1>2, <1>6, <2>1, <2>2 DEF Unlisted, HasJob, Busy
<1> QED
    BY <1>2, <1>3, <1>4, <1>5, <1>6 DEF Ok

(* ReplayCaddy (engine.go:218-258): each record read is installed or its   *)
(* error is listed.                                                        *)
LEMMA ReplaySteps ==
    ASSUME Typed, NEW w \in Workers, Replayed(w), Moves(w)
    PROVE  Replayed(w)'
<1>1. /\ pc \in [Workers -> Labels] /\ DOMAIN ask = Workers /\ cur \in [Workers -> Jobs]
      /\ todo \in [Workers -> SUBSET Jobs]
      /\ errs \in [Workers -> SUBSET Errors] /\ result \in [Workers -> Results]
      /\ trouble \in [Workers -> SUBSET Remarks]
      /\ DOMAIN policy = Ids /\ DOMAIN route = Ids
    BY DEF Typed, TypeOK
<1>2. /\ pc[w] # "idle" => Serves(pc[w], ask[w].op)
      /\ Busy(w) => cur[w].id \in Ids
      /\ \A r \in todo[w] : r.id \in Ids
    BY DEF Typed, Stages, HasJob
<1>3. ASSUME Note(w, "fault")
      PROVE  "reset" \in trouble[w] => "reset" \in trouble'[w]
    BY <1>1, <1>3 DEF Note
<1>4. CASE Accept(w)
  <2>1. pc'[w] \in {"load", "find"}
      BY <1>1, <1>4 DEF Accept, Goto
  <2> QED
      BY <2>1 DEF Replayed, Installing, Ended
<1>5. CASE Respond(w)
  <2>1. pc'[w] = "idle"
      BY <1>1, <1>5 DEF Respond, Goto
  <2> QED
      BY <2>1 DEF Replayed, Installing, Ended
<1>6. CASE pc[w] \notin {"idle", "load", "next", "policy", "automate", "route", "hung", "done"}
           /\ ask'[w] = ask[w]
  <2>1. ask[w].op # "replay"
      BY <1>1, <1>2, <1>6 DEF Serves, Labels
  <2> QED
      BY <1>6, <2>1 DEF Replayed
<1>7. CASE Load(w)
  <2>1. CASE Finish(w, "failed")
      BY <1>1, <2>1 DEF Finish, Goto, Replayed, Installing, Ended
  <2>2. CASE /\ todo' = [todo EXCEPT ![w] =
                          {[id |-> id, conf |-> table[id], file |-> None] : id \in Recorded}]
             /\ Goto(w, "next")
    <3>1. todo'[w] = {[id |-> id, conf |-> table[id], file |-> None] : id \in Recorded}
        BY <1>1, <2>2
    <3>2. pc'[w] = "next" /\ UNCHANGED table
        BY <1>1, <1>7, <2>2 DEF Goto, Load, outside
    <3>3. \A r \in todo'[w] : r.conf = table[r.id]
        BY <3>1
    <3>4. \A id \in Recorded : \E r \in todo'[w] : r.id = id
      <4>1. ASSUME NEW id \in Recorded
            PROVE  \E r \in todo'[w] : r.id = id
        <5> DEFINE r == [id |-> id, conf |-> table[id], file |-> None]
        <5>1. r \in todo'[w] /\ r.id = id
            BY <3>1
        <5> QED
            BY <5>1
      <4> QED
          BY <4>1
    <3> QED
        BY <3>2, <3>3, <3>4 DEF Replayed, Installing, Ended, Recorded
  <2> QED
      BY <1>7, <2>1, <2>2 DEF Load
<1>8. CASE NextRecord(w)
  <2>1. PICK r \in todo[w] : cur'[w] = r /\ todo'[w] = todo[w] \ {r}
      BY <1>1, <1>8 DEF NextRecord
  <2>2. /\ pc[w] = "next" /\ pc'[w] = "policy"
        /\ UNCHANGED <<policy, route, table, ask, errs, trouble>>
      BY <1>1, <1>8 DEF NextRecord, Goto, outside, caddy
  <2> QED
      BY <2>1, <2>2 DEF Replayed, Installing, Ended, Recorded
<1>9. ASSUME RouteFails(w), Note(w, "fault"), UNCHANGED table,
             pc[w] \in {"policy", "automate", "route"},
             UNCHANGED policy \/ policy' = [policy EXCEPT ![cur[w].id] = cur[w].conf],
             UNCHANGED route \/ route' = [route EXCEPT ![cur[w].id] = cur[w].conf]
      PROVE  Replayed(w)'
  <2>1. CASE ask[w].op = "replay" /\ Collect(w, "next")
    <3>1. /\ pc'[w] = "next" /\ errs'[w] = errs[w] \cup {cur[w].id} /\ UNCHANGED <<ask, todo>>
        BY <1>1, <2>1 DEF Collect, List, Goto
    <3>2. \A id \in Ids : id # cur[w].id => policy'[id] = policy[id] /\ route'[id] = route[id]
        BY <1>1, <1>9
    <3> QED
        BY <1>3, <1>9, <2>1, <3>1, <3>2 DEF Replayed, Installing, Ended, Recorded
  <2>2. CASE ask[w].op # "replay" /\ Finish(w, "failed")
      BY <2>2 DEF Finish, work, Replayed
  <2> QED
      BY <1>9, <2>1, <2>2 DEF RouteFails
<1>10. CASE Policy(w)
  <2>1. CASE /\ policy' = [policy EXCEPT ![cur[w].id] = cur[w].conf]
             /\ Proceed(w, "automate") /\ UNCHANGED <<route, table, trouble>>
             /\ pc[w] = "policy"
    <3>1. /\ pc'[w] = "automate" /\ UNCHANGED <<ask, cur, todo, errs>>
        BY <1>1, <2>1 DEF Proceed, Goto, work
    <3>2. /\ cur[w].id \in Ids
          /\ policy'[cur[w].id] = cur[w].conf
          /\ \A id \in Ids : id # cur[w].id => policy'[id] = policy[id]
        BY <1>1, <1>2, <2>1 DEF Busy
    <3> QED
        BY <2>1, <3>1, <3>2 DEF Replayed, Installing, Ended, Recorded
  <2> QED
      BY <1>9, <1>10, <2>1 DEF Policy, TryCaddy, Try, caddy
<1>11. CASE Automate(w)
  <2>1. CASE /\ Proceed(w, "route") /\ UNCHANGED <<policy, route, table, trouble>>
             /\ pc[w] = "automate"
    <3>1. /\ pc'[w] = "route" /\ UNCHANGED <<ask, cur, todo, errs>>
        BY <1>1, <2>1 DEF Proceed, Goto, work
    <3> QED
        BY <2>1, <3>1 DEF Replayed, Installing, Ended, Recorded
  <2> QED
      BY <1>9, <1>11, <2>1 DEF Automate, TryCaddy, Try, caddy
<1>12. CASE RouteReplayed(w)
  <2>1. CASE /\ route' = [route EXCEPT ![cur[w].id] = cur[w].conf]
             /\ Goto(w, "next") /\ UNCHANGED <<ask, cur, todo, errs, policy, table, trouble>>
             /\ pc[w] = "route"
    <3>1. pc'[w] = "next"
        BY <1>1, <2>1 DEF Goto
    <3>2. /\ cur[w].id \in Ids
          /\ route'[cur[w].id] = cur[w].conf
          /\ \A id \in Ids : id # cur[w].id => route'[id] = route[id]
        BY <1>1, <1>2, <2>1 DEF Busy
    <3> QED
        BY <2>1, <3>1, <3>2 DEF Replayed, Installing, Ended, Recorded
  <2> QED
      BY <1>9, <1>12, <2>1 DEF RouteReplayed, InstallRoute, TryCaddy, Try, caddy
<1>13. CASE RestartReplayed(w)
  <2>1. /\ pc[w] = "next" /\ UNCHANGED <<pc, ask, cur, todo, result, policy, route, table>>
        /\ errs[w] \subseteq errs'[w]
        /\ UNCHANGED trouble \/ Note(w, "fault")
      BY <1>1, <1>13 DEF RestartReplayed, TryRestart, List
  <2> QED
      BY <1>3, <2>1 DEF Replayed, Installing, Ended, Recorded
<1>14. CASE ReplayEnds(w)
  <2>1. /\ pc[w] = "next" /\ todo[w] = {} /\ UNCHANGED <<policy, route, table, trouble>>
        /\ pc'[w] = "done" /\ result'[w] = (IF errs[w] = {} THEN "ok" ELSE "partial")
        /\ UNCHANGED <<ask, cur, todo, errs>>
      BY <1>1, <1>14 DEF ReplayEnds, Finish, Goto, work, outside, caddy
  <2> QED
      BY <1>1, <2>1 DEF Replayed, Installing, Ended, Recorded
<1>15. CASE FindFails(w) \/ FindToProvision(w) \/ FindToDeprovision(w) \/ FindFile(w)
    BY <1>6, <1>15
    DEF FindFails, FindToProvision, FindToDeprovision, FindFile, Finish, SetJob, Proceed, work
<1>16. CASE AddHost(w) \/ DeleteHost(w) \/ Reload(w) \/ Upsert(w) \/ Remove(w)
    BY <1>6, <1>16
    DEF AddHost, DeleteHost, Reload, Upsert, Remove, Try, Proceed, Collect, Finish, work
<1>17. CASE DeleteRoute(w) \/ DeletePolicy(w) \/ Flag(w)
    BY <1>6, <1>17
    DEF DeleteRoute, DeletePolicy, Flag, TryCaddy, Try, RouteFails, Proceed, Collect, Finish, work
<1>18. CASE RouteAdded(w)
  <2>1. ask[w].op = "provision" /\ ask'[w] = ask[w]
      BY <1>18 DEF RouteAdded, TryCaddy, Try, RouteFails, Proceed, Collect, Finish, work
  <2> QED
      BY <2>1 DEF Replayed
<1>19. CASE RestartAdded(w)
    BY <1>6, <1>19 DEF RestartAdded, TryRestart, RouteFails, Proceed, Collect, Finish, work
<1>20. CASE DialHangs(w) \/ DialBreaks(w)
  <2>1. UNCHANGED <<policy, route, table, ask, cur, todo, errs, trouble>>
      BY <1>20, DialSteps DEF outside, caddy
  <2>2. \/ ask[w].op = "provision"
        \/ pc[w] \in {"next", "hung"} /\ pc'[w] \in {"next", "hung"}
      BY <1>20, DialSteps
  <2> QED
      BY <2>1, <2>2 DEF Replayed, Installing, Ended, Recorded
<1> QED
    BY <1>4, <1>5, <1>7, <1>8, <1>10, <1>11, <1>12, <1>13, <1>14, <1>15, <1>16, <1>17, <1>18,
       <1>19, <1>20 DEF Moves, Step

(***************************************************************************)
(* What a request promises                                                 *)
(***************************************************************************)

(* As long as a request is under way, what it asks for stays, and no       *)
(* remark about it gets lost.                                              *)
LEMMA Remembers ==
    ASSUME Typed, [Next]_vars, NEW x \in Workers, pc[x] # "idle", pc'[x] # "idle"
    PROVE  ask'[x] = ask[x] /\ trouble[x] \subseteq trouble'[x]
<1>1. DOMAIN trouble = Workers /\ pc \in [Workers -> Labels]
    BY DEF Typed, TypeOK
<1>2. ASSUME NEW w \in Workers, Moves(w), w # x
      PROVE  ask'[x] = ask[x] /\ trouble[x] \subseteq trouble'[x]
    BY <1>2, OthersIdle DEF Idles
<1>3. ASSUME Moves(x)
      PROVE  ask'[x] = ask[x] /\ trouble[x] \subseteq trouble'[x]
  <2>1. ~ Accept(x) /\ ~ Respond(x)
      BY <1>1 DEF Accept, Respond, Goto
  <2>2. UNCHANGED trouble \/ Note(x, "fault") \/ Note(x, "lookup")
      BY <1>3, <2>1
      DEF Moves, Step, FindFails, FindToProvision, FindToDeprovision, AddHost, FindFile,
          DeleteHost, Reload, Flag, Policy, Automate, RouteAdded, RouteReplayed, RestartAdded,
          DeleteRoute, DeletePolicy, Upsert, Remove, Load, NextRecord, RestartReplayed,
          ReplayEnds, DialHangs, DialBreaks, TryCaddy, TryRestart, Try
  <2>3. UNCHANGED ask
      BY <1>3, <2>1
      DEF Moves, Step, FindFails, FindToProvision, FindToDeprovision, AddHost, FindFile,
          DeleteHost, Reload, Flag, Policy, Automate, RouteAdded, RouteReplayed, RestartAdded,
          DeleteRoute, DeletePolicy, Upsert, Remove, Load, NextRecord, RestartReplayed,
          ReplayEnds, DialHangs, DialBreaks, TryCaddy, TryRestart, Try, RouteFails, SetJob,
          Proceed, Collect, Finish, work
  <2> QED
      BY <1>1, <2>2, <2>3 DEF Note
<1>4. CASE (\E v \in VMIDs : Churn(v)) \/ (\E n \in Nodes : NodeUp(n)) \/ UNCHANGED vars
    BY <1>4, OwnerSpares DEF Idles
<1>5. CASE \E n \in Nodes : NodeReset(n)
    BY <1>5 DEF NodeReset, work
<1>6. CASE Crash
    BY <1>6 DEF Crash
<1> QED
    BY <1>2, <1>3, <1>4, <1>5, <1>6 DEF Next, Moves

(* Only Accept sets a worker to work.                                      *)
LEMMA Wakes ==
    ASSUME Typed, [Next]_vars, NEW w \in Workers, pc[w] = "idle", pc'[w] # "idle"
    PROVE  Accept(w)
<1>1. ASSUME NEW x \in Workers, Moves(x), x # w
      PROVE  FALSE
    BY <1>1, OthersIdle DEF Idles
<1>2. ~ Step(w) /\ ~ DialHangs(w) /\ ~ DialBreaks(w)
    BY DEF Step, FindFails, FindToProvision, FindToDeprovision, AddHost, FindFile, DeleteHost,
           Reload, Flag, Policy, Automate, RouteAdded, RouteReplayed, RestartAdded, DeleteRoute,
           DeletePolicy, Upsert, Remove, Load, NextRecord, RestartReplayed, ReplayEnds, Respond,
           DialHangs, DialBreaks, Awaits
<1>3. CASE \/ \E v \in VMIDs : Churn(v)
           \/ \E n \in Nodes : NodeUp(n) \/ NodeReset(n)
           \/ Crash
           \/ UNCHANGED vars
    BY <1>3 DEF Churn, NodeUp, NodeReset, Crash, vars
<1> QED
    BY <1>1, <1>2, <1>3 DEF Next, Moves

(* Whenever two requests meet over a container, the later of them to come  *)
(* leaves the remark with both.                                            *)
LEMMA NoticedKept == Typed /\ Noticed /\ [Next]_vars => Noticed'
<1> SUFFICES ASSUME Typed, Noticed, [Next]_vars, NEW w \in Workers, NEW x \in Workers, w # x,
                    pc'[w] # "idle", pc'[x] # "idle", Unrivalled(x)',
                    Concerns(ask'[w]) \cap Concerns(ask'[x]) # {}
             PROVE  FALSE
    BY DEF Noticed, Concerns, Sightings
<1>1. DOMAIN ask = Workers /\ pc \in [Workers -> Labels]
    BY DEF Typed, TypeOK
<1>2. CASE pc[w] # "idle" /\ pc[x] # "idle"
  <2>1. ask'[w] = ask[w] /\ ask'[x] = ask[x] /\ Unrivalled(x)
      BY <1>2, Remembers DEF Unrivalled
  <2> QED
      BY <1>2, <2>1 DEF Noticed
<1>3. CASE pc[w] = "idle"
  <2>1. Accept(w)
      BY <1>3, Wakes
  <2>2. PICK r \in Asks[w] :
          /\ ask' = [ask EXCEPT ![w] = r]
          /\ trouble' = [y \in Workers |->
                IF y \in Rivals(w, r) \/ (y = w /\ Rivals(w, r) # {})
                THEN trouble[y] \cup {"other"} ELSE trouble[y]]
      BY <2>1 DEF Accept
  <2>3. pc[x] # "idle" /\ ask'[x] = ask[x] /\ ask'[w] = r
      BY <1>1, <2>1, <2>2 DEF Accept, Goto
  <2>4. x \in Rivals(w, r)
      BY <2>3 DEF Rivals
  <2> QED
      BY <2>2, <2>4 DEF Unrivalled
<1>4. CASE pc[x] = "idle"
  <2>1. Accept(x)
      BY <1>4, Wakes
  <2>2. PICK r \in Asks[x] :
          /\ ask' = [ask EXCEPT ![x] = r]
          /\ trouble' = [y \in Workers |->
                IF y \in Rivals(x, r) \/ (y = x /\ Rivals(x, r) # {})
                THEN trouble[y] \cup {"other"} ELSE trouble[y]]
      BY <2>1 DEF Accept
  <2>3. pc[w] # "idle" /\ ask'[w] = ask[w] /\ ask'[x] = r
      BY <1>1, <2>1, <2>2 DEF Accept, Goto
  <2>4. w \in Rivals(x, r)
      BY <2>3 DEF Rivals
  <2> QED
      BY <2>2, <2>4 DEF Unrivalled
<1> QED
    BY <1>2, <1>3, <1>4

(* A worker that has nothing to do promises nothing.                       *)
LEMMA IdleHolds ==
    ASSUME NEW x \in Workers, pc[x] = "idle"
    PROVE  Holds(x) /\ Unlisted(x)
BY DEF Holds, Provisioned, Deprovisioned, Unlisted, Replayed, HasJob, Busy, Ok, Installing, Ended

(* Any step, of this request, another or outside, keeps what the request   *)
(* promises as long as no rival shows up.  The host entries a Deprovision  *)
(* leaves are a promise apart, as it needs OneFile too.                    *)
Keeps(x) ==
    /\ Fresh(x)'
    /\ Unrivalled(x)' => Holds(x)'
    /\ OneFile /\ (Unrivalled(x) => Unlisted(x)) => (Unrivalled(x)' => Unlisted(x)')

LEMMA StepKeeps ==
    ASSUME Typed, Noticed, [Next]_vars, NEW x \in Workers,
           Fresh(x), Unrivalled(x) => Holds(x)
    PROVE  Keeps(x)
<1>1. Fresh(x)'
  <2>1. ASSUME NEW w \in Workers, Moves(w)
        PROVE  Fresh(x)'
      BY <2>1, FreshSteps, OthersIdle DEF Idles, Fresh, Ok
  <2>2. CASE (\E v \in VMIDs : Churn(v)) \/ (\E n \in Nodes : NodeUp(n)) \/ UNCHANGED vars
      BY <2>2, OwnerSpares DEF Idles, Fresh, Ok
  <2>3. CASE \E n \in Nodes : NodeReset(n)
      BY <2>3, ResetKeeps
  <2>4. CASE Crash
      BY <2>4 DEF Crash, Fresh
  <2> QED
      BY <2>1, <2>2, <2>3, <2>4 DEF Next, Moves
<1>2. CASE pc'[x] = "idle"
  <2>1. (Holds(x) /\ Unlisted(x))'
      BY <1>2 DEF Holds, Provisioned, Deprovisioned, Unlisted, Replayed, HasJob, Busy, Ok,
                  Installing, Ended
  <2> QED
      BY <1>1, <2>1 DEF Keeps
<1>3. CASE pc'[x] # "idle"
  <2> SUFFICES ASSUME Unrivalled(x)'
               PROVE  Holds(x)' /\ (OneFile /\ (Unrivalled(x) => Unlisted(x)) => Unlisted(x)')
      BY <1>1 DEF Keeps
  <2> DEFINE kept == Holds(x)' /\ (OneFile /\ Unlisted(x) => Unlisted(x)')
  <2>1. pc[x] # "idle" => Unrivalled(x)
      BY <1>3, Remembers DEF Unrivalled
  <2>2. Holds(x) /\ (pc[x] = "idle" => Unlisted(x))
      BY <2>1, IdleHolds
  <2>3. ASSUME Moves(x)
        PROVE  kept
      BY <2>2, <2>3, ProvisionSteps, DeprovisionSteps, UnlistedSteps, ReplaySteps DEF Holds
  <2>4. ASSUME NEW w \in Workers, Moves(w), w # x
        PROVE  kept
    <3>1. Idles(x) /\ Effect(w)
        BY <2>4, OthersIdle, StepEffect
    <3>2. Unrivalled(x)
        BY <3>1 DEF Idles, Unrivalled
    <3> QED
        BY <2>2, <2>4, <3>1, <3>2, OthersSpared, SparedKeeps DEF Holds
  <2>5. CASE (\E v \in VMIDs : Churn(v)) \/ (\E n \in Nodes : NodeUp(n)) \/ UNCHANGED vars
    <3>1. Idles(x) /\ Spares(x)
        BY <2>5, OwnerSpares
    <3> QED
        BY <2>1, <2>2, <3>1, SparedKeeps DEF Holds
  <2>6. CASE \E n \in Nodes : NodeReset(n)
    <3>1. PICK n \in Nodes : NodeReset(n)
        BY <2>6
    <3> QED
        BY <2>1, <2>2, <3>1, ResetKeeps DEF Holds
  <2>7. CASE Crash
      BY <1>3, <2>7 DEF Crash
  <2>8. kept
      BY <2>3, <2>4, <2>5, <2>6, <2>7 DEF Next, Moves
  <2> QED
      BY <2>1, <2>2, <2>8
<1> QED
    BY <1>2, <1>3

(* Before the first request there is nothing to promise.                   *)
LEMMA InitPromised == Init => IInv /\ \A w \in Workers : Unlisted(w)
<1> SUFFICES ASSUME Init PROVE IInv /\ \A w \in Workers : Unlisted(w)
    OBVIOUS
<1>1. \A w \in Workers : pc[w] = "idle" /\ errs[w] = {}
    BY DEF Init
<1>2. Promised /\ \A w \in Workers : Unlisted(w)
    BY <1>1, IdleHolds DEF Promised, Fresh
<1> QED
    BY <1>1, <1>2, InitTyped DEF IInv, Noticed

(* The invariant is inductive, whatever requests meet.                     *)
LEMMA Inductive == IInv /\ [Next]_vars => IInv'
<1> SUFFICES ASSUME IInv, [Next]_vars PROVE IInv'
    OBVIOUS
<1>1. Typed' /\ Noticed'
    BY TypedKept, NoticedKept DEF IInv
<1>2. Promised'
    BY StepKeeps DEF IInv, Promised, Keeps
<1> QED
    BY <1>1, <1>2 DEF IInv

LEMMA IInvAlways == Spec => []IInv
<1>1. Init => IInv
    BY InitPromised
<1> QED
    BY <1>1, Inductive, PTL DEF Spec

(* The host entries, where a MAC has one file.                             *)
LEMMA UnlistedAlways ==
    OneFile /\ Spec => [](\A w \in Workers : Unrivalled(w) => Unlisted(w))
<1> DEFINE inv == \A w \in Workers : Unrivalled(w) => Unlisted(w)
<1> SUFFICES ASSUME OneFile PROVE Spec => []inv
    OBVIOUS
<1>1. Init => inv
    BY InitPromised
<1>2. IInv /\ inv /\ [Next]_vars => inv'
    BY StepKeeps DEF IInv, Promised, Keeps
<1> QED
    BY <1>1, <1>2, IInvAlways, PTL DEF Spec

(* A Provision that answers 200 has done what it was asked to, whatever    *)
(* crashed requests, faults and the owner did before and meanwhile, if no  *)
(* other request for its container was under way at any time of it         *)
(* (engine.go:140-171).                                                    *)
THEOREM ProvisionKeepsItsWord == Spec => []ProvisionOk
<1>1. IInv => ProvisionOk
  <2> SUFFICES ASSUME IInv, NEW w \in Workers, Answered(w, "provision"), result[w] = "ok",
                      Unrivalled(w)
               PROVE  /\ Host(ask[w].mac, cur[w]) \in hosts
                      /\ Routable(w) /\ "reset" \notin trouble[w] =>
                            /\ policy[cur[w].id] = cur[w].conf
                            /\ route[cur[w].id] = cur[w].conf
                            /\ ~ localCerts[Node(w)]
      BY DEF ProvisionOk, Unspoilt
  <2>1. Provisioned(w) /\ pc[w] = "done" /\ ask[w].op = "provision" /\ Ok(w) /\ HasJob(w)
      BY DEF IInv, Promised, Holds, Answered, Ok, HasJob
  <2> QED
      BY <2>1 DEF Provisioned, Past
<1> QED
    BY <1>1, IInvAlways, PTL

(* A Provision that meets neither a fault nor another request for its      *)
(* container makes good what failed or crashed ones left undone, so that   *)
(* asking again is a remedy (engine.go:111-171).                           *)
THEOREM ProvisionMakesGood == Spec => []ProvisionHeals
<1>1. IInv => ProvisionHeals
  <2> SUFFICES ASSUME IInv, NEW w \in Workers, Answered(w, "provision"), trouble[w] = {},
                      result[w] \notin {"notFound", "badRequest"}
               PROVE  /\ result[w] = "ok"
                      /\ Host(ask[w].mac, cur[w]) \in loaded
                      /\ Routable(w) => table[cur[w].id] = cur[w].conf
      BY DEF ProvisionHeals
  <2>1. Provisioned(w) /\ pc[w] = "done" /\ ask[w].op = "provision"
      BY DEF IInv, Promised, Holds, Unrivalled, Answered
  <2>2. result[w] = "ok" /\ Ok(w)
      BY <2>1 DEF Provisioned, Ok
  <2> QED
      BY <2>1, <2>2 DEF Provisioned, Past
<1> QED
    BY <1>1, IInvAlways, PTL

(* A Deprovision that answers 200, and that no other request for its       *)
(* container overlapped, has left no route, policy, record or host entry   *)
(* of it (engine.go:174-208): where a MAC has one file, the entry          *)
(* FindFileByMAC names is the only one there is.                           *)
THEOREM DeprovisionKeepsItsWord == OneFile /\ Spec => []DeprovisionOk
<1>1. IInv /\ (\A w \in Workers : Unrivalled(w) => Unlisted(w)) => DeprovisionOk
  <2> SUFFICES ASSUME IInv, NEW w \in Workers, Unlisted(w), Answered(w, "deprovision"),
                      result[w] = "ok", Unrivalled(w)
               PROVE  /\ Gone(cur[w].id)
                      /\ "lookup" \in trouble[w] \/ \A h \in hosts : h.mac # ask[w].mac
      BY DEF DeprovisionOk
  <2>1. Deprovisioned(w) /\ pc[w] = "done" /\ ask[w].op = "deprovision" /\ Ok(w) /\ HasJob(w)
      BY DEF IInv, Promised, Holds, Answered, Ok, HasJob
  <2>2. errs[w] = {}
      BY <2>1 DEF IInv, Promised, Fresh
  <2> QED
      BY <2>1, <2>2 DEF Deprovisioned, Unlisted, Gone
<1> QED
    BY <1>1, IInvAlways, UnlistedAlways, PTL

(* A ReplayCaddy that comes to its end, with nothing else asked for        *)
(* meanwhile, has installed every record but those it lists an error for:  *)
(* one failure does not stop it (engine.go:218-258).                       *)
THEOREM ReplayKeepsItsWord == Spec => []ReplayOk
<1>1. IInv => ReplayOk
  <2> SUFFICES ASSUME IInv, NEW w \in Workers, Answered(w, "replay"),
                      result[w] \in {"ok", "partial"}, Unspoilt(w), NEW id \in Recorded
               PROVE  \/ result[w] = "partial" /\ id \in errs[w]
                      \/ route[id] = table[id] /\ policy[id] = table[id]
      BY DEF ReplayOk
  <2>1. Replayed(w) /\ Ended(w) /\ ask[w].op = "replay" /\ ~ Installing(w)
      BY DEF IInv, Promised, Holds, Unspoilt, Answered, Ended, Installing
  <2>2. result[w] = "ok" => errs[w] = {}
      BY <2>1 DEF IInv, Promised, Fresh, Ok, Ended
  <2> QED
      BY <2>1, <2>2 DEF Replayed, Unspoilt
<1> QED
    BY <1>1, IInvAlways, PTL

(* A record is written when Caddy holds its route and policy and never     *)
(* before (engine.go:152-167), so that no crash leaves one for a replay    *)
(* to install that Provision had not; a request that meets another for the *)
(* container, or a reset of the node, is excepted.                         *)
THEOREM RecordComesLast == Spec => RecordedAsRouted
<1> DEFINE backed == \A id \in Ids :
                        table'[id] \notin {table[id], None} =>
                          \/ route[id] = table'[id] /\ policy[id] = table'[id]
                          \/ \E w \in Workers : pc[w] = "upsert" /\ ~ Unspoilt(w)
<1>1. IInv /\ [Next]_vars => [backed]_vars
  <2> SUFFICES ASSUME IInv, [Next]_vars, NEW id \in Ids, table'[id] \notin {table[id], None}
               PROVE  \/ route[id] = table'[id] /\ policy[id] = table'[id]
                      \/ \E w \in Workers : pc[w] = "upsert" /\ ~ Unspoilt(w)
      OBVIOUS
  <2>1. table' # table
      OBVIOUS
  <2>2. PICK w \in Workers : Moves(w)
      BY <2>1 DEF Next, Moves, Churn, NodeUp, NodeReset, Crash, vars, outside
  <2>3. TableEffect(w)
      BY <2>1, <2>2, StepEffect DEF IInv, Effect, outside
  <2>4. DOMAIN table = Ids
      BY DEF IInv, Typed, TypeOK
  <2>5. /\ pc[w] = "upsert" /\ cur[w].id = id /\ table'[id] = cur[w].conf
      BY <2>3, <2>4 DEF TableEffect
  <2>6. ask[w].op = "provision" /\ (Unspoilt(w) => Provisioned(w))
      BY <2>5 DEF IInv, Promised, Holds, Unspoilt, Typed, Stages, Serves
  <2> QED
      BY <2>5, <2>6 DEF Provisioned, Past, Unspoilt
<1> QED
    BY <1>1, IInvAlways, PTL DEF Spec, RecordedAsRouted

(***************************************************************************)
(* One key for each container                                              *)
(***************************************************************************)

Listed(id) == id[2] \in Listing[id[1]]

Replaying(w) == (pc[w] \in {"next", "hung"} \/ Installing(w)) /\ ask[w].op = "replay"

(* What is installed or recorded is named after a node that lists the      *)
(* container, and a replay works on such names only.                       *)
Named ==
    /\ \A id \in Ids :
          policy[id] # None \/ route[id] # None \/ table[id] # None => Listed(id)
    /\ \A w \in Workers : Replaying(w) =>
          /\ \A r \in todo[w] : Listed(r.id)
          /\ Installing(w) => Listed(cur[w].id)

(* The answer to FindFileByMAC gets lost only where it may.                *)
Warned == "findFile" \notin Faults => \A w \in Workers : "lookup" \notin trouble[w]

(* A request works on a name under which the container is listed, or was   *)
(* when it was recorded.                                                   *)
LEMMA JobListed ==
    ASSUME Typed, Named, NEW w \in Workers, HasJob(w)
    PROVE  Listed(cur[w].id)
<1>1. /\ pc[w] \in Labels /\ pc[w] # "idle" /\ Serves(pc[w], ask[w].op)
      /\ ask[w].op = "replay" => Busy(w)
    BY DEF HasJob, Busy, Ok, Typed, TypeOK, Stages
<1>2. CASE ask[w].op = "replay"
  <2>1. Replaying(w) /\ Installing(w)
      BY <1>1, <1>2 DEF Replaying, Installing, Busy, Serves, Labels
  <2> QED
      BY <2>1 DEF Named
<1>3. CASE ask[w].op # "replay"
  <2>1. cur[w].id \in {s[1] : s \in Sightings(ask[w].mac)}
      BY <1>3 DEF Typed, Stages, Concerns
  <2>2. \A s \in Sightings(ask[w].mac) : Listed(s[1])
      BY DEF Sightings, Listed
  <2> QED
      BY <2>1, <2>2
<1> QED
    BY <1>2, <1>3

(* A replay takes its work from the state file and from nowhere else       *)
(* (engine.go:219-237).                                                    *)
LEMMA ReplayWork ==
    ASSUME Typed, NEW w \in Workers, Moves(w), Replaying(w)'
    PROVE  \/ pc'[w] = "next" /\ \A r \in todo'[w] : r.id \in Recorded
           \/ /\ Replaying(w)
              /\ todo'[w] \subseteq todo[w]
              /\ Installing(w)' => cur'[w] \in todo[w] \/ (Installing(w) /\ cur'[w] = cur[w])
<1>1. /\ pc \in [Workers -> Labels] /\ DOMAIN ask = Workers /\ DOMAIN cur = Workers
      /\ todo \in [Workers -> SUBSET Jobs]
    BY DEF Typed, TypeOK
<1>2. pc[w] # "idle" => Serves(pc[w], ask[w].op)
    BY DEF Typed, Stages
<1>3. pc'[w] \in {"next", "hung", "policy", "automate", "route"} /\ ask'[w].op = "replay"
    BY DEF Replaying, Installing
<1>4. CASE Accept(w) \/ Respond(w)
  <2>1. pc'[w] \in {"load", "find", "idle"}
      BY <1>1, <1>4 DEF Accept, Respond, Goto
  <2> QED
      BY <1>3, <2>1
<1>5. CASE Load(w)
  <2>1. todo' = [todo EXCEPT ![w] =
                    {[id |-> id, conf |-> table[id], file |-> None] : id \in Recorded}]
      BY <1>1, <1>3, <1>5 DEF Load, Finish, Goto
  <2>2. pc'[w] = "next"
      BY <1>1, <1>3, <1>5 DEF Load, Finish, Goto
  <2> QED
      BY <1>1, <2>1, <2>2
<1>6. CASE NextRecord(w)
  <2>1. PICK r \in todo[w] : cur'[w] = r /\ todo'[w] = todo[w] \ {r}
      BY <1>1, <1>6 DEF NextRecord
  <2> QED
      BY <1>3, <1>6, <2>1 DEF NextRecord, Replaying
<1>7. CASE Policy(w) \/ Automate(w) \/ RouteReplayed(w)
  <2>1. UNCHANGED <<ask, cur, todo>> /\ pc[w] \in {"policy", "automate", "route"}
      BY <1>7
      DEF Policy, Automate, RouteReplayed, TryCaddy, Try, RouteFails, Proceed, Collect, Finish,
          work
  <2> QED
      BY <1>3, <2>1 DEF Replaying, Installing
<1>8. CASE RestartReplayed(w)
  <2>1. UNCHANGED <<pc, ask, cur, todo>> /\ pc[w] = "next"
      BY <1>8 DEF RestartReplayed, TryRestart
  <2> QED
      BY <1>3, <2>1 DEF Replaying, Installing
<1>9. CASE ReplayEnds(w) \/ Reload(w) \/ FindFails(w)
  <2>1. pc'[w] = "done"
      BY <1>1, <1>9 DEF ReplayEnds, Reload, FindFails, Try, Finish, Goto
  <2> QED
      BY <1>3, <2>1
<1>10. CASE \/ FindToProvision(w) \/ FindToDeprovision(w) \/ FindFile(w) \/ AddHost(w)
            \/ DeleteHost(w) \/ DeleteRoute(w) \/ DeletePolicy(w) \/ Remove(w) \/ Upsert(w)
  <2>1. pc'[w] \in {"done", "addHost", "deleteRoute", "deleteHost", "reload", "flag",
                    "deletePolicy", "remove", "findFile"}
      BY <1>1, <1>10
      DEF FindToProvision, FindToDeprovision, FindFile, AddHost, DeleteHost, DeleteRoute,
          DeletePolicy, Remove, Upsert, TryCaddy, Try, Proceed, Collect, Finish, Goto
  <2> QED
      BY <1>3, <2>1
<1>11. CASE Flag(w) \/ RouteAdded(w) \/ RestartAdded(w)
  <2>1. ask'[w] = ask[w]
      BY <1>11
      DEF Flag, RouteAdded, RestartAdded, TryCaddy, TryRestart, Try, RouteFails, Proceed,
          Collect, Finish, work
  <2>2. ask[w].op = "provision"
      BY <1>2, <1>11 DEF Flag, RouteAdded, RestartAdded, Serves
  <2> QED
      BY <1>3, <2>1, <2>2
<1>12. CASE DialHangs(w) \/ DialBreaks(w)
  <2>1. UNCHANGED <<ask, cur, todo>>
      BY <1>12, DialSteps
  <2>2. \/ ask[w].op = "provision"
        \/ pc[w] \in {"next", "hung"} /\ pc'[w] \in {"next", "hung"}
      BY <1>12, DialSteps
  <2> QED
      BY <1>3, <2>1, <2>2 DEF Replaying, Installing
<1> QED
    BY <1>4, <1>5, <1>6, <1>7, <1>8, <1>9, <1>10, <1>11, <1>12 DEF Moves, Step

(* Nothing is installed or recorded under any other name                   *)
(* (engine.go:151-167, 229-237).                                           *)
LEMMA EffectNamed ==
    ASSUME Typed, Named, NEW w \in Workers, Effect(w), NEW id \in Ids,
           policy'[id] # None \/ route'[id] # None \/ table'[id] # None
    PROVE  Listed(id)
<1>1. DOMAIN policy = Ids /\ DOMAIN route = Ids /\ DOMAIN table = Ids
    BY DEF Typed, TypeOK
<1>2. CASE policy[id] # None \/ route[id] # None \/ table[id] # None
    BY <1>2 DEF Named
<1>3. CASE policy[id] = None /\ route[id] = None /\ table[id] = None
  <2>1. Busy(w) /\ cur[w].id = id
      BY <1>1, <1>3
      DEF Effect, CaddyEffect, TableEffect, InstallRoute, Busy, outside, caddy, panel
  <2> QED
      BY <2>1, JobListed DEF HasJob
<1> QED
    BY <1>2, <1>3

(* This needs no assumption about other requests.                          *)
LEMMA NamedKept == Typed /\ Named /\ [Next]_vars => Named'
<1> SUFFICES ASSUME Typed, Named, [Next]_vars PROVE Named'
    OBVIOUS
<1>1. ASSUME NEW w \in Workers, Moves(w)
      PROVE  Named'
  <2>1. Effect(w)
      BY <1>1, StepEffect
  <2>2. ASSUME NEW x \in Workers, Replaying(x)'
        PROVE  /\ \A r \in todo'[x] : Listed(r.id)
               /\ Installing(x)' => Listed(cur'[x].id)
    <3>1. CASE x # w
      <4>1. Idles(x)
          BY <1>1, <3>1, OthersIdle
      <4> QED
          BY <2>2, <4>1 DEF Named, Idles, Replaying, Installing
    <3>2. CASE x = w
      <4>1. \A id \in Recorded : Listed(id)
          BY DEF Recorded, Named
      <4> QED
          BY <1>1, <2>2, <3>2, <4>1, ReplayWork DEF Named, Installing
    <3> QED
        BY <3>1, <3>2
  <2> QED
      BY <2>1, <2>2, EffectNamed DEF Named
<1>2. CASE (\E v \in VMIDs : Churn(v)) \/ (\E n \in Nodes : NodeUp(n)) \/ UNCHANGED vars
  <2>1. UNCHANGED <<policy, route, table, pc, ask, cur, todo>>
      BY <1>2 DEF Churn, NodeUp, caddy, work, outside, vars
  <2> QED
      BY <2>1 DEF Named, Replaying, Installing
<1>3. ASSUME NEW n \in Nodes, NodeReset(n)
      PROVE  Named'
  <2>1. /\ UNCHANGED <<table, pc, ask, cur, todo>>
        /\ \A id \in Ids : /\ policy'[id] \in {None, policy[id]}
                           /\ route'[id] \in {None, route[id]}
      BY <1>3 DEF NodeReset, work
  <2> QED
      BY <2>1 DEF Named, Replaying, Installing
<1>4. CASE Crash
  <2>1. UNCHANGED <<policy, route, table>> /\ \A x \in Workers : pc'[x] = "idle"
      BY <1>4 DEF Crash, outside, caddy
  <2> QED
      BY <2>1 DEF Named, Replaying, Installing
<1> QED
    BY <1>1, <1>2, <1>3, <1>4 DEF Next, Moves

(* Only a failing FindFileByMAC leaves the remark that it failed           *)
(* (engine.go:194-200).                                                    *)
LEMMA WarnedKept == Typed /\ Warned /\ [Next]_vars => Warned'
<1> SUFFICES ASSUME Typed, Warned, [Next]_vars, "findFile" \notin Faults, NEW x \in Workers
             PROVE  "lookup" \notin trouble'[x]
    BY DEF Warned
<1>1. "lookup" \notin trouble[x] /\ DOMAIN trouble = Workers
    BY DEF Warned, Typed, TypeOK
<1>2. ASSUME NEW w \in Workers, Moves(w)
      PROVE  "lookup" \notin trouble'[x]
  <2>1. UNCHANGED trouble \/ Note(w, "fault") \/ Respond(w) \/ Accept(w)
      BY <1>2
      DEF Moves, DialHangs, DialBreaks, Step, FindFails, FindToProvision, FindToDeprovision, AddHost, FindFile,
          DeleteHost, Reload, Flag, Policy, Automate, RouteAdded, RouteReplayed, RestartAdded,
          DeleteRoute, DeletePolicy, Upsert, Remove, Load, NextRecord, RestartReplayed,
          ReplayEnds, TryCaddy, TryRestart, Try
  <2> QED
      BY <1>1, <2>1 DEF Note, Respond, Reset1, Accept
<1>3. CASE (\E v \in VMIDs : Churn(v)) \/ (\E n \in Nodes : NodeUp(n)) \/ UNCHANGED vars
    BY <1>1, <1>3 DEF Churn, NodeUp, vars
<1>4. CASE Crash \/ \E n \in Nodes : NodeReset(n)
    BY <1>1, <1>4 DEF Crash, NodeReset
<1> QED
    BY <1>2, <1>3, <1>4 DEF Next, Moves

(* Names and remarks are right in every behaviour.                         *)
LEMMA NamedAlways == Spec => [](Named /\ Warned)
<1>1. Init => Named /\ Warned
    BY DEF Init, Named, Warned, Replaying, Installing
<1> QED
    BY <1>1, InitTyped, TypedKept, NamedKept, WarnedKept, PTL DEF Spec

(* Where a container is listed under one key, its MAC has one host file    *)
(* and the panel can always be asked, a Deprovision that answers 200 does  *)
(* what FEATURES.md:67-68 says unless another request that may concern the *)
(* container overlapped it: it leaves nothing of the container, under any  *)
(* key and in any file.                                                    *)
THEOREM NothingIsLeft ==
    OneKey /\ OneFile /\ "findFile" \notin Faults /\ Spec => []DeprovisionClears
<1> SUFFICES ASSUME OneKey, OneFile, "findFile" \notin Faults
             PROVE  Spec => []DeprovisionClears
    OBVIOUS
<1>1. IInv /\ Named /\ Warned /\ DeprovisionOk => DeprovisionClears
  <2> SUFFICES ASSUME IInv, Named, Warned, DeprovisionOk, NEW w \in Workers,
                      Answered(w, "deprovision"), result[w] = "ok", Unrivalled(w)
               PROVE  Erased(w)
      BY DEF DeprovisionClears
  <2>1. HasJob(w)
      BY DEF Answered, HasJob, Ok
  <2>2. cur[w].id \in Ids /\ Listed(cur[w].id)
      BY <2>1, JobListed DEF IInv, Typed, Stages
  <2>3. Gone(cur[w].id) /\ \A h \in hosts : h.mac # ask[w].mac
      BY DEF DeprovisionOk, Warned
  <2>4. ASSUME NEW n \in Nodes
        PROVE  Gone(<<cur[w].id[1], n>>)
    <3> DEFINE id == <<cur[w].id[1], n>>
    <3>1. id \in Ids /\ id[1] = cur[w].id[1] /\ id[2] = n /\ cur[w].id[1] \in VMIDs
        BY <2>2 DEF Ids
    <3>2. CASE Listed(id)
      <4>1. n = cur[w].id[2]
          BY <2>2, <3>1, <3>2 DEF Listed, OneKey
      <4>2. id = cur[w].id
          BY <2>2, <4>1 DEF Ids
      <4> QED
          BY <2>3, <4>2
    <3>3. CASE ~ Listed(id)
        BY <3>1, <3>3 DEF Named, Gone
    <3> QED
        BY <3>2, <3>3
  <2> QED
      BY <2>3, <2>4 DEF Erased
<1>2. Spec => []DeprovisionOk
    BY DeprovisionKeepsItsWord
<1> QED
    BY <1>1, <1>2, IInvAlways, NamedAlways, PTL

=============================================================================
