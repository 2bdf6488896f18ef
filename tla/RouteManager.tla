---------------------------- MODULE RouteManager ----------------------------
(***************************************************************************)
(* The interface RouteManager (core/interfaces.go) as the engine relies on *)
(* it: a call changes no object but the policy and the route of its own    *)
(* identifier, each at once and in a fixed order, and says nil only when   *)
(* it has done all of it.  This is how Engine takes its calls to Caddy;    *)
(* CaddyClient implements it out of HTTP requests.                         *)
(***************************************************************************)
CONSTANTS
    Clients,
    Ids,
    Payloads

Calls == [kind : {"add", "replay", "delete", "restart"}, id : Ids, data : Payloads]

VARIABLES
    policy,      \* policy[id]: the TLS policy tls-<id>, {} or {its payload}
    route,       \* route[id]: the route proxy-<id>, likewise
    certsOff,    \* the internal CA is off
    at,          \* at[c]: what call c has to do next
    call,        \* call[c]: the call
    bad          \* bad[c]: a part of a delete has failed

node == <<policy, route, certsOff>>
vars == <<node, at, call, bad>>

Init ==
    /\ policy \in [Ids -> {{}} \cup {{d} : d \in Payloads}]
    /\ route \in [Ids -> {{}} \cup {{d} : d \in Payloads}]
    /\ certsOff = FALSE
    /\ at = [c \in Clients |-> "idle"]
    /\ call \in [Clients -> Calls]
    /\ bad = [c \in Clients |-> FALSE]

Goto(c, label) == at' = [at EXCEPT ![c] = label] /\ UNCHANGED <<call, bad>>

First == [add |-> "flag", replay |-> "policy", delete |-> "eraseRoute", restart |-> "stop"]

Invoke(c) ==
    /\ at[c] = "idle"
    /\ \E r \in Calls :
         /\ call' = [call EXCEPT ![c] = r]
         /\ at' = [at EXCEPT ![c] = First[r.kind]]
    /\ UNCHANGED <<node, bad>>

(* A call may give up before any part, except that a delete tries both;    *)
(* an effect whose answer is lost ends the call too.                       *)
GiveUp(c) ==
    /\ at[c] \in {"flag", "policy", "route", "stop"}
    /\ Goto(c, "error")
    /\ UNCHANGED node

TurnOff(c) ==
    /\ at[c] = "flag"
    /\ certsOff' = TRUE
    /\ \E label \in {"policy", "error"} : Goto(c, label)
    /\ UNCHANGED <<policy, route>>

(* An object created together with its parent is there before the upsert   *)
(* is over.                                                                *)
SetPolicy(c) ==
    /\ at[c] = "policy"
    /\ policy' = [policy EXCEPT ![call[c].id] = {call[c].data}]
    /\ \E label \in {"policy", "route", "error"} : Goto(c, label)
    /\ UNCHANGED <<route, certsOff>>

SetRoute(c) ==
    /\ at[c] = "route"
    /\ route' = [route EXCEPT ![call[c].id] = {call[c].data}]
    /\ \E label \in {"route", "error", IF call[c].kind = "add" THEN "stop" ELSE "ok"} :
          Goto(c, label)
    /\ UNCHANGED <<policy, certsOff>>

(* The restart changes neither object. *)
Stop(c) ==
    /\ at[c] = "stop"
    /\ Goto(c, "ok")
    /\ UNCHANGED node

EraseRoute(c) ==
    /\ at[c] = "eraseRoute"
    /\ at' = [at EXCEPT ![c] = "erasePolicy"]
    /\ \/ route' = [route EXCEPT ![call[c].id] = {}] /\ UNCHANGED bad
       \/ /\ route' \in {route, [route EXCEPT ![call[c].id] = {}]}
          /\ bad' = [bad EXCEPT ![c] = TRUE]
    /\ UNCHANGED <<policy, certsOff, call>>

ErasePolicy(c) ==
    /\ at[c] = "erasePolicy"
    /\ \/ /\ policy' = [policy EXCEPT ![call[c].id] = {}]
          /\ Goto(c, IF bad[c] THEN "error" ELSE "ok")
       \/ /\ policy' \in {policy, [policy EXCEPT ![call[c].id] = {}]}
          /\ Goto(c, "error")
    /\ UNCHANGED <<route, certsOff>>

Return(c) ==
    /\ at[c] \in {"ok", "error"}
    /\ at' = [at EXCEPT ![c] = "idle"]
    /\ call' \in {[call EXCEPT ![c] = r] : r \in Calls}
    /\ bad' = [bad EXCEPT ![c] = FALSE]
    /\ UNCHANGED node

Next == \E c \in Clients :
    \/ Invoke(c) \/ GiveUp(c) \/ TurnOff(c) \/ SetPolicy(c) \/ SetRoute(c)
    \/ Stop(c) \/ EraseRoute(c) \/ ErasePolicy(c) \/ Return(c)

Spec == Init /\ [][Next]_vars

=============================================================================
