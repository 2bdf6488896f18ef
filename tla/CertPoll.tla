------------------------------- MODULE CertPoll -------------------------------
(***************************************************************************)
(* WaitForCert and RestartCaddy of core/caddy.go, as AddRoute and          *)
(* Engine.ReplayCaddy use them on one node: install routes and policies,   *)
(* poll the TLS port until the certificate of the last domain is served,   *)
(* stop Caddy so that it starts again with the certificates on disk.       *)
(*                                                                         *)
(* Caddy's certificates are modelled as docs/INTERNALS.md ("Принудительный *)
(* перезапуск вместо мягкой перезагрузки") and the comments of AddRoute    *)
(* describe them: Caddy keeps a certificate of its internal CA in memory   *)
(* although one of the Step-CA has been written to disk, and reads the     *)
(* disk when it starts.  The requests that install routes are CaddyClient. *)
(***************************************************************************)
EXTENDS Naturals

CONSTANTS
    Clients,     \* AddRoute or ReplayCaddy calls at the same time
    Domains,
    Batches,     \* Batches[c]: the sets of domains a call of c may have
    MaxDials     \* bound: attempts that fit into maxWait

ASSUME CertAssumption ==
    /\ MaxDials \in Nat \ {0}
    /\ Domains # {}
    /\ Batches \in [Clients -> SUBSET ((SUBSET Domains) \ {{}})]

Certs == {"none", "internal", "step"}    \* nothing, Caddy's own CA, Step-CA

VARIABLES
    disk,        \* disk[d]: the Step-CA certificate on the node's disk
    memory,      \* memory[d]: the certificate Caddy serves
    ordered,     \* domains Caddy has been told to get a certificate for
    up,          \* FALSE from /stop until systemd has restarted Caddy
    pc,          \* the next step of each call
    todo,        \* todo[c]: domains still to be installed
    done,        \* done[c]: domains the call has installed
    last,        \* last[c]: the one installed last, which is polled for
    roots,       \* roots[c]: WaitForCert could read the CA file
    dials,       \* dials[c]: attempts so far
    matched,     \* matched[c]: WaitForCert has returned nil
    result,      \* result[c]: what the call returns
    lost         \* history: the /stop of the call has not reached the node

node == <<disk, memory, ordered, up>>
poll == <<last, roots, dials, matched>>
vars == <<node, pc, todo, done, poll, result, lost>>

Init ==
    /\ disk \in [Domains -> {"none", "step"}]
    /\ memory \in [Domains -> Certs]
    /\ \A d \in Domains : memory[d] = "step" => disk[d] = "step"
    /\ ordered = {}
    /\ up = TRUE
    /\ pc = [c \in Clients |-> "idle"]
    /\ todo = [c \in Clients |-> {}]
    /\ done = [c \in Clients |-> {}]
    /\ last \in [Clients -> {CHOOSE d \in Domains : TRUE}]
    /\ roots = [c \in Clients |-> TRUE]
    /\ dials = [c \in Clients |-> 0]
    /\ matched = [c \in Clients |-> FALSE]
    /\ result = [c \in Clients |-> "none"]
    /\ lost = [c \in Clients |-> FALSE]

Goto(c, label) == pc' = [pc EXCEPT ![c] = label]

(***************************************************************************)
(* Caddy and Step-CA                                                       *)
(***************************************************************************)

Served(d) == IF up THEN memory[d] ELSE "none"

(* Step-CA issues: the certificate goes to disk, and into memory unless    *)
(* one of the internal CA is there.                                        *)
Issue(d) ==
    /\ up
    /\ d \in ordered
    /\ disk[d] = "none" \/ memory[d] = "none"
    /\ disk' = [disk EXCEPT ![d] = "step"]
    /\ memory' = [memory EXCEPT ![d] = IF @ = "none" THEN "step" ELSE @]
    /\ UNCHANGED <<ordered, up, pc, todo, done, poll, result, lost>>

(* systemd starts Caddy again, which reads the disk. *)
NodeUp ==
    /\ ~ up
    /\ up' = TRUE
    /\ memory' = disk
    /\ UNCHANGED <<disk, ordered, pc, todo, done, poll, result, lost>>

(***************************************************************************)
(* AddRoute, which has one domain, and ReplayCaddy, which has several      *)
(***************************************************************************)

Begin(c) ==
    /\ pc[c] = "idle"
    /\ \E ds \in Batches[c] : todo' = [todo EXCEPT ![c] = ds]
    /\ Goto(c, "install")
    /\ UNCHANGED <<node, done, poll, result, lost>>

(* A bug: the domain is not added to those Caddy gets certificates for. *)
InstallUnordered(c) ==
    /\ pc[c] = "install"
    /\ up
    /\ \E d \in todo[c] :
         /\ todo' = [todo EXCEPT ![c] = @ \ {d}]
         /\ done' = [done EXCEPT ![c] = @ \cup {d}]
         /\ last' = [last EXCEPT ![c] = d]
         /\ Goto(c, IF todo[c] = {d} THEN "ca" ELSE "install")
    /\ UNCHANGED <<node, roots, dials, matched, result, lost>>

(* installRouteAndCert succeeds for one domain. *)
Install(c) ==
    /\ pc[c] = "install"
    /\ up
    /\ \E d \in todo[c] :
         /\ ordered' = ordered \cup {d}
         /\ todo' = [todo EXCEPT ![c] = @ \ {d}]
         /\ done' = [done EXCEPT ![c] = @ \cup {d}]
         /\ last' = [last EXCEPT ![c] = d]
         /\ Goto(c, IF todo[c] = {d} THEN "ca" ELSE "install")
    /\ UNCHANGED <<disk, memory, up, roots, dials, matched, result, lost>>

(* A bug: a node is polled and restarted for records it has not taken. *)
InstallFailsPolls(c) ==
    /\ pc[c] = "install"
    /\ \E d \in todo[c] :
         /\ todo' = [todo EXCEPT ![c] = @ \ {d}]
         /\ Goto(c, IF todo[c] # {d} THEN "install" ELSE "ca")
    /\ result' = [result EXCEPT ![c] = "error"]
    /\ UNCHANGED <<node, done, poll, lost>>

(* It fails: a replay takes the next record, and does without the poll and *)
(* the restart if it has none; AddRoute returns the error.                 *)
InstallFails(c) ==
    /\ pc[c] = "install"
    /\ \E d \in todo[c] :
         /\ todo' = [todo EXCEPT ![c] = @ \ {d}]
         /\ Goto(c, IF todo[c] # {d} THEN "install"
                    ELSE IF done[c] # {} THEN "ca" ELSE "end")
    /\ result' = [result EXCEPT ![c] = "error"]
    /\ UNCHANGED <<node, done, poll, lost>>

(* WaitForCert reads the CA file; without it only the name is checked. *)
ReadRoots(c) ==
    /\ pc[c] = "ca"
    /\ \E b \in BOOLEAN : roots' = [roots EXCEPT ![c] = b]
    /\ Goto(c, "poll")
    /\ UNCHANGED <<node, todo, done, last, dials, matched, result, lost>>

(* A bug: the pool of roots is never passed to the dialer. *)
AcceptsAnyName(c) == Served(last[c]) # "none"

(* The handshake succeeds and the leaf certificate has the name. *)
Accepts(c) ==
    IF roots[c] THEN Served(last[c]) = "step" ELSE Served(last[c]) # "none"

DialMatches(c) ==
    /\ pc[c] = "poll"
    /\ dials[c] < MaxDials
    /\ Accepts(c)
    /\ matched' = [matched EXCEPT ![c] = TRUE]
    /\ Goto(c, "stop")
    /\ UNCHANGED <<node, todo, done, last, roots, dials, result, lost>>

(* A bug: the deadline is set anew for each attempt. *)
DialFailsUncounted(c) ==
    /\ pc[c] = "poll"
    /\ dials[c] < MaxDials
    /\ ~ Accepts(c)
    /\ UNCHANGED vars

DialFails(c) ==
    /\ pc[c] = "poll"
    /\ dials[c] < MaxDials
    /\ ~ Accepts(c)
    /\ dials' = [dials EXCEPT ![c] = @ + 1]
    /\ UNCHANGED <<node, pc, todo, done, last, roots, matched, result, lost>>

(* tls.Dial has no timeout: the connection is made and the handshake is    *)
(* never answered.  The deadline is looked at between two dials only.      *)
DialHangs(c) ==
    /\ pc[c] = "poll"
    /\ dials[c] < MaxDials
    /\ up
    /\ Goto(c, "hung")
    /\ UNCHANGED <<node, todo, done, poll, result, lost>>

(* The connection breaks when Caddy goes down. *)
DialBreaks(c) ==
    /\ pc[c] = "hung"
    /\ ~ up
    /\ Goto(c, "poll")
    /\ dials' = [dials EXCEPT ![c] = @ + 1]
    /\ UNCHANGED <<node, todo, done, last, roots, matched, result, lost>>

(* A bug: a certificate that does not come makes the restart pointless. *)
DeadlineReturns(c) ==
    /\ pc[c] = "poll"
    /\ dials[c] = MaxDials
    /\ Goto(c, "end")
    /\ UNCHANGED <<node, todo, done, poll, result, lost>>

(* "cert poll failed, restarting anyway". *)
Deadline(c) ==
    /\ pc[c] = "poll"
    /\ dials[c] = MaxDials
    /\ Goto(c, "stop")
    /\ UNCHANGED <<node, todo, done, poll, result, lost>>

(* RestartCaddy: it stops; it is down anyway; the request is lost and      *)
(* taken for a restart; it is refused, which is an error.                  *)
Stop(c) ==
    /\ pc[c] = "stop"
    /\ Goto(c, "end")
    /\ \/ up' = FALSE /\ UNCHANGED <<result, lost>>
       \/ up /\ lost' = [lost EXCEPT ![c] = TRUE] /\ UNCHANGED <<up, result>>
       \/ up /\ result' = [result EXCEPT ![c] = "error"] /\ UNCHANGED <<up, lost>>
    /\ UNCHANGED <<disk, memory, ordered, todo, done, poll>>

Return(c) ==
    /\ pc[c] = "end"
    /\ Goto(c, "idle")
    /\ done' = [done EXCEPT ![c] = {}]
    /\ last' = [last EXCEPT ![c] = CHOOSE d \in Domains : TRUE]
    /\ roots' = [roots EXCEPT ![c] = TRUE]
    /\ dials' = [dials EXCEPT ![c] = 0]
    /\ matched' = [matched EXCEPT ![c] = FALSE]
    /\ result' = [result EXCEPT ![c] = "none"]
    /\ lost' = [lost EXCEPT ![c] = FALSE]
    /\ UNCHANGED <<node, todo>>

Step(c) ==
    \/ Install(c) \/ InstallFails(c) \/ ReadRoots(c)
    \/ DialMatches(c) \/ DialFails(c) \/ DialBreaks(c) \/ Deadline(c)
    \/ Stop(c) \/ Return(c)

Next ==
    \/ \E c \in Clients : Begin(c) \/ Step(c) \/ DialHangs(c)
    \/ \E d \in Domains : Issue(d)
    \/ NodeUp

Spec == Init /\ [][Next]_vars

(* A call goes on; systemd restarts Caddy; Caddy orders a certificate it   *)
(* has not got again after each start, and Step-CA issues it some day,     *)
(* however often Caddy is restarted in between.                            *)
FairSpec ==
    /\ Spec
    /\ \A c \in Clients : WF_vars(Step(c))
    /\ \A d \in Domains : SF_vars(Issue(d))
    /\ WF_vars(NodeUp)

(***************************************************************************)
(* Properties                                                              *)
(***************************************************************************)

(* Every variable has its type; a call that polls has installed something. *)
TypeOK ==
    /\ disk \in [Domains -> {"none", "step"}]
    /\ memory \in [Domains -> Certs]
    /\ ordered \subseteq Domains
    /\ up \in BOOLEAN
    /\ pc \in [Clients -> {"idle", "install", "ca", "poll", "hung", "stop", "end"}]
    /\ todo \in [Clients -> SUBSET Domains]
    /\ done \in [Clients -> SUBSET Domains]
    /\ last \in [Clients -> Domains]
    /\ roots \in [Clients -> BOOLEAN]
    /\ dials \in [Clients -> 0..MaxDials]
    /\ matched \in [Clients -> BOOLEAN]
    /\ result \in [Clients -> {"none", "error"}]
    /\ lost \in [Clients -> BOOLEAN]
    /\ \A c \in Clients : /\ pc[c] \in {"ca", "poll", "hung", "stop"} => last[c] \in done[c]
                          /\ pc[c] = "idle" => done[c] = {} /\ dials[c] = 0

(* When WaitForCert has been able to check against the CA and says that    *)
(* the certificate is there, it is one of the Step-CA and on disk, so that *)
(* the restart that follows cannot lose it, whatever restarts other calls  *)
(* have caused meanwhile (caddy.go:424-426).                               *)
MatchedIsOnDisk ==
    \A c \in Clients : matched[c] /\ roots[c] => disk[last[c]] = "step"

(* A call that reports success, and whose /stop was not lost, has got rid  *)
(* of the internal certificates of all its domains, the certificate being  *)
(* there in time or not (INTERNALS.md:137-147, engine.go:242-243).         *)
OkFlushesCache ==
    \A c \in Clients : pc[c] = "end" /\ result[c] = "none" /\ ~ lost[c] =>
        \A d \in done[c] : Served(d) # "internal"

(* Each domain of such a call is served with a Step-CA certificate in the  *)
(* end, including those of a replay nobody has polled for                  *)
(* (engine.go:239, 245-254).                                               *)
OkLeadsToStep ==
    \A d \in Domains :
        (\E c \in Clients : pc[c] = "end" /\ result[c] = "none" /\ ~ lost[c] /\ d \in done[c])
            ~> Served(d) = "step"

(* A call ends, or waits for a handshake nobody answers: nothing else      *)
(* keeps WaitForCert past its deadline (caddy.go:540-566).                 *)
EndsOrHangs == \A c \in Clients : pc[c] # "idle" ~> pc[c] \in {"idle", "hung"}

(* WaitForCert polls "пока не истечёт maxWait", until maxWait is over      *)
(* (caddy.go:505-506), so that every call ends.                            *)
EveryCallEnds == \A c \in Clients : pc[c] # "idle" ~> pc[c] = "idle"

=============================================================================
