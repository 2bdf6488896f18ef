------------------------------- MODULE Pending -------------------------------
(***************************************************************************)
(* GET /api/pending: Engine.GetPendingDevices compares the host entries of *)
(* the panel with its leases.  The two are read one after the other, while *)
(* other requests write and remove entries and devices come and go.        *)
(*                                                                         *)
(* A MAC is a device and the way it is spelled (upper or lower case): an   *)
(* entry has the spelling Provision was sent, a lease that of dnsmasq.     *)
(***************************************************************************)
CONSTANTS
    Devices,
    Spellings

Macs == Devices \X Spellings

ASSUME SpellingAssumption == "lower" \in Spellings

VARIABLES
    entries,     \* MACs with a host entry in the panel
    leases,      \* MACs with a lease
    pc,          \* the next step of the request
    knownMacs,   \* knownMacs, and
    pending,     \* pending, of GetPendingDevices
    status,      \* the HTTP status of the answer
    bare, known, \* history: the devices without an entry, or with one, and
    away, here   \* without a lease, or with one, since the request began

history == <<bare, known, away, here>>
vars == <<entries, leases, pc, knownMacs, pending, status, history>>

(* strings.ToLower *)
Lower(m) == <<m[1], "lower">>

Of(macs) == {m[1] : m \in macs}

Init ==
    /\ entries \in SUBSET Macs
    /\ leases \in SUBSET Macs
    /\ pc = "idle"
    /\ knownMacs = {}
    /\ pending = {}
    /\ status = 0
    /\ bare = {} /\ known = {} /\ away = {} /\ here = {}

(* What the histories keep when the panel changes. *)
Remember ==
    /\ bare' = bare \ Of(entries')
    /\ known' = known \cap Of(entries')
    /\ away' = away \ Of(leases')
    /\ here' = here \cap Of(leases')

(***************************************************************************)
(* The panel, and what others do meanwhile                                 *)
(***************************************************************************)

(* AddHost of a Provision. *)
Register(m) ==
    /\ m \notin entries
    /\ entries' = entries \cup {m}
    /\ UNCHANGED <<leases, pc, knownMacs, pending, status>>
    /\ Remember

(* DeleteHost of a Deprovision. *)
Unregister(m) ==
    /\ m \in entries
    /\ entries' = entries \ {m}
    /\ UNCHANGED <<leases, pc, knownMacs, pending, status>>
    /\ Remember

(* dnsmasq gives a lease, or one runs out. *)
Lease(m) ==
    /\ leases' = IF m \in leases THEN leases \ {m} ELSE leases \cup {m}
    /\ UNCHANGED <<entries, pc, knownMacs, pending, status>>
    /\ Remember

(***************************************************************************)
(* The request                                                             *)
(***************************************************************************)

Answer(code) ==
    /\ pc' = "done"
    /\ status' = code

(* HandleGetPending: any method but GET is 405. *)
Accept ==
    /\ pc = "idle"
    /\ \/ pc' = "hosts" /\ UNCHANGED status
       \/ Answer(405)
    /\ bare' = Devices \ Of(entries)
    /\ known' = Of(entries)
    /\ away' = Devices \ Of(leases)
    /\ here' = Of(leases)
    /\ UNCHANGED <<entries, leases, knownMacs, pending>>

(* A bug: the MACs are compared as they are spelled. *)
GetHostsAsSpelled ==
    /\ pc = "hosts"
    /\ knownMacs' = entries
    /\ pc' = "leases"
    /\ UNCHANGED <<entries, leases, pending, status, history>>

GetHosts ==
    /\ pc = "hosts"
    /\ knownMacs' = {Lower(m) : m \in entries}
    /\ pc' = "leases"
    /\ UNCHANGED <<entries, leases, pending, status, history>>

(* A bug: the return after the error is missing. *)
GetHostsFailsGoesOn ==
    /\ pc = "hosts"
    /\ pc' = "leases"
    /\ status' = 500
    /\ UNCHANGED <<entries, leases, knownMacs, pending, history>>

(* The panel cannot be asked, or its answer cannot be read. *)
GetHostsFails ==
    /\ pc = "hosts"
    /\ Answer(500)
    /\ UNCHANGED <<entries, leases, knownMacs, pending, history>>

GetLeases ==
    /\ pc = "leases"
    /\ pending' = {m \in leases : Lower(m) \notin knownMacs}
    /\ Answer(200)
    /\ UNCHANGED <<entries, leases, knownMacs, history>>

(* A bug: an error of the second read is answered with an empty list. *)
GetLeasesFailsSilent ==
    /\ pc = "leases"
    /\ Answer(200)
    /\ UNCHANGED <<entries, leases, knownMacs, pending, history>>

GetLeasesFails ==
    /\ pc = "leases"
    /\ Answer(500)
    /\ UNCHANGED <<entries, leases, knownMacs, pending, history>>

Respond ==
    /\ pc = "done"
    /\ pc' = "idle"
    /\ knownMacs' = {} /\ pending' = {} /\ status' = 0
    /\ bare' = {} /\ known' = {} /\ away' = {} /\ here' = {}
    /\ UNCHANGED <<entries, leases>>

Next ==
    \/ Accept \/ GetHosts \/ GetHostsFails \/ GetLeases \/ GetLeasesFails \/ Respond
    \/ \E m \in Macs : Register(m) \/ Unregister(m) \/ Lease(m)

Spec == Init /\ [][Next]_vars

(***************************************************************************)
(* Properties                                                              *)
(***************************************************************************)

(* Every variable has its type, and an answer has a status.                *)
TypeOK ==
    /\ entries \subseteq Macs
    /\ leases \subseteq Macs
    /\ pc \in {"idle", "hosts", "leases", "done"}
    /\ knownMacs \subseteq Macs
    /\ pending \subseteq Macs
    /\ status \in {0, 200, 405, 500}
    /\ status # 0 <=> pc = "done"

(* An unknown device is not missed: one that had a lease and no entry      *)
(* while the request was served is in the list of every answer 200,        *)
(* whatever the panel failed to say (engine.go:69-91, FEATURES.md:34-36).  *)
UnknownIsListed ==
    status = 200 => here \cap bare \subseteq Of(pending)

(* A device that had an entry, or no lease, all the while is not listed,   *)
(* however its MAC is spelled in the two lists: the administrator is not   *)
(* offered what is already done (engine.go:79-86).                         *)
KnownIsNotListed ==
    status = 200 => Of(pending) \cap (known \cup away) = {}

=============================================================================
