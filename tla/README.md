# A TLA+ model of Povez

Povez is a plugin of the Intermasq panel. For a MAC address an administrator
picks, it finds the container in Proxmox VE, writes a dnsmasq host entry through
the panel, installs a route and a TLS policy in Caddy on the container's node,
and remembers the route in a state file. This directory models that work, checks
it with TLC and proves its safety properties with TLAPS.

All line numbers refer to the files under `src/`.

## 1. The system

| Part | Source | State it keeps | Operations |
|---|---|---|---|
| HTTP API | `api/routes.go` | none | pending, provision, deprovision, state, replay |
| Engine | `core/engine.go` | none between requests | `Provision`, `Deprovision`, `ReplayCaddy`, `GetPendingDevices`, `GetState` |
| Proxmox client | `core/proxmox.go` | none | `FindByMAC` |
| Intermasq client | `core/intermasq.go` | none (host entries are in the panel) | `AddHost`, `DeleteHost`, `Reload`, `FindFileByMAC`, `GetHosts`, `GetLeases` |
| Caddy client | `core/caddy.go` | none (routes and policies are in Caddy) | `AddRoute`, `ReplayRoute`, `DeleteRouteAndTLS`, `RestartCaddy`, `WaitForCert` |
| State store | `core/state.go` | `routes.json`, `routes.json.tmp`, a mutex | `Load`, `Save`, `Upsert`, `Remove` |
| Process | `main.go` | configuration, listener, server | start, signal, `Shutdown` |
| Web page | `index.html` | none on the server | calls the API |

Every HTTP request runs on a goroutine of its own and calls the engine
directly. The engine calls Proxmox, the panel, Caddy and the state store in
turn, one blocking call after another. There is exactly one lock in the program,
the mutex of the state store; between two calls of one request, any call of any
other request may come, and so may an outside change: the owner of a container
stops it, retags it or deletes it, Caddy restarts (each Provision makes it do
so), the plugin dies.

### What is hard here, and what correctness means

*State store.* A read-modify-write of a whole file. It is correct if it behaves
like a table that changes at one instant per call, also across a crash, and if
no error path keeps the mutex.

*Caddy client.* An upsert is up to five HTTP requests (GET, PUT or POST, parent
check, parent init, POST again), any of which may fail or lose its answer, on a
node that other requests stop. It is correct if it never makes a second object
with the same `@id`, never wipes a list it meant to add to, and reports success
only if the objects are there (or gone, for a delete).

*Engine.* A sequence of effects on four systems without a transaction. It is
correct if a success means what it says, if errors are not lost, if asking again
repairs what a failed or cut-off request has left, and if the state file holds
what Caddy was given.

*Certificates.* Caddy keeps a certificate of its internal CA in memory although
a better one is on disk, so each Provision and each replay polls the TLS port and
then stops Caddy. Correct if the restart does not lose what the poll has seen, if
a success means that the internal certificate is gone, and if the poll ends.

*Proxmox client.* A scan over several nodes in which any request may fail, while
guests move, start and change. It is correct if it answers with the container
that has the MAC, under the node key that everything else is named after, and if
a MAC it does not find was missed for a reason.

*Process.* It is started and stopped by the panel, owns a socket file that
outlives it when it is killed, and has three timeouts that do not fit together
(10 s for a shutdown, 30 s for an answer, 30 s for a certificate). Correct if the
next process can always be reached, if a shutdown lets a request end that fits
into it, and if it ends itself whatever the others do.

`PROJECT.json` lists the hazards one by one, at the line where each bites, with
the properties that cover it or the reason why none does yet.

## 2. The modules

| Module | Models | Detail |
|---|---|---|
| `RouteTable` | what the state store promises | one table; a call is invoked, takes effect or fails at one instant, returns |
| `StateStore` | `core/state.go` | one action per system call, mutex, two files, crash |
| `StateStoreProofs`, `CaddyClientProofs`, `CertPollProofs`, `PveScanProofs`, `PendingProofs`, `ServerProofs`, `EngineProofs` | | the theorems about the modules of these names |
| `RouteManager` | the interface of that name, `core/interfaces.go:36-43` | a call changes its own policy and route, each at one instant, in order |
| `CaddyClient` | `core/caddy.go` but `WaitForCert` | one action per HTTP request, one node, several callers |
| `CertPoll` | `WaitForCert`, `RestartCaddy` and how `AddRoute` and `ReplayCaddy` use them | one action per dial, one node with a certificate cache, several calls |
| `PveScan` | `core/proxmox.go` | one action per request to Proxmox, guests that change meanwhile |
| `Pending` | `GetPendingDevices` of `core/engine.go`, `HandleGetPending` | one action per read of the panel, devices that change meanwhile |
| `Server` | `main.go` from `newListener` on | several processes, one socket path, requests through it |
| `Engine` | `core/engine.go`, with the parts of `proxmox.go`, `intermasq.go`, `routes.go` it uses | one action per call to another system, several requests at once |
| `MCStateStore`, `MCCaddyClient`, `MCCertPoll`, `MCPveScan`, `MCServer`, `MCEngine` | | the instances TLC checks |

The levels build on each other. `StateStore` implements `RouteTable` (proved),
which is why `Engine` may treat the state file as a table that changes in one
step. `CaddyClient` implements `RouteManager` (proved too), in which a call
installs or erases the policy and the route of its identifier one after the other,
each in one step, touches nothing else, and reports success only after all of it;
these are the steps `Flag`, `Policy`, `InstallRoute`, `DeleteRoute` and
`DeletePolicy` of `Engine`. `PveScan` shows what the one step
`Matches` of `Engine` stands for: any key whose API lists the guest may be the
answer, and "not found" may mean that a request has failed. Of the poll for the
certificate `Engine` has only that it may never end; the rest is `CertPoll`. What
becomes of a request when its process ends (`Crash` in `Engine`) is `Server`.

A definition whose comment begins with "A bug:" is not part of any
specification. It is a plausible mistake in the code; each property has been
seen to fail when the definition that follows it is replaced by the mistake.

### StateStore

`file` and `tmp` are the two files: missing, partly written, or a set of
records. `mutex`, and per worker `pc`, `request`, `buf` (the list in memory) and
`answer`. The order of records in the file is left out, because no caller looks
at it; that two records could carry one identifier is kept. `Upserted` replaces
one record of several, as the loop at `state.go:91-96` does.

| Code | Action |
|---|---|
| a call from the engine | `Call` |
| `s.mu.Lock()` | `Lock` |
| `os.ReadFile`, `json.Unmarshal`, the change of the list | `ReadToReturn`, `ReadToChange`, `ReadFails` |
| `MkdirAll`, `os.Remove(tmp)` | `CleanTmp` |
| `os.WriteFile(tmp)`: open and truncate, then write | `CreateTmp`, `FillTmp` |
| `os.Rename` | `Rename` |
| `defer s.mu.Unlock()`, return | `Unlock` |
| the process dies | `Crash` |

Reading and changing are one step: both happen under the mutex and the change
touches only memory. Each step that can fail has an alternative that fails.

### CaddyClient

One node: `parent` (do the objects that hold the two lists exist, and the lists
in them), `objs` (for each list and identifier the payloads, as a sequence, so
that a duplicate can be seen), `certsOff`, `up`. Per caller `pc`, `call`, `list`
(policy first, then route), `failed` and `result`. `proxy-<vmid>-<node>` and
`tls-<vmid>-<node>` differ in the prefix only and are one member of `Ids`.

| Code | Action |
|---|---|
| `disableLocalCerts` | `DisableLocalCerts` |
| `upsertByID`: GET, PUT, POST | `Get`, `Put`, `Post` |
| `parentExists`, `initIfMissing`, second POST | `Parent`, `InitParent`, `Repost` |
| `automateCert` | `Automate` |
| `RestartCaddy` | `Stop`, and `NodeUp` for systemd |
| `DeleteRouteAndTLS` | `DeleteRoute`, `DeleteTls` |

`Mutate` says what one request can come to: done and answered, done and the
answer lost, not done. Caddy is not in the repository; the model assumes what
`caddy.go` relies on and says in its comments: PUT replaces, POST appends,
POST answers 500 when the parent of the list is missing, the configuration
outlives `/stop`. Whether Caddy refuses a second object with the same `@id` is
left open: a setup says which, and which identifiers have their objects to begin
with.

Two predicates on setups say on which nodes this is no danger. `PostSafe`: the
node refuses a second object with an `@id`, or it is configured (`Configured`:
both lists have what holds them) and no two callers have an identifier in common.
`NodeSafe`: the node is configured, or only one caller uses it. The theorems
name the one or the other as a hypothesis, `MCCaddyClient` asserts both of the
setups of the run `caddy`, and section 4 says what happens without them.

`Implements` maps the first object under an identifier to the policy or route of
`RouteManager`, and the labels of an upsert to one phase (`Phase`). GET, the parent
check, `automateCert` and everything that fails without an effect are stutters;
an init that installs the object before the repeated POST is an early `SetPolicy`
or `SetRoute`.

### CertPoll

The node: `disk` (the Step-CA certificates it has stored), `memory` (what it
serves: nothing, an internal certificate, one of the Step-CA), `ordered`, `up`.
Per call `todo` and `done` (the domains of an `AddRoute` or a replay), `last` (the
one polled for), `roots` (the CA file could be read), `dials`, `matched`, `result`.
The behaviour of the cache is the one `docs/INTERNALS.md:132-146` describes.

| Code | Action |
|---|---|
| `installRouteAndCert`, by its outcome | `Install`, `InstallFails` |
| reading `CARoots` (`caddy.go:523-538`) | `ReadRoots` |
| one turn of the loop | `DialMatches`, `DialFails`, `DialHangs`, `DialBreaks` |
| "cert poll failed, restarting anyway" | `Deadline` |
| `RestartCaddy` | `Stop`, and `NodeUp` for systemd |

`Issue` is Step-CA: a certificate goes to disk, and into memory unless an internal
one is there. Time is the number of attempts that fit before the deadline
(`MaxDials`). A hung dial is a state of its own: `tls.Dial` (`caddy.go:550`) has no
timeout, and a handshake nobody answers ends only if the connection breaks.

### PveScan

`guest` (each guest's node, kind, status, and what its config says), `sees` (which
nodes the API at a key lists: its own, or the whole cluster). The search has `pc`,
`toAsk`, `key`, `queue`, `answer`. `steady`, `was` and `lost` are history variables:
which guests could be found all the while, which statuses they have had, which
requests have failed. The listing of a key is one step, each config another, and
between any two of them `Change` lets an owner start, stop, retag, move, delete or
create a guest. MAC and tags of a config are one value, wanted or not. The answer of
`/cluster/resources` is taken for a live reading: Proxmox refreshes it every few
seconds, and this delay, which the code cannot see, comes on top of what
`StatusWasTrue` says.

| Code | Action |
|---|---|
| `FindByMAC` | `Begin`, `NotFound`, `Return` |
| `GET /cluster/resources` | `List`, `ListFails` |
| `scanNode`'s loops, lxc before qemu | `NextEntries`, `NextKey` |
| `matchGuest` | `Match`, `Skip`, `ConfigFails` |

### Pending

`entries` and `leases` are the MACs in the two lists of the panel, each a device and a
spelling; `knownMacs` and `pending` are the variables of `GetPendingDevices`. `bare`,
`known`, `away` and `here` are history variables: the devices without or with an entry,
without or with a lease, ever since the request began.

| Code | Action |
|---|---|
| `HandleGetPending` | `Accept`, `Respond` |
| `GetHosts`, `GetLeases` | `GetHosts`, `GetHostsFails`, `GetLeases`, `GetLeasesFails` |
| other requests, dnsmasq | `Register`, `Unregister`, `Lease` |

### Server

`st` says how far a process is in `main`: off, boot (configuration), clean
(stale path removed), bound (listening), run (after `signal.Notify`), drain (in
`Shutdown`), close. `accepting`: the goroutine of `Serve` is at work, which may
begin before or after `Notify`. `path` is what is at `PLUGIN_SOCKET`: nothing, a dead
socket, or the socket of a process. `at` and `fate` follow each request from the
panel: queued in the kernel, active, answered, unheard (the handler ended after
`WriteTimeout`), refused, cut.

| Code | Action |
|---|---|
| `main` up to the listener | `Start`, `BootFails`, `RemoveStale`, `Listen`, `ListenBlocked` |
| `run` | `ServeStarts`, `Notify`, `ServeFails`, `TakeError`, `Shutdown`, `Drained`, `DrainTimeout`, `Cleanup` |
| signals, kills | `Signal`, `Die` |
| the panel and `net/http` | `Connect`, `Accept`, `Answer`, `AnswerLate`, `Again` |

`patient` says whether the panel starts a process only when the last one is gone.
`docs/SETUP.md:50` and `57-58` restart the panel, whose children the plugins are,
as a whole; `Reachable` and `ComesUp` are about that case, and without it they
fail (`cleanup` removes whatever is at the path). Closing a Unix listener removes
its path, as Go does (`Unlink`). Neither this, nor `cleanup`, nor the `os.Remove`
before `Listen` need succeed: the error is dropped or logged (`main.go:211-213`,
`223`), and a socket that could not be removed blocks `Listen`. `spoilt` is a history
variable: the process was misconfigured, could not remove what it found, was sent a
signal or killed, or has come to its end. Otherwise it must come up (`ComesUp`).

### Engine

The outside: `guest` (containers in Proxmox), `hosts` and `loaded` (the panel's
entries, and those dnsmasq has read), `policy`, `route`, `localCerts`, `up` (Caddy
by node), `table` (the state file). Per worker `pc`, `ask`, `cur` (the container
or record in hand), `todo` and `touched` (a replay's loop variables), `errs` (the
containers and nodes an error is listed for), `result`. `trouble` is a history
variable: what the request met with from outside; no action reads it. Its remarks are
"fault" (a call failed), "lookup" (the panel could not say which file has the entry),
"reset" (a node lost its configuration) and "other": another request that may concern
the same container was under way at some time of this one. `Accept` leaves the last
remark with both requests when the later of the two arrives.

| Code | Actions, in order |
|---|---|
| handlers, `routes.go:104-172` | `Accept`, `Respond` |
| `Provision` | `FindToProvision` or `FindFails`, `AddHost`, `Flag`, `Policy`, `Automate`, `RouteAdded`, `DialHangs` and `DialBreaks` or neither, `RestartAdded`, `Upsert`, `Reload` |
| `Deprovision` | `FindToDeprovision` or `FindFails`, `DeleteRoute`, `DeletePolicy`, `Remove`, `FindFile`, `DeleteHost`, `Reload` |
| `ReplayCaddy` | `Load`, then `NextRecord`, `Policy`, `Automate`, `RouteReplayed` for each record, `RestartReplayed` (before it `DialHangs` and `DialBreaks` or neither) for each node, `ReplayEnds` |

What is read off a container beyond MAC and status (name, port, protocol) is one
member of `Confs`, with two special members: the `caddy` tag and no port tag.
`FindByMAC` is one step that returns any matching container under any node whose
API lists it, because the scan order is that of a Go map. The address of a
container is a function of its identifier and is not a field.

The wait for the certificate comes before each restart. Its outcome is only logged, so
that a wait that ends is no step of its own; one whose `tls.Dial` is never answered is
the label "hung", from which `DialBreaks` leads back if the connection breaks, which
nothing guarantees. The dial that hangs is taken for the only thing the wait can do to a
request; how long it takes otherwise, and what it has seen, is `CertPoll`.

The file of a host entry is named after the real node of the container and the subnet
of the key (`engine.go:135`): `NodeFile` gives it for a container and a key.

`NodeReset` is a node that falls back to a configuration file of its own that has both
lists. A node that comes back without them refuses every upsert until someone
initialises it, which is the subject of `caddy_no_tls` and of the setups of
`CaddyClient`, not of `Engine`.

No lock keeps requests for one container apart, and in the model nothing does either:
requests meet in any way. What a request promises is said by the properties
under the condition that it met no other over its container (`Unrivalled`: no remark
"other"; `Unspoilt`: no remark "reset" either). `Concerns` are the containers
`FindByMAC` may find for the MAC of a request, all of them for a replay. Two predicates
on instances say more: `OneFile`, what may be found under a MAC has its host entry in
one file; `OneKey`, a container is listed under one key, that is, there is no cluster.
`MCEngine` asserts both of all instances but that of `engine_cluster`.

## 3. The runs

| Run | Instance | What it shows |
|---|---|---|
| `store` | 2 workers, 2 identifiers, 2 payloads, one table for `Save` | type, one record per identifier, refinement of `RouteTable`, every call returns |
| `caddy` | 2 callers with one identifier each on a configured node that accepts duplicates; 2 callers of one identifier on one that refuses them and has the objects of another; 1 caller with two on a node in any of 9 states that refuses them; requests and answers get lost | no duplicates, success means installed or erased, no clobber, a policy outlives its route, refinement of `RouteManager` |
| `cert` | an `AddRoute` of one domain beside a replay of two, any certificates to begin with | what the poll has seen is on disk; a success has flushed the cache; every domain gets its Step-CA certificate; calls end but for a hung dial |
| `pve_scan` | 2 keys, each with its own node or both with the cluster; a container that moves and disappears, a VM and a container that may share the MAC; any request may fail | why a MAC is not found, containers first, how old the status may be, every search ends |
| `server` | 2 processes, patient panel or not, a short and a long request, a path that may not be removable | the next process comes up and can be reached, a shutdown cuts no short request, and ends |
| `pending` | 2 devices spelled in 2 ways, any entries and leases, reads that fail | a device that does not change during the request is listed if it is unknown, and not if it is known |
| `engine_one` | 1 worker, 3 containers (one changes its tags, its status, or is replaced by another guest under its number; one is a Caddy host; one has an invalid address), failures at every call, crash, reset | success means what it says; asking again heals; replay restores; the record follows the route |
| `engine_two` | 2 workers, 2 containers on one node: requests for different containers, two Deprovisions of the same one, a replay beside either; failing Caddy, restarts, handshakes that are never answered | a success holds unless the two met over a container, where it excepts itself; a Deprovision then leaves nothing under any key; a replay deals with every record, whatever failed before; a request is answered but for a handshake of its own |

Two of each is enough for the questions asked. The mutex and the temporary file
matter between two workers, and a third only repeats what the second does. A
lost update needs two records, or one record and two payloads. A clobber needs a
second identifier on the node. The steps of one request in `Engine` touch one
container, so that interference needs a second request and not a third; in
`engine_two` the containers share a node, which is what lets one request restart
Caddy under the other, and so do the calls of `cert`. Two processes suffice for a
socket that one leaves to the other or takes away from it.

Two bounds cut behaviours short. `MaxDials = 2`: attempts before the deadline of a
poll; the first may come before and the second after anything else that happens.
`MaxChanges = 2`: changes of guests during one search; one may hide a guest from
the listing and another from the reading of its config, and a guest may leave and
come back. Nothing else is counted.

Deadlock is checked except in `cert` and `cert_silent`, where a state in which
every call waits for a handshake is a real end.

In `engine_one` a failing `FindFileByMAC` is one of the faults. The code drops that
error (`engine.go:195-200`), so `DeprovisionOk` exempts the host entry, and only
that, when this very call has failed. `engine_two` has the restarts each request forces
on the other in full, and requests that meet over a container: what these leave is
exempted from the promises by name (`Unrivalled`), and `engine_replay` shows that it has
to be. In `caddy`, `OkMeansInstalled`,
`OkMeansErased` and `PolicyOutlivesRoute` speak of a call that is alone with its
identifier (`Alone`): with two, a Provision may install the route again between the
two DELETEs of a Deprovision, and both report success. Two callers share a
configured node only, for the reason given below.

Four runs end in a violation. Each shows a place where the code does not do what
the documentation or its own comments say (`findings` in `PROJECT.json`):

| Run | What happens |
|---|---|
| `caddy_no_tls` | `AddRoute` puts `local_certs_disabled` into `/config/apps/tls`, then takes its existence for a reason not to initialise it: it fails on every node without a tls app |
| `cert_silent` | the peer takes the connection and never answers the handshake: `WaitForCert` does not return |
| `engine_cluster` | both nodes of a cluster list the container; `Deprovision` finds it under another key than `Provision` and leaves route, policy and record |
| `engine_replay` | a replay installs a route again that a `Deprovision` has just removed, and no record of it is left |

In `caddy_no_tls` the node creates the tls app when a field of it is posted. A
node that refuses to fails `AddRoute` one request earlier, at
`disableLocalCerts`, with the same outcome.

Other disagreements between documents, comments and code, met on the way, which no
run shows: a Caddy host is recognised by the tag `caddy` (`proxmox.go:217`), where
`docs/FEATURES.md:58` and `docs/INTERNALS.md:80-81` say by its name; a GET that answers
neither 200 nor 404 is an error (`caddy.go:235`), where `docs/INTERNALS.md:126`
says it leads to POST; `AddRoute` polls for the certificate (`caddy.go:428-434`),
where `docs/INTERNALS.md:142` says it waits a fixed time; `docs/INTERNALS.md:148`
says the internal CA is switched off before a restart, which a replay does not do
(`caddy.go:444`). Three more are about what a failure leaves behind. When
`AddRoute` fails, `Provision` returns "DNS ok" before the reload
(`engine.go:152-155`), where `docs/FEATURES.md:51-52` says that the reload follows
the writing. When the panel cannot say which file has the host entry,
`Deprovision` reports success and leaves it (`engine.go:195-200`), where
`docs/FEATURES.md:67-68` says that errors are collected. And `initSrv0` creates srv0
with the route already in it before the POST is repeated (`caddy.go:269`,
`360-363`): a node that takes a second object with one `@id` then has the route
twice, where `docs/INTERNALS.md:113` says one route per container.

Two more depend on how systems outside behave. Two callers on a node without srv0
both see it missing (`caddy.go:257-266`); if PUT replaces what is at its path, as
the comment at `caddy.go:190-195` fears, the second init wipes the route of the
first, and `NoClobber` fails without a fault. A node that refuses to PUT over an
object lets the second caller fail instead. And a container whose caddy tag is set
or cleared between two Provisions has an entry in two files if the panel keeps its
files apart; `Deprovision` removes the one that `FindFileByMAC` meets first
(`intermasq.go:136-147`), and `DeprovisionErases` fails on such a container.

### Fairness

`StateStore.FairSpec`: weak fairness of every step (system calls return), strong
fairness of `Lock`. `sync.Mutex` hands itself to a waiter that has waited for a
millisecond, so a goroutine is not overtaken for ever; weak fairness would not
say that, because the mutex is not free all the time. There is no fairness on
`Call` or `Crash`.

`Engine.FairSpec`: weak fairness of the steps of a request (every HTTP client of
the plugin has a timeout, 10 s by default, so each call ends) and of `NodeUp`
(`Restart=always`). None on requests arriving, on faults or on what the owners of
containers do. The dial in the wait for the certificate is the one call without a
timeout: a request that hangs there (`DialHangs`) has no fairness, and
`AnsweredOrHung` says that nothing else keeps a request from its answer.

`CertPoll.FairSpec`: weak fairness of the steps of a call, in which a dial is
answered or fails, and of `NodeUp`; strong fairness of `Issue`, because Caddy
orders a certificate it still lacks again after each start, so that restarts do
not put it off for ever. A hung dial has no fairness: nothing ends it.

`PveScan.FairSpec`: weak fairness of the search as a whole, whose client has a
timeout. None on what the owners of guests do.

`Server.FairSpec`: weak fairness of the main goroutine of each process and of the
goroutine that serves, and of the answer to a short request. A long request has none,
so that `EndsWhenTold` holds though one never ends. None on the panel, on signals and
kills.

`EveryCallReturns` and `EverySearchEnds` say "not idle leads to idle", `AnsweredOrHung`
and `EndsOrHangs` "to idle or hung": a request ends with its answer, or with the
process. `engine_two` has no crash, so there it is the answer.

## 4. What is proved

`StateStoreProofs`, for any workers, identifiers, payloads and saved tables, with
only the assumptions of `StateStore` (that the markers `Missing`, `Partial` and
"free" are not records or workers, and that saved tables are tables):

- `TypeCorrect`: `Spec => []TypeOK`, which includes that the state file is never
  partly written;
- `OneRecordPerRoute`: `Spec => []UniqueIds`;
- `Refinement`: `Spec => Implements`, that is, the store implements `RouteTable`.

None of these is inductive alone. `IInv` adds four facts. `Asked`: a worker in a
call has a request. `HolderInside`: a worker is past `Lock` exactly if it holds
the mutex. `BufFresh`: the list about to be saved says what the request makes of
the file *as it is now*, and has unique identifiers. `TmpComplete`: the temporary
file about to be renamed is the worker's own and complete. The argument: only a
holder changes the files (`HolderInside`, lemma `OneInside`), so nothing can make
its list stale between `ReadToChange` and `Rename` (`BufFresh`), and `Rename` puts
exactly that list in place (`TmpComplete`). Without the mutex `BufFresh` breaks at
once, which is the lost update.

The proof has three layers. Lemmas about the list operations say that on lists
with unique identifiers `Upserted`, `Removed` and `Listed` are what `Applied` says
of tables (`UpsertedTable`, `RemovedTable`, `ListedTable`, `NewRecordsTable`).
`OutsideStep`, `InsideStep` and `CrashStep` show that each action keeps `IInv`. For
the refinement the table is read off the file and the phase of a call off `pc`:
`Call`, `Unlock` and `Crash` are `Invoke`, `Return` and `Crash` of the table;
`Rename` is `Serve`, and so is the read of a `Load`; a failing step is `Refuse`;
everything else is a stutter.

`ServerProofs`, for any processes and requests, assuming that no request is both
short and long and that the markers for "nothing" and "dead socket" are no
processes: `TypeCorrect`, `SocketIsItsOwn` (`Reachable`), `ShutdownIsGraceful`
(`ShortNotCut`). `IInv` adds `Alone`, that a
patient panel has one process at a time: with two, the `cleanup` of one removes the
path of the other, and `Reachable` breaks. It adds `Quiet`,
that a `Serve` that has failed accepts nothing more, and `OnlyLong`, that after
`Shutdown` only long requests are left in a process whose `Serve` has not failed;
`ShutdownIsGraceful` then follows from one look at the steps that end a process.

`PveScanProofs`, for any keys, nodes, guests and number of changes, assuming that
the marker `None` is neither a guest nor an answer and that the constants have their
shapes: `TypeCorrect`, `MissedForAReason` (`NotFoundExplained`), `ContainersFirst`
(`LxcFirst`), `StatusSinceBegin` (`StatusWasTrue`). `Scanned` carries the argument:
for each guest that could be found all the while, and each key that lists it, the
key is still to be asked, or a request has failed, or the listing being worked
through has an entry that still tells where the guest is (`Waiting`). `Progress`
turns this into `NotFoundExplained` at the end of a search: no key and no entry is
left. `Findable` says that such a guest can be found now, and `Recent` that each
status in a listing is one the guest has had since the search began.

`CertPollProofs`, for any calls, domains and attempts, assuming that there is a
domain and that a call has at least one: `TypeCorrect`, `SeenIsStored`
(`MatchedIsOnDisk`), `SuccessFlushes` (`OkFlushesCache`). `IInv` adds `Stored`, that
Caddy serves from Step-CA only what is on disk, and `Course`, that a call polls for
one of the domains it has installed and stops Caddy once it has matched. The lemma
`CallKeeps` gives the shape of the argument: a step of a call leaves the disk and the
memory alone and ends without an error only if Caddy is down, so what it says of its
domains holds; `NodeKeeps` adds that neither Step-CA nor a restart puts an internal
certificate where there was none.

`PendingProofs`, for any devices and spellings, assuming that lower case is one of
them: `TypeCorrect`, `NothingMissed` (`UnknownIsListed`), `NothingDoneTwice`
(`KnownIsNotListed`). `IInv` adds `Faithful`, that the histories agree with the panel as
it is, and `Read`, that what the first read has brought speaks for the devices that
have not changed since.

`CaddyClientProofs`, for any callers, identifiers and payloads, assuming that there
are some and that the setups have their shapes. `TypeCorrect` holds on any node.
Where every setup is `PostSafe`: `NeverTwo` (`NoDuplicates`), `ErasedWhenOk`
(`OkMeansErased`). Where every one is `NodeSafe`: `NothingClobbered` (`NoClobber`).
Where both: `InstalledWhenOk` (`OkMeansInstalled`), `PolicyIsLastToGo`
(`PolicyOutlivesRoute`), `ClientImplementsManager` (`Implements`). Requests and
answers may be lost anywhere.

`IInv` has a part for each hypothesis. `PostInv` is what a safe POST needs: what the
GET of a call that is `Alone` has not found is still not there when the call comes to
its POST (`PostSees`), and only a node that refuses duplicates is given an object in
an init and then again (`RepostRefused`). `NodeInv` is what a safe init needs: a list
found missing still is (`InitSees`), and a missing list holds nothing
(`MissingIsEmpty`), so that creating it wipes nothing. `Installed` and `FlagSet` say
what a call that is past a step has brought about. The refinement follows the steps:
`UpsertImplements`, `OtherRequestsImplement` and `DeletesImplement` map each request
to `SetPolicy`, `SetRoute`, `ErasePolicy`, `EraseRoute`, an error or a stutter.

The hypotheses cannot be dropped; TLC finds a counterexample for each. Two callers of
one identifier on a node that accepts duplicates both see it missing and both POST
(`NoDuplicates`, `Implements`). One caller on an unconfigured node that accepts
duplicates makes two in `initSrv0` and the repeated POST, and its later delete removes
one of them (`NoDuplicates`, `OkMeansErased`, `Implements`). Two callers on an
unconfigured node both init (`OkMeansInstalled`, `NoClobber`, `PolicyOutlivesRoute`,
`Implements`).

`EngineProofs`, for any workers, containers, nodes, tags and faults, and any requests
at the same time. Of every behaviour: `TypeCorrect`, `ProvisionKeepsItsWord`
(`ProvisionOk`), `ProvisionMakesGood` (`ProvisionHeals`), `ReplayKeepsItsWord`
(`ReplayOk`), `RecordComesLast` (`RecordedAsRouted`); on instances that are `OneFile`,
`DeprovisionKeepsItsWord` (`DeprovisionOk`). `NothingIsLeft` (`DeprovisionClears`) says
how much of `docs/FEATURES.md:67-68` is true: with `OneFile` and `OneKey`, and if the
panel can always be asked for the file, nothing of the container is left under any key.
The properties themselves except a request that met another over its container; such a
request may be anywhere in the behaviour, before, beside or after the one that keeps its
word, and takes nothing from it.

`IInv` is `Typed` (types; the step of a worker fits its request; what it has in hand
is a container its MAC may find), `Noticed` and `Promised`. `Noticed` says that the
history misses nothing: of two requests under way that are concerned with one
container, neither is `Unrivalled`. `Promised` says for each request that is, what it
has brought about so far: `Provisioned`, `Deprovisioned`, `Replayed`; and for every one
`Fresh`, that an error of an earlier request is not carried over. `Unlisted` and `Named` are added for
host entries and for names under one key. The argument is one of rely and guarantee.
`StepEffect` says what a step of a worker can change outside, for which container and
MAC. `OthersSpared` and `OwnerSpares` draw from it, and from `Noticed`, what the
others and the owners leave to a request (`Spares`), which is enough to keep what is
promised (`SparedKeeps`). `ProvisionSteps`, `DeprovisionSteps`, `UnlistedSteps` and
`ReplaySteps` show that each step of the request itself brings about what comes next.
No step is assumed to follow another without something in between.

Here, too, TLC finds what happens otherwise. Without the exception, two requests for one
container, or for two MACs that have had the same number, violate `ProvisionOk`,
`ProvisionHeals`, `DeprovisionOk` and `RecordedAsRouted`: there is no lock around a
request, and `Remove` of one follows the `AddRoute` of the other. A container whose `caddy` tag is
set between two Provisions violates `DeprovisionOk`: it has an entry in two files.

Only model-checked: the liveness properties `EveryCallReturns`, `AnsweredOrHung`,
`EverySearchEnds`, `ComesUp`, `EndsWhenTold`, `OkLeadsToStep` and `EndsOrHangs`, because the proof
system does not reach liveness under fairness; and the four violations, which are about
instances. Every other property of a run is stated by a theorem.

## 5. What is not modelled

- `GetState` and its handler, which pass on a `Load` of the state store.
- `main.go` before the listener: configuration, its defaults, the building of the
  clients; and the TCP debug mode.
- The errors of a wrong configuration in `Provision` (`engine.go:117-134`): a node
  without an entry, a malformed subnet.
- HTTP methods, JSON and the status texts of the handlers.
- The text of routes, policies, host entries, messages and logs; the parsing of a
  guest's config for MAC and tags.
- Certificates that expire or are renewed, and an internal CA that comes back.
- Two processes of the plugin that share `routes.json` and its temporary file:
  `Server` has them side by side, `StateStore` has one process.
- Disks that lose renamed data in a power cut.

## 6. Plan

Done: state store, Caddy client with its abstract interface, poll for certificates,
search in Proxmox, list of pending devices, process and socket, engine; proofs about
all seven.

Left to model, in this order:

1. The history a call needs to say what its success means beside another of the
   same identifier (`Alone` in `CaddyClient`, `Unrivalled` in `Engine`): that
   what it has set or erased was so at some instant of the call.
2. `StateStore` with two processes, each with a mutex of its own.

Theorems worth proving next: the same for `Engine` where requests for one container
overlap, that is, which of the promises survive and in what form; and that the Caddy
steps of `Engine` are those of `RouteManager`, which section 2 says in words.
