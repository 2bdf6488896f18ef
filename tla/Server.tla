-------------------------------- MODULE Server --------------------------------
(***************************************************************************)
(* main.go: the life of the plugin's process, its Unix socket and the      *)
(* requests that come in through it, across restarts, signals and crashes. *)
(*                                                                         *)
(* The panel starts and stops the process.  A patient panel (systemd       *)
(* restarting the service with all its processes, SETUP.md) starts one     *)
(* only when the previous one is gone; another may let two overlap.        *)
(*                                                                         *)
(* Time is left out but for what the timeouts compare.  A short request is *)
(* one that is served within the 10 s Shutdown waits; a long one may take  *)
(* longer than that, than the 30 s of WriteTimeout, or for ever (see       *)
(* CertPoll).  Go removes the path of a Unix listener when it is closed,   *)
(* whatever is there by then.                                              *)
(***************************************************************************)
CONSTANTS
    Procs,     \* processes of the plugin, one after another or together
    Short,     \* requests that are served within 10 s
    Long,      \* requests that may take longer
    None,      \* no socket at the path
    Stale      \* a socket nobody listens on is at the path

Requests == Short \cup Long

ASSUME ServerAssumption ==
    /\ Short \cap Long = {}
    /\ None \notin Procs /\ Stale \notin Procs /\ None # Stale

VARIABLES
    patient,     \* the panel waits for the end of a process
    st,          \* st[p]: how far process p is in main
    accepting,   \* accepting[p]: the goroutine of Serve accepts connections
    sig,         \* sig[p]: a signal is in the channel of run
    failed,      \* failed[p]: Serve has returned an error
    path,        \* what is at PLUGIN_SOCKET: whose socket
    at,          \* at[r]: the process request r has been sent to
    fate,        \* fate[r]: what has become of request r
    spoilt       \* history: process p has a reason of its own not to be up

proc == <<st, accepting, sig, failed>>
vars == <<patient, proc, path, at, fate, spoilt>>

Init ==
    /\ patient \in BOOLEAN
    /\ st = [p \in Procs |-> "off"]
    /\ accepting = [p \in Procs |-> FALSE]
    /\ sig = [p \in Procs |-> FALSE]
    /\ failed = [p \in Procs |-> FALSE]
    /\ path \in {None, Stale}
    /\ at = [r \in Requests |-> None]
    /\ fate = [r \in Requests |-> "new"]
    /\ spoilt = [p \in Procs |-> TRUE]

Goto(p, label) == st' = [st EXCEPT ![p] = label]

At(p, what) == {r \in Requests : at[r] = p /\ fate[r] = what}

(* Connections that nobody has accepted are reset. *)
ListenerCloses(p) ==
    fate' = [r \in Requests |-> IF r \in At(p, "queued") THEN "refused" ELSE fate[r]]

(* The process is gone, and with it the requests it was serving. *)
Exit(p) ==
    /\ Goto(p, "off")
    /\ accepting' = [accepting EXCEPT ![p] = FALSE]
    /\ sig' = [sig EXCEPT ![p] = FALSE]
    /\ failed' = [failed EXCEPT ![p] = FALSE]
    /\ fate' = [r \in Requests |-> IF r \in At(p, "queued") THEN "refused"
                                   ELSE IF r \in At(p, "active") THEN "cut"
                                   ELSE fate[r]]
    /\ UNCHANGED <<patient, at>>

(* It did not take its socket along. *)
Abandoned(p) == path' = IF path = p THEN Stale ELSE path

(* What is at the path is unlinked, or cannot be: the error is dropped. *)
Unlink(p) == path' = None \/ Abandoned(p)

Spoil(p) == spoilt' = [spoilt EXCEPT ![p] = TRUE]

(***************************************************************************)
(* main                                                                    *)
(***************************************************************************)

Start(p) ==
    /\ st[p] = "off"
    /\ patient => \A q \in Procs : st[q] = "off"
    /\ Goto(p, "boot")
    /\ spoilt' = [spoilt EXCEPT ![p] = FALSE]
    /\ UNCHANGED <<patient, accepting, sig, failed, path, at, fate>>

(* loadConfig fails, or net.Listen for another reason than the path. *)
BootFails(p) ==
    /\ st[p] \in {"boot", "clean"}
    /\ Exit(p)
    /\ Spoil(p)
    /\ UNCHANGED path

(* A bug: what an earlier process has left is not removed. *)
KeepStale(p) ==
    /\ st[p] = "boot"
    /\ Goto(p, "clean")
    /\ UNCHANGED <<patient, spoilt, accepting, sig, failed, path, at, fate>>

(* newListener: os.Remove of whatever is at the path.  That it fails is    *)
(* only logged, and Listen is tried all the same.                          *)
RemoveStale(p) ==
    /\ st[p] = "boot"
    /\ \/ path' = None /\ UNCHANGED spoilt
       \/ path # None /\ Spoil(p) /\ UNCHANGED path
    /\ Goto(p, "clean")
    /\ UNCHANGED <<patient, accepting, sig, failed, at, fate>>

(* A bug: the cleanup is deferred in newListener. *)
ListenCleansUp(p) ==
    /\ st[p] = "clean"
    /\ path = None
    /\ Goto(p, "bound")
    /\ UNCHANGED <<patient, spoilt, accepting, sig, failed, path, at, fate>>

(* net.Listen. *)
Listen(p) ==
    /\ st[p] = "clean"
    /\ path = None
    /\ path' = p
    /\ Goto(p, "bound")
    /\ UNCHANGED <<patient, spoilt, accepting, sig, failed, at, fate>>

(* "address already in use": main exits. *)
ListenBlocked(p) ==
    /\ st[p] = "clean"
    /\ path # None
    /\ Exit(p)
    /\ UNCHANGED <<path, spoilt>>

(* run: the goroutine of Serve is started before signal.Notify, and may    *)
(* run before or after it.                                                 *)
ServeStarts(p) ==
    /\ st[p] \in {"bound", "run"}
    /\ ~ accepting[p] /\ ~ failed[p]
    /\ accepting' = [accepting EXCEPT ![p] = TRUE]
    /\ UNCHANGED <<patient, spoilt, st, sig, failed, path, at, fate>>

Notify(p) ==
    /\ st[p] = "bound"
    /\ Goto(p, "run")
    /\ UNCHANGED <<patient, spoilt, accepting, sig, failed, path, at, fate>>

(* SIGTERM or SIGINT.  Before Notify it ends the process there and then;   *)
(* later it waits in the channel, and one that comes during the shutdown   *)
(* changes nothing.                                                        *)
Signal(p) ==
    /\ Spoil(p)
    /\ \/ /\ st[p] \in {"boot", "clean", "bound"}
          /\ Exit(p)
          /\ Abandoned(p)
       \/ /\ st[p] = "run" /\ ~ sig[p]
          /\ sig' = [sig EXCEPT ![p] = TRUE]
          /\ UNCHANGED <<patient, st, accepting, failed, path, at, fate>>

(* Serve gives up: it closes the listener and run returns the error. *)
ServeFails(p) ==
    /\ st[p] \in {"bound", "run"}
    /\ accepting[p]
    /\ accepting' = [accepting EXCEPT ![p] = FALSE]
    /\ failed' = [failed EXCEPT ![p] = TRUE]
    /\ Unlink(p)
    /\ ListenerCloses(p)
    /\ UNCHANGED <<patient, spoilt, st, sig, at>>

TakeError(p) ==
    /\ st[p] = "run"
    /\ failed[p]
    /\ Goto(p, "close")
    /\ UNCHANGED <<patient, spoilt, accepting, sig, failed, path, at, fate>>

(* A bug: the server is closed and not shut down. *)
CloseAtOnce(p) ==
    /\ st[p] = "run"
    /\ sig[p]
    /\ Goto(p, "close")
    /\ UNCHANGED <<patient, spoilt, accepting, sig, failed, path, at, fate>>

(* A bug: the requests are waited for before the listener is closed. *)
ShutdownKeepsListening(p) ==
    /\ st[p] = "run"
    /\ sig[p]
    /\ Goto(p, "drain")
    /\ UNCHANGED <<patient, spoilt, accepting, sig, failed, path, at, fate>>

(* Shutdown begins: the listener is closed if Serve has taken it up.  If   *)
(* not, there is nothing to wait for either.                               *)
Shutdown(p) ==
    /\ st[p] = "run"
    /\ sig[p]
    /\ Goto(p, "drain")
    /\ accepting' = [accepting EXCEPT ![p] = FALSE]
    /\ IF accepting[p] THEN Unlink(p) /\ ListenerCloses(p)
       ELSE UNCHANGED <<path, fate>>
    /\ UNCHANGED <<patient, spoilt, sig, failed, at>>

(* Shutdown returns: every request is answered, or the 10 s are over, by   *)
(* which time only long requests are left.                                 *)
Drained(p) ==
    /\ st[p] = "drain"
    /\ At(p, "active") = {}
    /\ Goto(p, "close")
    /\ UNCHANGED <<patient, spoilt, accepting, sig, failed, path, at, fate>>

(* A bug: Shutdown is given a context that does not end. *)
DrainForEver(p) ==
    /\ st[p] = "drain"
    /\ FALSE
    /\ UNCHANGED vars

DrainTimeout(p) ==
    /\ st[p] = "drain"
    /\ At(p, "active") # {} /\ At(p, "active") \subseteq Long
    /\ Goto(p, "close")
    /\ UNCHANGED <<patient, spoilt, accepting, sig, failed, path, at, fate>>

(* cleanup removes the path, whosever socket is there; main returns. *)
Cleanup(p) ==
    /\ st[p] = "close"
    /\ Exit(p)
    /\ Unlink(p)
    /\ Spoil(p)

(* The process is killed or the machine goes down. *)
Die(p) ==
    /\ st[p] # "off"
    /\ Exit(p)
    /\ Abandoned(p)
    /\ Spoil(p)

(***************************************************************************)
(* Requests, which the panel passes on                                     *)
(***************************************************************************)

(* The panel connects: to whoever listens on the socket at the path.  *)
Connect(r) ==
    /\ fate[r] = "new"
    /\ \/ /\ path \in Procs
          /\ at' = [at EXCEPT ![r] = path]
          /\ fate' = [fate EXCEPT ![r] = "queued"]
       \/ /\ path \notin Procs
          /\ fate' = [fate EXCEPT ![r] = "refused"]
          /\ UNCHANGED at
    /\ UNCHANGED <<patient, spoilt, proc, path>>

Accept(r) ==
    /\ fate[r] = "queued"
    /\ accepting[at[r]]
    /\ fate' = [fate EXCEPT ![r] = "active"]
    /\ UNCHANGED <<patient, spoilt, proc, path, at>>

Answer(r) ==
    /\ fate[r] = "active"
    /\ fate' = [fate EXCEPT ![r] = "answered"]
    /\ UNCHANGED <<patient, spoilt, proc, path, at>>

(* The handler ends after WriteTimeout: its answer is not sent. *)
AnswerLate(r) ==
    /\ r \in Long
    /\ fate[r] = "active"
    /\ fate' = [fate EXCEPT ![r] = "unheard"]
    /\ UNCHANGED <<patient, spoilt, proc, path, at>>

(* The client has its answer, or has given up, and asks again some day.  *)
Again(r) ==
    /\ fate[r] \in {"refused", "answered", "unheard", "cut"}
    /\ fate' = [fate EXCEPT ![r] = "new"]
    /\ at' = [at EXCEPT ![r] = None]
    /\ UNCHANGED <<patient, spoilt, proc, path>>

Main(p) ==
    \/ BootFails(p) \/ RemoveStale(p) \/ Listen(p) \/ ListenBlocked(p)
    \/ Notify(p) \/ TakeError(p) \/ Shutdown(p)
    \/ Drained(p) \/ DrainTimeout(p) \/ Cleanup(p)

Next ==
    \/ \E p \in Procs : Start(p) \/ Main(p) \/ ServeStarts(p) \/ ServeFails(p)
                        \/ Signal(p) \/ Die(p)
    \/ \E r \in Requests : Connect(r) \/ Accept(r) \/ Answer(r) \/ AnswerLate(r) \/ Again(r)

Spec == Init /\ [][Next]_vars

(* The two goroutines of run go on where they can and a short request is   *)
(* served; nothing says that a long one ever is.                           *)
FairSpec ==
    /\ Spec
    /\ \A p \in Procs : WF_vars(Main(p)) /\ WF_vars(ServeStarts(p))
    /\ \A r \in Short : WF_vars(Answer(r))

(***************************************************************************)
(* Properties                                                              *)
(***************************************************************************)

(* Every variable has its type; only a process that has come as far as     *)
(* Listen has a socket or requests, and one that shuts down accepts no     *)
(* more of them.                                                           *)
TypeOK ==
    /\ patient \in BOOLEAN
    /\ st \in [Procs -> {"off", "boot", "clean", "bound", "run", "drain", "close"}]
    /\ accepting \in [Procs -> BOOLEAN]
    /\ sig \in [Procs -> BOOLEAN]
    /\ failed \in [Procs -> BOOLEAN]
    /\ path \in Procs \cup {None, Stale}
    /\ spoilt \in [Procs -> BOOLEAN]
    /\ at \in [Requests -> Procs \cup {None}]
    /\ fate \in [Requests -> {"new", "queued", "active", "answered", "unheard",
                              "refused", "cut"}]
    /\ path \in Procs => st[path] \notin {"off", "boot", "clean"}
    /\ \A p \in Procs :
          /\ At(p, "active") # {} => st[p] \notin {"off", "boot", "clean"}
          /\ accepting[p] => st[p] \in {"bound", "run"}

(* Under a patient panel a process that has got through newListener can    *)
(* be reached for as long as it serves, whatever became of the processes   *)
(* before it (main.go:210-223).                                            *)
Reachable ==
    \A p \in Procs :
        patient /\ st[p] \in {"bound", "run"} /\ ~ failed[p] => path = p

(* A shutdown lets every request that fits into its 10 s come to its       *)
(* answer: a short request is cut off only by the death of the process or  *)
(* by a Serve that has failed (main.go:274-276).                           *)
ShortNotCut ==
    [][\A r \in Short :
          fate[r] = "active" /\ fate'[r] = "cut" =>
            st[at[r]] # "close" \/ failed[at[r]]]_vars

(* A process that was sent a signal after Notify, or whose Serve has       *)
(* failed, ends, even if a request it serves never does (main.go:268-281). *)
EndsWhenTold == \A p \in Procs : sig[p] \/ failed[p] ~> st[p] = "off"

(* Under a patient panel a process comes up and listens at the path,       *)
(* whatever its predecessors have left there, unless it is misconfigured,  *)
(* told to end, killed, or may not remove what it finds (main.go:210-217). *)
ComesUp ==
    \A p \in Procs :
        patient /\ st[p] = "boot" ~> spoilt[p] \/ (accepting[p] /\ path = p)

=============================================================================
