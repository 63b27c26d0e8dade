--------------------------- MODULE SingleInstance ---------------------------
(***************************************************************************)
(* How daemons keep out of each other's way: each wants to listen on the   *)
(* one socket path, and takes an answer on it for another daemon at work   *)
(* (startSocket in daemon/socket.go, NewSocketServer and Close in          *)
(* common/socket.go, Stop in daemon/main.go).  Looking, removing what a    *)
(* dead daemon left, and listening are system calls of their own, and each *)
(* may fail: a daemon that cannot open the socket works without one.       *)
(***************************************************************************)
EXTENDS Naturals, FiniteSets

CONSTANTS
    Daemons,        \* processes, each started once
    MaxDials        \* bound: attempts until socketInUseWait is over

ASSUME DialsAssumption == MaxDials \in Nat \ {0}
ASSUME DaemonsAssumption == "none" \notin Daemons /\ "file" \notin Daemons

VARIABLES
    state,          \* where each daemon is
    dials,          \* attempts it has made
    path,           \* whose socket is at the path, "none" if nothing is, "file"
                    \* if it is no socket
    serving,        \* daemons whose listener is open
    \* history
    failed,         \* daemons that could not open the socket, though nobody had it
    missed,         \* a daemon could not reach one that was listening
    overlap         \* chosen at the start: whether a daemon may start before the
                    \* last one has decided, or even at the same moment

instanceVars == <<state, dials, path, serving, failed, missed>>

States == {"off", "dial", "wait", "inspect", "remove", "listen", "chmod", "running", "deaf",
           "stopping", "closing", "ended"}

InstanceTypeOK ==
    /\ state \in [Daemons -> States]
    /\ dials \in [Daemons -> 0..MaxDials]
    /\ path \in Daemons \cup {"none", "file"}
    /\ serving \subseteq {d \in Daemons : state[d] \in {"chmod", "running", "stopping", "closing"}}
    /\ failed \subseteq {d \in Daemons : state[d] \in {"deaf", "stopping", "closing", "ended"}}
    /\ missed \in BOOLEAN

InstanceInit ==
    /\ state = [d \in Daemons |-> "off"]
    /\ dials = [d \in Daemons |-> 0]
    /\ path \in {"none", "file"} /\ serving = {}
    /\ failed = {} /\ missed = FALSE
    /\ overlap \in BOOLEAN

Goes(d, to) == state' = [state EXCEPT ![d] = to]

Starting == {d \in Daemons : state[d] \in {"dial", "wait", "inspect", "remove", "listen", "chmod"}}

StartDaemon(d) ==
    /\ state[d] = "off"
    /\ overlap \/ Starting = {}
    /\ Goes(d, "dial")
    /\ UNCHANGED <<dials, path, serving, failed, missed>>

-----------------------------------------------------------------------------
(* NewSocketServer *)

\* The daemon goes on without a socket.
WithoutSocket(d) == Goes(d, "deaf") /\ failed' = failed \cup {d}

\* The path is too long or its directory cannot be made; what is at the path
\* cannot be removed; listening fails.
SocketFails(d) ==
    /\ state[d] \in {"dial", "remove", "listen"}
    /\ WithoutSocket(d)
    /\ UNCHANGED <<dials, path, serving, missed>>

\* Mutant: any socket at the path is taken for one left behind.
DialNot(d) ==
    /\ state[d] = "dial" /\ dials[d] < MaxDials
    /\ dials' = [dials EXCEPT ![d] = @ + 1]
    /\ Goes(d, "inspect")
    /\ UNCHANGED <<path, serving, failed, missed>>

\* Somebody answers, or the path leads nowhere.
Dial(d) ==
    /\ state[d] = "dial" /\ dials[d] < MaxDials
    /\ dials' = [dials EXCEPT ![d] = @ + 1]
    /\ Goes(d, IF path \in serving THEN "wait" ELSE "inspect")
    /\ UNCHANGED <<path, serving, failed, missed>>

\* Any other error is taken for nobody there, a timeout too.
DialFails(d) ==
    /\ state[d] = "dial" /\ dials[d] < MaxDials /\ path \in serving
    /\ dials' = [dials EXCEPT ![d] = @ + 1]
    /\ Goes(d, "inspect") /\ missed' = TRUE
    /\ UNCHANGED <<path, serving, failed>>

\* Mutant: startSocket tries for ever.
WaitOverNever(d) ==
    /\ state[d] = "wait"
    /\ Goes(d, "dial")
    /\ dials' = [dials EXCEPT ![d] = 0]
    /\ UNCHANGED <<path, serving, failed, missed>>

\* startSocket tries again until its time is over; then the daemon exits.
WaitOver(d) ==
    /\ state[d] = "wait"
    /\ Goes(d, IF dials[d] = MaxDials THEN "ended" ELSE "dial")
    /\ UNCHANGED <<dials, path, serving, failed, missed>>

\* What is at the path: nothing, something that is no socket and is left
\* alone, or a socket nobody answers at.
Lstat(d) ==
    /\ state[d] = "inspect"
    /\ \/ path = "file" /\ WithoutSocket(d)
       \/ path # "file" /\ Goes(d, IF path = "none" THEN "listen" ELSE "remove") /\ UNCHANGED failed
    /\ UNCHANGED <<dials, path, serving, missed>>

\* What is removed is what is there now; there may be nothing any more, which
\* is an error too.
RemoveStale(d) ==
    /\ state[d] = "remove"
    /\ Goes(d, IF path = "none" THEN "deaf" ELSE "listen")
    /\ path' = "none"
    /\ UNCHANGED <<dials, serving, failed, missed>>

\* The path may be taken by now.
Listen(d) ==
    /\ state[d] = "listen"
    /\ IF path = "none"
       THEN Goes(d, "chmod") /\ path' = d /\ serving' = serving \cup {d}
       ELSE Goes(d, "deaf") /\ UNCHANGED <<path, serving>>
    /\ UNCHANGED <<dials, failed, missed>>

\* If the permissions cannot be set the listener is closed again.
Chmod(d) ==
    /\ state[d] = "chmod"
    /\ \/ Goes(d, "running") /\ UNCHANGED <<path, serving, failed>>
       \/ WithoutSocket(d) /\ path' = "none" /\ serving' = serving \ {d}
    /\ UNCHANGED <<dials, missed>>

-----------------------------------------------------------------------------
(* The end of a daemon. *)

\* Stop waits for the watchers; a daemon that waits for the path just ends.
StopDaemon(d) ==
    /\ state[d] \in {"wait", "running", "deaf"}
    /\ Goes(d, IF state[d] = "wait" THEN "ended" ELSE "stopping")
    /\ UNCHANGED <<dials, path, serving, failed, missed>>

\* The watchers have ended.  Closing a listener removes its path first,
\* whatever is there by now.
Unlink(d) ==
    /\ state[d] = "stopping"
    /\ Goes(d, "closing")
    /\ path' = IF d \in serving THEN "none" ELSE path
    /\ UNCHANGED <<dials, serving, failed, missed>>

CloseListener(d) ==
    /\ state[d] = "closing"
    /\ Goes(d, "ended")
    /\ serving' = serving \ {d}
    /\ UNCHANGED <<dials, path, failed, missed>>

\* The process is killed: its socket stays behind and answers nobody.
KillDaemon(d) ==
    /\ state[d] \notin {"off", "ended"}
    /\ Goes(d, "ended")
    /\ serving' = serving \ {d}
    /\ UNCHANGED <<dials, path, failed, missed>>

Begin(d) == \/ SocketFails(d) \/ Dial(d) \/ DialFails(d) \/ WaitOver(d)
            \/ Lstat(d) \/ RemoveStale(d) \/ Listen(d) \/ Chmod(d)

InstanceNext ==
    /\ \E d \in Daemons :
         StartDaemon(d) \/ Begin(d) \/ StopDaemon(d) \/ Unlink(d) \/ CloseListener(d) \/ KillDaemon(d)
    /\ UNCHANGED overlap

\* A process that has started runs.
InstanceFairness == \A d \in Daemons : WF_instanceVars(Begin(d))

InstanceSpec == InstanceInit /\ [][InstanceNext]_<<instanceVars, overlap>> /\ InstanceFairness

-----------------------------------------------------------------------------
(* Properties. *)

\* The daemons whose watchers may be syncing.  (One that outlives the wait of
\* Stop is a matter of module DaemonWatchers.)
AtWork == {d \in Daemons : state[d] \in {"running", "deaf", "stopping"}}

\* Of the daemons that could open their socket only one works at a time: one
\* that finds another waits for it to go or exits, and what a killed one leaves
\* behind is taken over.  One that could not is found by nobody, and may work
\* beside any other.  Daemons that start at the same moment are outside this
\* promise: between looking, removing and listening one may remove the socket
\* the other just made; and so is a daemon that listens and cannot be reached.
OneDaemon == ~overlap /\ ~missed => Cardinality(AtWork \ failed) <= 1

\* The daemon at work is the one that answers at the path, in the same cases.
AtWorkAnswers == ~overlap /\ ~missed => \A d \in AtWork \ failed : path = d /\ d \in serving

\* A daemon that is started comes to work or ends; it does not wait for ever.
StartDecides == \A d \in Daemons : state[d] = "dial" ~> state[d] \in {"running", "deaf", "ended"}

\* Whatever daemons are started, stopped and killed around the path, one at
\* most works that could open its socket, and it is the one that answers
\* (NewSocketServer, startSocket).
InstanceInv == InstanceTypeOK /\ OneDaemon /\ AtWorkAnswers
=============================================================================
