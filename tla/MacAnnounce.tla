----------------------------- MODULE MacAnnounce -----------------------------
(***************************************************************************)
(* The macOS backend of dns_sd_macos.c: dns_sd_announce registers every    *)
(* service with DNSServiceRegister on the caller's thread and starts       *)
(* process_events, which opens the stop pipe and runs a select() loop over *)
(* the services' sockets and the pipe's read end; dns_sd_term, on another  *)
(* thread, writes to the pipe's write end.                                 *)
(*                                                                         *)
(* File descriptors are modelled: the process's descriptor table is shared *)
(* with the rest of the program, whose threads open and close descriptors  *)
(* of their own (churn), and every open(), socket() and pipe() takes the   *)
(* lowest free numbers, as POSIX requires.                                 *)
(***************************************************************************)
EXTENDS ServiceBatch

CONSTANTS
    MaxFd,       \* descriptors are 0..MaxFd; EMFILE above
    InitOther,   \* descriptors the rest of the program holds at the start
    MaxEvents,   \* bound on replies the daemon sends on service sockets
    MaxChurn,    \* bound on opens and closes by the program's other threads
    KeptOpen,    \* descriptors the program never closes (its stdio)
    SpawnFails   \* pthread_create may fail (no resources for another thread)

Fds == 0..MaxFd
NoFd == -1       \* stop_fd before pipe() succeeds
Undef == -2      \* last_fd before anything is assigned to it

ASSUME MacAssumption ==
    /\ MaxFd \in Nat
    /\ InitOther \subseteq Fds
    /\ MaxEvents \in Nat
    /\ MaxChurn \in Nat
    /\ KeptOpen \subseteq InitOther
    /\ SpawnFails \in BOOLEAN

\* Who holds an open descriptor: nobody, the rest of the program, the
\* socket of one of our DNSServiceRefs, or our stop pipe.
Owners == {"free", "other", "svc", "pipe"}

VARIABLES
    cfgPort, cfgChan,   \* the configuration (never changes)
    port, name,         \* ctx[i].port != 0, ctx[i].name
    ctxSt,              \* ctx and svcs
    mpc, ri,            \* the caller of dns_sd_announce and its loop index
    owner,              \* the descriptor table
    sdRef,              \* svcs->sd_ref[i] != NULL
    refFd,              \* DNSServiceRefSockFD(svcs->sd_ref[i])
    sdFd,               \* svcs->sd_fd[i] (calloc: 0)
    pending,            \* a daemon reply is waiting on service i's socket
    pipeData,           \* the stop pipe holds the bytes dns_sd_term wrote
    stopFd,             \* the global stop_fd[2], as <<read end, write end>>
    lastFd,             \* process_events's last_fd
    tpc,                \* process_events
    apc, aw,            \* the thread calling dns_sd_term; the fd it read
    termRes,            \* where dns_sd_term's write went
    termLate,           \* dns_sd_term was called once process_events was started
    events, churn       \* bounds

vars == <<cfgPort, cfgChan, port, name, ctxSt, mpc, ri, owner, sdRef, refFd,
          sdFd, pending, pipeData, stopFd, lastFd, tpc, apc, aw, termRes,
          termLate, events, churn>>

FreeFds == {f \in Fds : owner[f] = "free"}
LowestOf(S) == CHOOSE f \in S : \A g \in S : f <= g

\* The descriptors select() is asked about: FD_SET(stop_fd[0]) and every
\* sd_fd[i] > 0, of which select() looks at those below nfds.
ReadFds == {stopFd[1]} \cup {sdFd[i] : i \in {j \in Slots : sdFd[j] > 0}}
Watched(nfds) == {f \in ReadFds : 0 <= f /\ f < nfds}

\* nfds = last_fd + 1; last_fd never assigned is whatever the stack held.
NfdsChoices == IF lastFd = Undef THEN 0..(MaxFd + 1) ELSE {lastFd + 1}

\* The descriptors with data to read.
Readable == {refFd[i] : i \in {j \in Slots : sdRef[j] /\ pending[j]}}
            \cup (IF pipeData THEN {stopFd[1]} ELSE {})

-----------------------------------------------------------------------------
Init ==
    /\ cfgPort \in Configs
    /\ cfgChan \in ChanConfigs
    /\ port = [i \in Slots |-> FALSE]
    /\ name = [i \in Slots |-> NULL]
    /\ ctxSt = "none"
    /\ mpc = "start" /\ ri = 0
    /\ owner = [f \in Fds |-> IF f \in InitOther THEN "other" ELSE "free"]
    /\ sdRef = [i \in Slots |-> FALSE]
    /\ refFd = [i \in Slots |-> NoFd]
    /\ sdFd = [i \in Slots |-> 0]
    /\ pending = [i \in Slots |-> FALSE]
    /\ pipeData = FALSE
    /\ stopFd = <<NoFd, NoFd>>
    /\ lastFd = Undef
    /\ tpc = "none"
    /\ apc = "idle" /\ aw = NoFd /\ termRes = "none" /\ termLate = FALSE
    /\ events = 0 /\ churn = 0

-----------------------------------------------------------------------------
(* dns_sd_announce, on the caller's thread.                                *)

AnnounceNothing ==
    /\ mpc = "start"
    /\ dns_sd_service_count(cfgPort) = 0
    /\ mpc' = "done"
    /\ UNCHANGED <<cfgPort, cfgChan, port, name, ctxSt, ri, owner, sdRef, refFd,
                   sdFd, pending, pipeData, stopFd, lastFd, tpc, apc, aw,
                   termRes, termLate, events, churn>>

\* Build ctx and the zeroed svcs, and start the registration loop.
dns_sd_announce ==
    /\ mpc = "start"
    /\ dns_sd_service_count(cfgPort) > 0
    /\ LET ctx == dns_sd_create_context(cfgPort, cfgChan)
       IN  /\ port' = ctx.port
           /\ name' = ctx.name
    /\ ctxSt' = "live"
    /\ mpc' = "reg" /\ ri' = 0
    /\ UNCHANGED <<cfgPort, cfgChan, owner, sdRef, refFd, sdFd, pending,
                   pipeData, stopFd, lastFd, tpc, apc, aw, termRes, termLate,
                   events, churn>>

\* One turn of the loop: skip a zero port; DNSServiceRegister opens a
\* socket to the daemon and the ref is kept; or it fails, is logged, and the
\* slot is not tracked.
RegisterService ==
    /\ mpc = "reg" /\ ri \in Slots
    /\ \/ /\ ~port[ri]
          /\ UNCHANGED <<owner, sdRef, refFd>>
       \/ /\ port[ri]
          /\ FreeFds # {}
          /\ LET fd == LowestOf(FreeFds)
             IN  /\ owner' = [owner EXCEPT ![fd] = "svc"]
                 /\ refFd' = [refFd EXCEPT ![ri] = fd]
                 /\ sdRef' = [sdRef EXCEPT ![ri] = TRUE]
       \/ /\ port[ri]
          /\ UNCHANGED <<owner, sdRef, refFd>>
    /\ ri' = ri + 1
    /\ UNCHANGED <<cfgPort, cfgChan, port, name, ctxSt, mpc, sdFd, pending,
                   pipeData, stopFd, lastFd, tpc, apc, aw, termRes, termLate,
                   events, churn>>

\* pthread_create(process_events); dns_sd_announce returns without looking
\* at its result, so a failure leaves the refs registered and no thread.
StartEventThread ==
    /\ mpc = "reg" /\ ri = NKiss + 1
    /\ \/ tpc' = "populate"
       \/ /\ SpawnFails
          /\ UNCHANGED tpc
    /\ mpc' = "done"
    /\ UNCHANGED <<cfgPort, cfgChan, port, name, ctxSt, ri, owner, sdRef, refFd,
                   sdFd, pending, pipeData, stopFd, lastFd, apc, aw, termRes,
                   termLate, events, churn>>

-----------------------------------------------------------------------------
(* process_events.                                                         *)

\* Seeded faults: the sd_ref != NULL test is dropped; last_fd is taken
\* from the first slot with a ref.
PopulateFds_all ==
    /\ tpc = "populate"
    /\ LET reg == {i \in Slots : sdRef[i]}
       IN  /\ sdFd' = refFd
           /\ lastFd' = IF reg = {} THEN lastFd
                        ELSE refFd[CHOOSE i \in reg : \A j \in reg : j <= i]
    /\ tpc' = "pipe"
    /\ UNCHANGED <<cfgPort, cfgChan, port, name, ctxSt, mpc, ri, owner, sdRef,
                   refFd, pending, pipeData, stopFd, apc, aw, termRes,
                   termLate, events, churn>>

PopulateFds_firstfd ==
    /\ tpc = "populate"
    /\ LET reg == {i \in Slots : sdRef[i]}
       IN  /\ sdFd' = [i \in Slots |-> IF sdRef[i] THEN refFd[i] ELSE sdFd[i]]
           /\ lastFd' = IF reg = {} THEN lastFd
                        ELSE refFd[CHOOSE i \in reg : \A j \in reg : i <= j]
    /\ tpc' = "pipe"
    /\ UNCHANGED <<cfgPort, cfgChan, port, name, ctxSt, mpc, ri, owner, sdRef,
                   refFd, pending, pipeData, stopFd, apc, aw, termRes,
                   termLate, events, churn>>

\* Copy each ref's socket into sd_fd; last_fd ends as the last slot's.
PopulateFds ==
    /\ tpc = "populate"
    /\ LET reg == {i \in Slots : sdRef[i]}
       IN  /\ sdFd' = [i \in Slots |-> IF sdRef[i] THEN refFd[i] ELSE sdFd[i]]
           /\ lastFd' = IF reg = {} THEN lastFd
                        ELSE refFd[CHOOSE i \in reg : \A j \in reg : j <= i]
    /\ tpc' = "pipe"
    /\ UNCHANGED <<cfgPort, cfgChan, port, name, ctxSt, mpc, ri, owner, sdRef,
                   refFd, pending, pipeData, stopFd, apc, aw, termRes,
                   termLate, events, churn>>

\* Seeded fault: last_fd is not moved to stop_fd[1].
CreateStopPipe_nolast ==
    /\ tpc = "pipe"
    /\ \/ /\ Cardinality(FreeFds) >= 2
          /\ LET r == LowestOf(FreeFds)
                 w == LowestOf(FreeFds \ {r})
             IN  /\ stopFd' = <<r, w>>
                 /\ owner' = [owner EXCEPT ![r] = "pipe", ![w] = "pipe"]
                 /\ UNCHANGED lastFd
       \/ /\ Cardinality(FreeFds) < 2
          /\ UNCHANGED <<stopFd, owner, lastFd>>
    /\ tpc' = "loop"
    /\ UNCHANGED <<cfgPort, cfgChan, port, name, ctxSt, mpc, ri, sdRef, refFd,
                   sdFd, pending, pipeData, apc, aw, termRes, termLate, events,
                   churn>>

\* pipe(stop_fd): the two lowest free descriptors, and last_fd = stop_fd[1];
\* with fewer than two free it fails (EMFILE), is logged, and stop_fd stays.
CreateStopPipe ==
    /\ tpc = "pipe"
    /\ \/ /\ Cardinality(FreeFds) >= 2
          /\ LET r == LowestOf(FreeFds)
                 w == LowestOf(FreeFds \ {r})
             IN  /\ stopFd' = <<r, w>>
                 /\ owner' = [owner EXCEPT ![r] = "pipe", ![w] = "pipe"]
                 /\ lastFd' = w
       \/ /\ Cardinality(FreeFds) < 2
          /\ UNCHANGED <<stopFd, owner, lastFd>>
    /\ tpc' = "loop"
    /\ UNCHANGED <<cfgPort, cfgChan, port, name, ctxSt, mpc, ri, sdRef, refFd,
                   sdFd, pending, pipeData, apc, aw, termRes, termLate, events,
                   churn>>

\* select() returns with the pipe's read end readable: break.
SelectStop ==
    /\ tpc = "loop"
    /\ \E nfds \in NfdsChoices : stopFd[1] \in Readable \cap Watched(nfds)
    /\ tpc' = "cleanup"
    /\ UNCHANGED <<cfgPort, cfgChan, port, name, ctxSt, mpc, ri, owner, sdRef,
                   refFd, sdFd, pending, pipeData, stopFd, lastFd, apc, aw,
                   termRes, termLate, events, churn>>

\* select() returns service sockets only: DNSServiceProcessResult on each
\* reads its reply and runs registration_callback, which only logs; an
\* error from it sets stop_now, and the other sockets are still served.
SelectServices ==
    /\ tpc = "loop"
    /\ \E nfds \in NfdsChoices :
         LET rd == Readable \cap Watched(nfds)
             served == {i \in Slots : sdFd[i] > 0 /\ sdFd[i] \in rd}
         IN  /\ rd # {}
             /\ stopFd[1] \notin rd
             /\ pending' = [i \in Slots |-> pending[i] /\ i \notin served]
             /\ \E errs \in SUBSET served :
                  tpc' = IF errs = {} THEN "loop" ELSE "cleanup"
    /\ UNCHANGED <<cfgPort, cfgChan, port, name, ctxSt, mpc, ri, owner, sdRef,
                   refFd, sdFd, pipeData, stopFd, lastFd, apc, aw, termRes,
                   termLate, events, churn>>

\* select() fails with an errno other than EINTR: stop_now.
SelectFail ==
    /\ tpc = "loop"
    /\ tpc' = "cleanup"
    /\ UNCHANGED <<cfgPort, cfgChan, port, name, ctxSt, mpc, ri, owner, sdRef,
                   refFd, sdFd, pending, pipeData, stopFd, lastFd, apc, aw,
                   termRes, termLate, events, churn>>

\* Seeded fault: the pipe is not closed.
Cleanup_keeppipe ==
    /\ tpc = "cleanup"
    /\ LET closed == {refFd[i] : i \in {j \in Slots : sdRef[j]}}
       IN  owner' = [f \in Fds |-> IF f \in closed THEN "free" ELSE owner[f]]
    /\ sdRef' = [i \in Slots |-> FALSE]
    /\ pending' = [i \in Slots |-> FALSE]
    /\ pipeData' = FALSE
    /\ ctxSt' = "freed"
    /\ tpc' = "done"
    /\ UNCHANGED <<cfgPort, cfgChan, port, name, mpc, ri, refFd, sdFd, stopFd,
                   lastFd, apc, aw, termRes, termLate, events, churn>>

\* Seeded fault: the DNSServiceRefDeallocate loop stops one slot early.
Cleanup_lastref ==
    /\ tpc = "cleanup"
    /\ LET kept == {j \in Slots : sdRef[j] /\ j < NKiss}
           closed == {refFd[i] : i \in kept}
                     \cup ({stopFd[1], stopFd[2]} \cap Fds)
       IN  owner' = [f \in Fds |-> IF f \in closed THEN "free" ELSE owner[f]]
    /\ sdRef' = [i \in Slots |-> sdRef[i] /\ i = NKiss]
    /\ pending' = [i \in Slots |-> FALSE]
    /\ pipeData' = FALSE
    /\ ctxSt' = "freed"
    /\ tpc' = "done"
    /\ UNCHANGED <<cfgPort, cfgChan, port, name, mpc, ri, refFd, sdFd, stopFd,
                   lastFd, apc, aw, termRes, termLate, events, churn>>

\* Seeded fault: cleanup closes sd_fd[i] of every slot, including the
\* calloc'ed 0 of a slot whose registration failed.
Cleanup_sdfd ==
    /\ tpc = "cleanup"
    /\ LET closed == {sdFd[i] : i \in Slots}
                     \cup ({stopFd[1], stopFd[2]} \cap Fds)
       IN  owner' = [f \in Fds |-> IF f \in closed THEN "free" ELSE owner[f]]
    /\ sdRef' = [i \in Slots |-> FALSE]
    /\ pending' = [i \in Slots |-> FALSE]
    /\ pipeData' = FALSE
    /\ ctxSt' = "freed"
    /\ tpc' = "done"
    /\ UNCHANGED <<cfgPort, cfgChan, port, name, mpc, ri, refFd, sdFd, stopFd,
                   lastFd, apc, aw, termRes, termLate, events, churn>>

\* Clean up: DNSServiceRefDeallocate closes every ref's socket, the names,
\* ctx and svcs are freed, and both ends of the pipe are closed; stop_fd
\* keeps the closed numbers.
Cleanup ==
    /\ tpc = "cleanup"
    /\ LET closed == {refFd[i] : i \in {j \in Slots : sdRef[j]}}
                     \cup ({stopFd[1], stopFd[2]} \cap Fds)
       IN  owner' = [f \in Fds |-> IF f \in closed THEN "free" ELSE owner[f]]
    /\ sdRef' = [i \in Slots |-> FALSE]
    /\ pending' = [i \in Slots |-> FALSE]
    /\ pipeData' = FALSE
    /\ ctxSt' = "freed"
    /\ tpc' = "done"
    /\ UNCHANGED <<cfgPort, cfgChan, port, name, mpc, ri, refFd, sdFd, stopFd,
                   lastFd, apc, aw, termRes, termLate, events, churn>>

-----------------------------------------------------------------------------
(* The environment: the daemon and the program's other threads.            *)

\* The daemon sends a registration reply on a service's socket.
DaemonReply(i) ==
    /\ sdRef[i] /\ ~pending[i]
    /\ events < MaxEvents
    /\ pending' = [pending EXCEPT ![i] = TRUE]
    /\ events' = events + 1
    /\ UNCHANGED <<cfgPort, cfgChan, port, name, ctxSt, mpc, ri, owner, sdRef,
                   refFd, sdFd, pipeData, stopFd, lastFd, tpc, apc, aw, termRes,
                   termLate, churn>>

\* Another thread opens a descriptor (a client connection, a file).
OtherOpen ==
    /\ churn < MaxChurn /\ FreeFds # {}
    /\ owner' = [owner EXCEPT ![LowestOf(FreeFds)] = "other"]
    /\ churn' = churn + 1
    /\ UNCHANGED <<cfgPort, cfgChan, port, name, ctxSt, mpc, ri, sdRef, refFd,
                   sdFd, pending, pipeData, stopFd, lastFd, tpc, apc, aw,
                   termRes, termLate, events>>

\* Another thread closes one of its descriptors.
OtherClose(f) ==
    /\ churn < MaxChurn /\ owner[f] = "other" /\ f \notin KeptOpen
    /\ owner' = [owner EXCEPT ![f] = "free"]
    /\ churn' = churn + 1
    /\ UNCHANGED <<cfgPort, cfgChan, port, name, ctxSt, mpc, ri, sdRef, refFd,
                   sdFd, pending, pipeData, stopFd, lastFd, tpc, apc, aw,
                   termRes, termLate, events>>

-----------------------------------------------------------------------------
(* dns_sd_term on the application's thread: test stop_fd[1], then write.  *)

TermCheck ==
    /\ apc = "idle"
    /\ termLate' = (tpc # "none")
    /\ \/ /\ stopFd[2] # NoFd
          /\ aw' = stopFd[2]
          /\ apc' = "check"
          /\ UNCHANGED termRes
       \/ /\ stopFd[2] = NoFd
          /\ apc' = "done"
          /\ termRes' = "skipped"
          /\ UNCHANGED aw
    /\ UNCHANGED <<cfgPort, cfgChan, port, name, ctxSt, mpc, ri, owner, sdRef,
                   refFd, sdFd, pending, pipeData, stopFd, lastFd, tpc, events,
                   churn>>

\* write(stop_fd[1]): fills the pipe if it is still ours; on a closed
\* descriptor it fails with EBADF; a reused one gets the bytes.
TermWrite ==
    /\ apc = "check"
    /\ pipeData' = (pipeData \/ (owner[aw] = "pipe" /\ aw = stopFd[2]))
    /\ termRes' = owner[aw]
    /\ apc' = "done"
    /\ UNCHANGED <<cfgPort, cfgChan, port, name, ctxSt, mpc, ri, owner, sdRef,
                   refFd, sdFd, pending, stopFd, lastFd, tpc, aw, termLate,
                   events, churn>>

-----------------------------------------------------------------------------
Next ==
    \/ AnnounceNothing \/ dns_sd_announce \/ RegisterService \/ StartEventThread
    \/ PopulateFds \/ CreateStopPipe
    \/ SelectStop \/ SelectServices \/ SelectFail \/ Cleanup
    \/ \E i \in Slots : DaemonReply(i)
    \/ OtherOpen \/ \E f \in Fds : OtherClose(f)
    \/ TermCheck \/ TermWrite

\* The caller and process_events make progress, and select() returns when a
\* descriptor it watches is readable; a select() error is never assumed.
\* dns_sd_term need never be called, but a call once begun returns.
Fairness ==
    /\ WF_vars(AnnounceNothing \/ dns_sd_announce)
    /\ WF_vars(RegisterService) /\ WF_vars(StartEventThread)
    /\ WF_vars(PopulateFds) /\ WF_vars(CreateStopPipe)
    /\ WF_vars(SelectStop \/ SelectServices)
    /\ WF_vars(Cleanup)
    /\ WF_vars(TermWrite)

Spec == Init /\ [][Next]_vars
FairSpec == Spec /\ Fairness

-----------------------------------------------------------------------------
TypeOK ==
    /\ cfgPort \in Configs /\ cfgChan \in ChanConfigs
    /\ port \in [Slots -> BOOLEAN]
    /\ name \in [Slots -> Names \cup {NULL}]
    /\ ctxSt \in {"none", "live", "freed"}
    /\ mpc \in {"start", "reg", "done"} /\ ri \in 0..(NKiss + 1)
    /\ owner \in [Fds -> Owners]
    /\ sdRef \in [Slots -> BOOLEAN]
    /\ refFd \in [Slots -> Fds \cup {NoFd}]
    /\ sdFd \in [Slots -> Fds]
    /\ pending \in [Slots -> BOOLEAN] /\ pipeData \in BOOLEAN
    /\ stopFd \in (Fds \cup {NoFd}) \X (Fds \cup {NoFd})
    /\ lastFd \in Fds \cup {Undef}
    /\ tpc \in {"none", "populate", "pipe", "loop", "cleanup", "done"}
    /\ apc \in {"idle", "check", "done"} /\ aw \in Fds \cup {NoFd}
    /\ termRes \in Owners \cup {"none", "skipped"} /\ termLate \in BOOLEAN
    /\ events \in 0..MaxEvents /\ churn \in 0..MaxChurn

\* Descriptor accounting across dns_sd_announce, process_events and the
\* other threads: a descriptor is a service socket exactly when a kept
\* DNSServiceRef owns it, no two refs share one, the stop pipe holds its two
\* descriptors from pipe() until cleanup closes them, and once the thread
\* is done every ref is released and ctx freed.
FdAccounting ==
    /\ \A f \in Fds : owner[f] = "svc" <=> \E i \in Slots : sdRef[i] /\ refFd[i] = f
    /\ \A i, j \in Slots : sdRef[i] /\ sdRef[j] /\ i # j => refFd[i] # refFd[j]
    /\ \A f \in Fds : owner[f] = "pipe" <=> tpc # "done" /\ f \in {stopFd[1], stopFd[2]}
    /\ tpc = "done" => ctxSt = "freed" /\ \A i \in Slots : ~sdRef[i]

\* A dns_sd_term whose write reached the stop pipe ends process_events and
\* its cleanup: select() watches the pipe's read end (nfds is past it).
StopHonoured ==
    (termRes = "pipe") ~> (tpc = "done")

\* Every reply the daemon sends on a kept ref's socket is read by
\* DNSServiceProcessResult while the loop runs: select()'s nfds covers
\* every service socket, and none of them is skipped by the sd_fd > 0 test.
ReplyProcessed ==
    \A i \in Slots :
        (tpc = "loop" /\ pending[i]) ~> (~pending[i] \/ tpc \in {"cleanup", "done"})

\* (spec 4.5) A dns_sd_term called once dns_sd_announce has started
\* process_events stops that thread.
TermStopsThread ==
    (apc = "done" /\ termLate) ~> (tpc = "done")

\* (spec 6) dns_sd_term is safe once the session has ended: its write never
\* lands on a descriptor another part of the program holds.
TermWritesOwnPipe ==
    [][TermWrite => owner[aw] \in {"pipe", "free"}]_vars

\* The backend never takes or releases a descriptor that the rest of the
\* program holds: socket() in DNSServiceRegister and pipe() take free
\* descriptors, and cleanup's DNSServiceRefDeallocate and close() release
\* only the refs' sockets and the pipe; a descriptor becomes or stops being
\* another thread's only by that thread's own open() or close().
ForeignFdsKept ==
    [][\A f \in Fds :
         (owner'[f] = "other") # (owner[f] = "other") => OtherOpen \/ OtherClose(f)]_vars

\* (spec 65) Once dns_sd_announce has returned with services registered, a
\* dedicated worker runs for the session: process_events is started, so the
\* refs are served and are released when the session stops.
WorkerStarted ==
    (mpc = "done" /\ \E i \in Slots : sdRef[i]) ~> (tpc # "none")

\* process_events never calls select() with nfds taken from last_fd before
\* anything was assigned to it.
NfdsAssigned ==
    tpc = "loop" => lastFd # Undef

-----------------------------------------------------------------------------
(* The lifecycle of spec 4.5 in this backend's state: the session runs     *)
(* once dns_sd_announce has registered the services and returned, tears    *)
(* down once the select() loop has ended, and has stopped once cleanup has *)
(* released everything.  The stop signal is dns_sd_term's write reaching   *)
(* the stop pipe; the daemon handles are the kept DNSServiceRefs.          *)

LifecyclePhase ==
    CASE ctxSt = "freed"                                  -> "Stopped"
      [] ctxSt # "freed" /\ tpc = "cleanup"               -> "TearingDown"
      [] ctxSt = "live" /\ mpc = "done" /\ tpc # "cleanup" -> "Running"
      [] OTHER                                            -> "Idle"

Abstract == INSTANCE AnnounceLifecycle WITH
    phase <- LifecyclePhase,
    stop <- termRes = "pipe",
    batch <- ctxSt,
    handles <- \E i \in Slots : sdRef[i]

\* The macOS backend implements the common lifecycle with its fairness:
\* registration, the select() loop, its errors, cleanup and dns_sd_term
\* are lifecycle steps or leave it as it is, cleanup releases every ref
\* before the session counts as stopped, and a stop byte in the pipe ends
\* the session.
ImplementsLifecycle == Abstract!FairSpec

=============================================================================
