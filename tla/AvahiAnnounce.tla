---------------------------- MODULE AvahiAnnounce ----------------------------
(***************************************************************************)
(* The Avahi backend of dns_sd_avahi.c: dns_sd_announce on the caller's    *)
(* thread, the callbacks client_callback and entry_group_callback run by   *)
(* the simple poll loop of avahi_thread, the cleanup at the end of that    *)
(* thread, and dns_sd_term called by the application from another thread. *)
(*                                                                         *)
(* The Avahi daemon is the environment: each daemon event is one step that *)
(* changes the daemon's state and runs the callback the event is delivered *)
(* to.  create_services adds the services one slot per step, the way its   *)
(* for loop calls avahi_entry_group_add_service; no other callback runs on *)
(* the thread until it returns, which the guard cs = Idle expresses.       *)
(***************************************************************************)
EXTENDS ServiceBatch

CONSTANTS
    Others,      \* <<type, name>> entries other programs publish on this host
    MaxDisrupt,  \* bound on daemon-side disruptions: remote group collisions
                 \* and server re-registrations (host name change or collision)
    SpawnFails   \* pthread_create may fail (no resources for another thread)

Entries == ServiceTypes \X Names

ASSUME AvahiAssumption ==
    /\ Others \subseteq Entries
    /\ MaxDisrupt \in Nat
    /\ SpawnFails \in BOOLEAN

\* cs is the slot create_services is adding; NKiss + 1 once its loop is
\* done and the group is being committed; Idle outside create_services.
Idle == -1
Cursor == {Idle} \cup 0..(NKiss + 1)

Alloc == {"none", "live", "freed"}
ServerStates == {"running", "registering", "collision"}
GroupStates == {"uncommitted", "registering", "established", "failure"}

VARIABLES
    cfgPort, cfgChan,   \* the configuration (never changes)
    port, name,         \* ctx[i].port != 0, ctx[i].name
    ctxSt,              \* the ctx array and its names
    pollSt, pollPtr,    \* the AvahiSimplePoll object, the global simple_poll
    quit,               \* the poll's quit flag, set by avahi_simple_poll_quit
    clientSt,           \* the AvahiClient (global client)
    groupSt,            \* the AvahiEntryGroup (global group)
    gstate, entries,    \* the daemon's state of the group and its entries
    srv,                \* the daemon's server state
    cs,                 \* create_services progress
    mpc,                \* the caller of dns_sd_announce
    tpc,                \* avahi_thread
    apc, aptr,          \* the application thread calling dns_sd_term, and
                        \* the value of simple_poll it has read
    disrupt             \* daemon disruptions so far

vars == <<cfgPort, cfgChan, port, name, ctxSt, pollSt, pollPtr, quit, clientSt,
          groupSt, gstate, entries, srv, cs, mpc, tpc, apc, aptr, disrupt>>

ActiveSlots == {i \in Slots : port[i]}
Entry(i) == <<SType(i), name[i]>>
CurrentEntries == {Entry(i) : i \in ActiveSlots}

-----------------------------------------------------------------------------
Init ==
    /\ cfgPort \in Configs
    /\ cfgChan \in ChanConfigs
    /\ port = [i \in Slots |-> FALSE]
    /\ name = [i \in Slots |-> NULL]
    /\ ctxSt = "none"
    /\ pollSt = "none" /\ pollPtr = "null" /\ quit = FALSE
    /\ clientSt = "none"
    /\ groupSt = "none" /\ gstate = "uncommitted" /\ entries = {}
    /\ srv \in ServerStates
    /\ cs = Idle
    /\ mpc = "start"
    /\ tpc = "none"
    /\ apc = "idle" /\ aptr = "null"
    /\ disrupt = 0

-----------------------------------------------------------------------------
(* Helpers that are parts of several handlers.                             *)

\* dns_sd_term called from a callback: quit the poll if there is one.
dns_sd_term ==
    quit' = (quit \/ pollPtr = "set")

\* avahi_entry_group_reset: the daemon withdraws every entry of the group.
avahi_entry_group_reset ==
    /\ entries' = {}
    /\ gstate' = "uncommitted"

\* rename_all_services: every slot with a name gets the next alternative.
rename_all_services ==
    name' = [i \in Slots |-> IF name[i] # NULL
                             THEN avahi_alternative_service_name(name[i])
                             ELSE name[i]]

\* Seeded fault: the group is not reset before it is filled again.
create_services_noreset ==
    \/ /\ groupSt = "none"
       /\ dns_sd_term
       /\ cs' = Idle
       /\ UNCHANGED <<groupSt, gstate, entries>>
    \/ /\ groupSt = "none"
       /\ groupSt' = "live"
       /\ entries' = {} /\ gstate' = "uncommitted"
       /\ cs' = 0
       /\ UNCHANGED quit
    \/ /\ groupSt = "live"
       /\ cs' = IF entries = {} THEN 0 ELSE Idle
       /\ UNCHANGED <<groupSt, gstate, entries, quit>>

\* create_services up to its loop: create the group on first use, else reset
\* it; the loop starts at slot 0 only if the group is empty.
create_services ==
    \/ /\ groupSt = "none"               \* avahi_entry_group_new() failed
       /\ dns_sd_term
       /\ cs' = Idle
       /\ UNCHANGED <<groupSt, gstate, entries>>
    \/ /\ groupSt = "none"
       /\ groupSt' = "live"
       /\ entries' = {} /\ gstate' = "uncommitted"
       /\ cs' = 0
       /\ UNCHANGED quit
    \/ /\ groupSt = "live"
       /\ avahi_entry_group_reset
       /\ cs' = IF entries' = {} THEN 0 ELSE Idle
       /\ UNCHANGED <<groupSt, quit>>

\* client_callback for a server state: register on RUNNING, withdraw the
\* group's entries on COLLISION and REGISTERING.
client_callback(s) ==
    IF s = "running"
    THEN create_services
    ELSE /\ IF groupSt = "live"
            THEN avahi_entry_group_reset
            ELSE UNCHANGED <<gstate, entries>>
         /\ UNCHANGED <<groupSt, quit, cs>>

\* cleanup, as the caller of dns_sd_announce runs it when setup fails.
CallerCleanup ==
    /\ pollSt' = IF pollSt = "live" THEN "freed" ELSE pollSt
    /\ pollPtr' = "null"
    /\ ctxSt' = "freed"

-----------------------------------------------------------------------------
(* The caller of dns_sd_announce.                                          *)

\* No non-zero port: return at once.
AnnounceNothing ==
    /\ mpc = "start"
    /\ dns_sd_service_count(cfgPort) = 0
    /\ mpc' = "done"
    /\ UNCHANGED <<cfgPort, cfgChan, port, name, ctxSt, pollSt, pollPtr, quit,
                   clientSt, groupSt, gstate, entries, srv, cs, tpc, apc, aptr,
                   disrupt>>

\* Build the context, then create the simple poll; if that fails, cleanup.
dns_sd_announce ==
    /\ mpc = "start"
    /\ dns_sd_service_count(cfgPort) > 0
    /\ LET ctx == dns_sd_create_context(cfgPort, cfgChan)
       IN  /\ port' = ctx.port
           /\ name' = ctx.name
    /\ \/ /\ pollSt' = "live" /\ pollPtr' = "set"
          /\ ctxSt' = "live"
          /\ mpc' = "connect"
       \/ /\ ctxSt' = "freed"                \* avahi_simple_poll_new() failed
          /\ mpc' = "done"
          /\ UNCHANGED <<pollSt, pollPtr>>
    /\ UNCHANGED <<cfgPort, cfgChan, quit, clientSt, groupSt, gstate, entries,
                   srv, cs, tpc, apc, aptr, disrupt>>

\* avahi_client_new: fails, or succeeds after calling client_callback with
\* the server's current state on the caller's own thread.
ClientNew ==
    /\ mpc = "connect"
    /\ \/ /\ CallerCleanup
          /\ mpc' = "done"
          /\ UNCHANGED <<clientSt, groupSt, gstate, entries, quit, cs>>
       \/ /\ clientSt' = "live"
          /\ client_callback(srv)
          /\ mpc' = "inclient"
          /\ UNCHANGED <<pollSt, pollPtr, ctxSt>>
    /\ UNCHANGED <<cfgPort, cfgChan, port, name, srv, tpc, apc, aptr, disrupt>>

\* avahi_client_new has returned a client: start avahi_thread.  The result
\* of pthread_create is not looked at: if it fails, dns_sd_announce returns
\* with the poll, the client and the group alive and no thread to run them.
StartThread ==
    /\ mpc = "inclient"
    /\ cs = Idle
    /\ \/ tpc' = "loop"
       \/ /\ SpawnFails
          /\ UNCHANGED tpc
    /\ mpc' = "done"
    /\ UNCHANGED <<cfgPort, cfgChan, port, name, ctxSt, pollSt, pollPtr, quit,
                   clientSt, groupSt, gstate, entries, srv, cs, apc, aptr,
                   disrupt>>

-----------------------------------------------------------------------------
(* The loop of create_services, on whichever thread runs it.               *)

\* A slot with port 0 is skipped.
SkipService ==
    /\ cs \in Slots
    /\ ~port[cs]
    /\ cs' = cs + 1
    /\ UNCHANGED <<cfgPort, cfgChan, port, name, ctxSt, pollSt, pollPtr, quit,
                   clientSt, groupSt, gstate, entries, srv, mpc, tpc, apc,
                   aptr, disrupt>>

\* Seeded faults: a collision renames once and adds without asking again;
\* a collision retries with the same name.
create_service_once ==
    /\ cs \in Slots
    /\ port[cs]
    /\ \/ /\ Entry(cs) \in Others \cup entries
          /\ name' = [name EXCEPT ![cs] = avahi_alternative_service_name(@)]
          /\ entries' = entries \cup {<<SType(cs), name'[cs]>>}
          /\ cs' = cs + 1
          /\ UNCHANGED quit
       \/ /\ Entry(cs) \notin Others \cup entries
          /\ entries' = entries \cup {Entry(cs)}
          /\ cs' = cs + 1
          /\ UNCHANGED <<name, quit>>
       \/ /\ dns_sd_term
          /\ cs' = Idle
          /\ UNCHANGED <<name, entries>>
    /\ UNCHANGED <<cfgPort, cfgChan, port, ctxSt, pollSt, pollPtr, clientSt,
                   groupSt, gstate, srv, mpc, tpc, apc, aptr, disrupt>>

create_service_norename ==
    /\ cs \in Slots
    /\ port[cs]
    /\ \/ /\ Entry(cs) \in Others \cup entries
          /\ UNCHANGED <<name, entries, cs, quit>>
       \/ /\ Entry(cs) \notin Others \cup entries
          /\ entries' = entries \cup {Entry(cs)}
          /\ cs' = cs + 1
          /\ UNCHANGED <<name, quit>>
       \/ /\ dns_sd_term
          /\ cs' = Idle
          /\ UNCHANGED <<name, entries>>
    /\ UNCHANGED <<cfgPort, cfgChan, port, ctxSt, pollSt, pollPtr, clientSt,
                   groupSt, gstate, srv, mpc, tpc, apc, aptr, disrupt>>

\* One call of avahi_entry_group_add_service by create_service: on a
\* collision with an entry the daemon already holds, rename and retry; on
\* success go to the next slot; any other error ends create_services with
\* dns_sd_term and no commit.
create_service ==
    /\ cs \in Slots
    /\ port[cs]
    /\ \/ /\ Entry(cs) \in Others \cup entries
          /\ name' = [name EXCEPT ![cs] = avahi_alternative_service_name(@)]
          /\ UNCHANGED <<entries, cs, quit>>
       \/ /\ Entry(cs) \notin Others \cup entries
          /\ entries' = entries \cup {Entry(cs)}
          /\ cs' = cs + 1
          /\ UNCHANGED <<name, quit>>
       \/ /\ dns_sd_term
          /\ cs' = Idle
          /\ UNCHANGED <<name, entries>>
    /\ UNCHANGED <<cfgPort, cfgChan, port, ctxSt, pollSt, pollPtr, clientSt,
                   groupSt, gstate, srv, mpc, tpc, apc, aptr, disrupt>>

\* Seeded fault: the loop of create_services runs one slot too far.
CommitGroup_overrun ==
    /\ cs = NKiss + 1
    /\ \/ /\ gstate' = "registering"
          /\ UNCHANGED quit
       \/ /\ dns_sd_term
          /\ UNCHANGED gstate
    /\ cs' = cs + 1
    /\ UNCHANGED <<cfgPort, cfgChan, port, name, ctxSt, pollSt, pollPtr,
                   clientSt, groupSt, entries, srv, mpc, tpc, apc, aptr,
                   disrupt>>

\* avahi_entry_group_commit: the daemon starts registering, or it fails and
\* create_services calls dns_sd_term.
CommitGroup ==
    /\ cs = NKiss + 1
    /\ \/ /\ gstate' = "registering"
          /\ UNCHANGED quit
       \/ /\ dns_sd_term
          /\ UNCHANGED gstate
    /\ cs' = Idle
    /\ UNCHANGED <<cfgPort, cfgChan, port, name, ctxSt, pollSt, pollPtr,
                   clientSt, groupSt, entries, srv, mpc, tpc, apc, aptr,
                   disrupt>>

-----------------------------------------------------------------------------
(* Daemon events dispatched by avahi_simple_poll_loop on avahi_thread.     *)

ThreadReady ==
    /\ tpc = "loop"
    /\ ~quit
    /\ cs = Idle

\* The server changes state; client_callback runs.  Leaving RUNNING is a
\* disruption and is bounded.
ClientStateChange(s) ==
    /\ ThreadReady
    /\ s # srv
    /\ s # "running" => disrupt < MaxDisrupt
    /\ srv' = s
    /\ disrupt' = IF s = "running" THEN disrupt ELSE disrupt + 1
    /\ client_callback(s)
    /\ UNCHANGED <<cfgPort, cfgChan, port, name, ctxSt, pollSt, pollPtr,
                   clientSt, mpc, tpc, apc, aptr>>

\* AVAHI_CLIENT_FAILURE: the connection to the daemon is lost.
ClientFailure ==
    /\ ThreadReady
    /\ dns_sd_term
    /\ UNCHANGED <<cfgPort, cfgChan, port, name, ctxSt, pollSt, pollPtr,
                   clientSt, groupSt, gstate, entries, srv, cs, mpc, tpc, apc,
                   aptr, disrupt>>

\* AVAHI_ENTRY_GROUP_ESTABLISHED: only reported.
GroupEstablished ==
    /\ ThreadReady
    /\ groupSt = "live" /\ gstate = "registering"
    /\ gstate' = "established"
    /\ UNCHANGED <<cfgPort, cfgChan, port, name, ctxSt, pollSt, pollPtr, quit,
                   clientSt, groupSt, entries, srv, cs, mpc, tpc, apc, aptr,
                   disrupt>>

\* AVAHI_ENTRY_GROUP_COLLISION: a remote host holds one of the names, which
\* one is not said; rename every service and create them again.
GroupCollision ==
    /\ ThreadReady
    /\ groupSt = "live" /\ gstate \in {"registering", "established"}
    /\ disrupt < MaxDisrupt
    /\ disrupt' = disrupt + 1
    /\ rename_all_services
    /\ create_services
    /\ UNCHANGED <<cfgPort, cfgChan, port, ctxSt, pollSt, pollPtr, clientSt,
                   srv, mpc, tpc, apc, aptr>>

\* AVAHI_ENTRY_GROUP_FAILURE: reported, then dns_sd_term.
GroupFailure ==
    /\ ThreadReady
    /\ groupSt = "live" /\ gstate \in {"registering", "established"}
    /\ gstate' = "failure"
    /\ dns_sd_term
    /\ UNCHANGED <<cfgPort, cfgChan, port, name, ctxSt, pollSt, pollPtr,
                   clientSt, groupSt, entries, srv, cs, mpc, tpc, apc, aptr,
                   disrupt>>

-----------------------------------------------------------------------------
(* The end of avahi_thread: the loop returns once quit is set, and cleanup *)
(* frees group, client and simple poll, then clears simple_poll and frees  *)
(* the names and ctx.                                                      *)

\* Seeded faults: cleanup forgets the group; cleanup forgets ctx.
ThreadExit_keepgroup ==
    /\ tpc = "loop"
    /\ quit
    /\ cs = Idle
    /\ clientSt' = "freed"
    /\ pollSt' = "freed"
    /\ tpc' = "exiting"
    /\ UNCHANGED <<cfgPort, cfgChan, port, name, ctxSt, pollPtr, quit, gstate,
                   groupSt, entries, srv, cs, mpc, apc, aptr, disrupt>>

ThreadCleanupDone_leak ==
    /\ tpc = "exiting"
    /\ pollPtr' = "null"
    /\ tpc' = "done"
    /\ UNCHANGED <<cfgPort, cfgChan, port, name, ctxSt, pollSt, quit, clientSt,
                   groupSt, gstate, entries, srv, cs, mpc, apc, aptr, disrupt>>

ThreadExit ==
    /\ tpc = "loop"
    /\ quit
    /\ cs = Idle
    /\ groupSt' = IF groupSt = "live" THEN "freed" ELSE groupSt
    /\ clientSt' = "freed"
    /\ pollSt' = "freed"
    /\ tpc' = "exiting"
    /\ UNCHANGED <<cfgPort, cfgChan, port, name, ctxSt, pollPtr, quit, gstate,
                   entries, srv, cs, mpc, apc, aptr, disrupt>>

ThreadCleanupDone ==
    /\ tpc = "exiting"
    /\ pollPtr' = "null"
    /\ ctxSt' = "freed"
    /\ tpc' = "done"
    /\ UNCHANGED <<cfgPort, cfgChan, port, name, pollSt, quit, clientSt,
                   groupSt, gstate, entries, srv, cs, mpc, apc, aptr, disrupt>>

-----------------------------------------------------------------------------
(* dns_sd_term on the application's thread: it reads simple_poll, then    *)
(* calls avahi_simple_poll_quit on what it read.  On a poll already freed  *)
(* the call writes freed memory; the model leaves quit as it is.           *)

TermRead ==
    /\ apc = "idle"
    /\ aptr' = pollPtr
    /\ apc' = "read"
    /\ UNCHANGED <<cfgPort, cfgChan, port, name, ctxSt, pollSt, pollPtr, quit,
                   clientSt, groupSt, gstate, entries, srv, cs, mpc, tpc,
                   disrupt>>

TermQuit ==
    /\ apc = "read"
    /\ quit' = (quit \/ (aptr = "set" /\ pollSt = "live"))
    /\ apc' = "done"
    /\ UNCHANGED <<cfgPort, cfgChan, port, name, ctxSt, pollSt, pollPtr,
                   clientSt, groupSt, gstate, entries, srv, cs, mpc, tpc, aptr,
                   disrupt>>

-----------------------------------------------------------------------------
Next ==
    \/ AnnounceNothing \/ dns_sd_announce \/ ClientNew \/ StartThread
    \/ SkipService \/ create_service \/ CommitGroup
    \/ \E s \in ServerStates : ClientStateChange(s)
    \/ ClientFailure \/ GroupEstablished \/ GroupCollision \/ GroupFailure
    \/ ThreadExit \/ ThreadCleanupDone
    \/ TermRead \/ TermQuit

\* The program's threads make progress; the daemon eventually gets its host
\* name registered again and eventually reports a committed group
\* established.  An error reply to avahi_entry_group_add_service is never
\* assumed to come: only the steps that leave quit alone are fair.  The
\* application need never call dns_sd_term, but a call once begun returns.
Fairness ==
    /\ WF_vars(AnnounceNothing \/ dns_sd_announce)
    /\ WF_vars(ClientNew) /\ WF_vars(StartThread)
    /\ WF_vars(SkipService \/ (create_service /\ UNCHANGED quit) \/ CommitGroup)
    /\ WF_vars(ThreadExit) /\ WF_vars(ThreadCleanupDone)
    /\ WF_vars(ClientStateChange("running"))
    /\ WF_vars(GroupEstablished)
    /\ WF_vars(TermQuit)

Spec == Init /\ [][Next]_vars
FairSpec == Spec /\ Fairness

-----------------------------------------------------------------------------
TypeOK ==
    /\ cfgPort \in Configs /\ cfgChan \in ChanConfigs
    /\ port \in [Slots -> BOOLEAN]
    /\ name \in [Slots -> Names \cup {NULL}]
    /\ \A i \in ActiveSlots : name[i] \in Names
    /\ ctxSt \in Alloc /\ pollSt \in Alloc /\ clientSt \in Alloc
    /\ groupSt \in Alloc
    /\ pollPtr \in {"null", "set"} /\ aptr \in {"null", "set"}
    /\ quit \in BOOLEAN
    /\ gstate \in GroupStates
    /\ entries \in SUBSET Entries
    /\ srv \in ServerStates
    /\ cs \in Cursor
    /\ mpc \in {"start", "connect", "inclient", "done"}
    /\ tpc \in {"none", "loop", "exiting", "done"}
    /\ apc \in {"idle", "read", "done"}
    /\ disrupt \in 0..MaxDisrupt


\* Every entry the daemon holds in our group carries the current name of one
\* of our services: after a collision renames services, and after the
\* server re-registers, no stale name stays published (create_services and
\* client_callback reset the group before anything is added again).
GroupNamesCurrent ==
    groupSt = "live" => entries \subseteq CurrentEntries

\* A committed group holds exactly the current names of all configured
\* services, pairwise distinct and free of the names other programs hold:
\* create_service's retry loop and the full reset after a group collision
\* leave no service out and no name clash in what is published.
CommittedGroupComplete ==
    groupSt = "live" /\ gstate \in {"registering", "established"}
    => /\ entries = CurrentEntries
       /\ entries \cap Others = {}
       /\ \A i, j \in ActiveSlots : i # j => Entry(i) # Entry(j)

\* cleanup releases in dependency order: the group is never alive without
\* its client, nor the client without the poll it runs on, and the names
\* and ctx are released only after all three, on every path (the caller's
\* cleanup after a failed setup and avahi_thread's cleanup after the loop).
ReleaseOrder ==
    /\ groupSt = "live" => clientSt = "live"
    /\ clientSt = "live" => pollSt = "live"
    /\ ctxSt = "freed" => "live" \notin {groupSt, clientSt, pollSt}

\* dns_sd_term called by the application never calls avahi_simple_poll_quit
\* on a poll that cleanup has already freed.
NoQuitOnFreedPoll ==
    [][TermQuit => (aptr = "set" => pollSt = "live")]_vars

\* A call of dns_sd_term that found a poll leads to the whole session being
\* torn down: the loop of avahi_thread returns and cleanup frees ctx.
StopHonoured ==
    (apc = "done" /\ aptr = "set") ~> (ctxSt = "freed")

\* The announcement settles: nothing to announce, torn down, or a group
\* established with the current names of all services.
Settled ==
    \/ mpc = "done" /\ ctxSt = "none"
    \/ ctxSt = "freed"
    \/ /\ tpc = "loop" /\ ~quit
       /\ groupSt = "live" /\ gstate = "established"
       /\ entries = CurrentEntries

\* Whatever the collisions and server re-registrations, and whichever fatal
\* error happens, the announcement settles for good: create_service's retry
\* loop ends and every fatal error reaches dns_sd_term and cleanup.
AnnounceSettles == <>[]Settled

-----------------------------------------------------------------------------
(* The lifecycle of spec 4.5 in this backend's state: the session runs     *)
(* once avahi_client_new has returned a client, tears down from the moment *)
(* avahi_thread's cleanup has freed group, client and poll, and has        *)
(* stopped once ctx is freed.  The stop signal is the poll's quit flag.    *)

LifecyclePhase ==
    CASE ctxSt = "freed"                                    -> "Stopped"
      [] ctxSt # "freed" /\ tpc = "exiting"                 -> "TearingDown"
      [] ctxSt = "live" /\ clientSt = "live" /\ tpc # "exiting" -> "Running"
      [] OTHER                                              -> "Idle"

Abstract == INSTANCE AnnounceLifecycle WITH
    phase <- LifecyclePhase,
    stop <- quit,
    batch <- ctxSt,
    handles <- "live" \in {pollSt, clientSt, groupSt}

\* The Avahi backend implements the common lifecycle, whether or not
\* pthread_create succeeds: every step of dns_sd_announce, the callbacks,
\* cleanup on either thread and dns_sd_term is a lifecycle step or leaves
\* the lifecycle as it is.
ImplementsLifecycleSafety == Abstract!Spec

\* With avahi_thread running, the Avahi backend implements the lifecycle
\* with its fairness too: a raised quit flag ends the loop and cleanup
\* stops the session.
ImplementsLifecycle == Abstract!FairSpec

=============================================================================
