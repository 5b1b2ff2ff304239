------------------------- MODULE AvahiAnnounceProofs -------------------------
(***************************************************************************)
(* Proofs about the Avahi backend, for every value of the constants.       *)
(***************************************************************************)
EXTENDS AvahiAnnounce, ServiceBatchProofs, TLAPS

Committed == {"registering", "established"}

\* The active slots create_services has already added when it is at slot c.
ActiveBelow(c) == {j \in ActiveSlots : j < c}

\* The entries of the slots in S carry pairwise distinct names.
DistinctOn(S) == \A i, j \in S : i # j => Entry(i) # Entry(j)

\* Before dns_sd_announce has connected there is no group, no
\* create_services in progress and no avahi_thread.
NoGroupBeforeConnect ==
    mpc \in {"start", "connect"} => groupSt = "none" /\ cs = Idle /\ tpc = "none"

\* While create_services is in its loop, the group holds exactly the
\* entries of the active slots before the cursor, with distinct names.
LoopEntries ==
    cs # Idle =>
        /\ groupSt = "live" /\ gstate = "uncommitted"
        /\ entries = {Entry(j) : j \in ActiveBelow(cs)}
        /\ DistinctOn(ActiveBelow(cs))

\* The group holds current names only, and none another program holds.
GroupCurrent ==
    groupSt = "live" =>
        /\ entries \subseteq CurrentEntries
        /\ entries \cap Others = {}

\* A committed group holds every service, with distinct names.
CommittedFull ==
    groupSt = "live" /\ gstate \in Committed =>
        /\ cs = Idle
        /\ entries = CurrentEntries
        /\ DistinctOn(ActiveSlots)

\* The inductive strengthening of GroupNamesCurrent and
\* CommittedGroupComplete.
IInv ==
    /\ TypeOK
    /\ NoGroupBeforeConnect
    /\ LoopEntries
    /\ GroupCurrent
    /\ CommittedFull

-----------------------------------------------------------------------------
(* Type correctness.                                                       *)

\* An entry of a slot with a name is an entry.
LEMMA EntryType ==
    ASSUME NEW i \in Slots, NEW nm \in Names
    PROVE  <<SType(i), nm>> \in Entries
BY DEF Entries, ServiceTypes, SType

\* create_services, and so client_callback, keep the group's variables,
\* quit and the cursor in their types.
LEMMA CreateServicesType ==
    ASSUME TypeOK, create_services
    PROVE  /\ groupSt' \in Alloc /\ gstate' \in GroupStates
           /\ entries' \in SUBSET Entries /\ quit' \in BOOLEAN /\ cs' \in Cursor
<1> USE DEF TypeOK, Alloc, GroupStates, Cursor, Idle
<1>1. CASE groupSt = "none" /\ dns_sd_term /\ cs' = Idle
           /\ UNCHANGED <<groupSt, gstate, entries>>
  BY <1>1, Zenon DEF dns_sd_term
<1>2. CASE groupSt = "none" /\ groupSt' = "live" /\ entries' = {}
           /\ gstate' = "uncommitted" /\ cs' = 0 /\ UNCHANGED quit
  <2>1. cs' \in Cursor
    BY <1>2, BatchAssumption
  <2>2. QED
    BY <1>2, <2>1, Zenon
<1>3. CASE groupSt = "live" /\ avahi_entry_group_reset
           /\ cs' = (IF entries' = {} THEN 0 ELSE Idle) /\ UNCHANGED <<groupSt, quit>>
  <2>1. entries' = {} /\ gstate' = "uncommitted"
    BY <1>3 DEF avahi_entry_group_reset
  <2>2. cs' = 0
    BY <1>3, <2>1
  <2>3. cs' \in Cursor
    BY <2>2, BatchAssumption
  <2>4. QED
    BY <1>3, <2>1, <2>3, Zenon
<1>4. QED
  BY <1>1, <1>2, <1>3, Zenon DEF create_services

LEMMA ClientCallbackType ==
    ASSUME TypeOK, NEW s \in ServerStates, client_callback(s)
    PROVE  /\ groupSt' \in Alloc /\ gstate' \in GroupStates
           /\ entries' \in SUBSET Entries /\ quit' \in BOOLEAN /\ cs' \in Cursor
<1>1. CASE s = "running"
  BY <1>1, CreateServicesType DEF client_callback
<1>2. CASE s # "running"
  BY <1>2, Zenon DEF client_callback, avahi_entry_group_reset, TypeOK, GroupStates
<1>3. QED
  BY <1>1, <1>2

\* Every step keeps every variable in its type.
LEMMA TypeStep == TypeOK /\ [Next]_vars => TypeOK'
<1> USE DEF Alloc, Cursor, Idle, GroupStates, ServerStates, Slots
<1> SUFFICES ASSUME TypeOK, [Next]_vars PROVE TypeOK'
  OBVIOUS
<1> USE DEF TypeOK, ActiveSlots
<1>1. CASE AnnounceNothing
  BY <1>1 DEF AnnounceNothing
<1>2. CASE dns_sd_announce
  BY <1>2, ContextType DEF dns_sd_announce
<1>3. CASE ClientNew
  <2>1. CASE CallerCleanup /\ mpc' = "done"
             /\ UNCHANGED <<clientSt, groupSt, gstate, entries, quit, cs>>
    BY <1>3, <2>1 DEF ClientNew, CallerCleanup
  <2>2. CASE clientSt' = "live" /\ client_callback(srv) /\ mpc' = "inclient"
             /\ UNCHANGED <<pollSt, pollPtr, ctxSt>>
    BY <1>3, <2>2, ClientCallbackType DEF ClientNew
  <2>3. QED
    BY <1>3, <2>1, <2>2 DEF ClientNew
<1>4. CASE StartThread
  BY <1>4 DEF StartThread
<1>5. CASE SkipService
  BY <1>5, BatchAssumption DEF SkipService, Slots
<1>6. CASE create_service
  <2>1. cs \in Slots /\ port[cs]
    BY <1>6 DEF create_service
  <2>2. name[cs] \in Names /\ Entry(cs) \in Entries
    BY <2>1, EntryType DEF Entry
  <2>3. quit' \in BOOLEAN
    BY <1>6, Zenon DEF create_service, dns_sd_term
  <2>4. cs' \in Cursor
    BY <1>6, <2>1, BatchAssumption DEF create_service, Slots
  <2>5. name' \in [Slots -> Names \cup {NULL}] /\ \A i \in ActiveSlots' : name'[i] \in Names
    BY <1>6, <2>1, <2>2, AltNameType DEF create_service
  <2>6. entries' \in SUBSET Entries
    BY <1>6, <2>2 DEF create_service
  <2>7. QED
    BY <1>6, <2>3, <2>4, <2>5, <2>6 DEF create_service
<1>7. CASE CommitGroup
  <2>1. quit' \in BOOLEAN /\ gstate' \in GroupStates
    BY <1>7, Zenon DEF CommitGroup, dns_sd_term
  <2>2. QED
    BY <1>7, <2>1 DEF CommitGroup
<1>8. ASSUME NEW s \in ServerStates, ClientStateChange(s)
      PROVE  TypeOK'
  BY <1>8, ClientCallbackType, AvahiAssumption DEF ClientStateChange
<1>9. CASE ClientFailure
  BY <1>9 DEF ClientFailure, dns_sd_term
<1>10. CASE GroupEstablished
  BY <1>10 DEF GroupEstablished
<1>11. CASE GroupCollision
  <2>1. name' \in [Slots -> Names \cup {NULL}] /\ \A i \in ActiveSlots' : name'[i] \in Names
    BY <1>11, AltNameType DEF GroupCollision, rename_all_services
  <2>2. QED
    BY <1>11, <2>1, CreateServicesType, AvahiAssumption DEF GroupCollision
<1>12. CASE GroupFailure
  BY <1>12 DEF GroupFailure, dns_sd_term
<1>13. CASE ThreadExit
  BY <1>13 DEF ThreadExit
<1>14. CASE ThreadCleanupDone
  BY <1>14 DEF ThreadCleanupDone
<1>15. CASE TermRead
  BY <1>15 DEF TermRead
<1>16. CASE TermQuit
  BY <1>16 DEF TermQuit
<1>17. CASE UNCHANGED vars
  BY <1>17 DEF vars
<1>18. QED
  BY <1>1, <1>2, <1>3, <1>4, <1>5, <1>6, <1>7, <1>8, <1>9, <1>10, <1>11,
     <1>12, <1>13, <1>14, <1>15, <1>16, <1>17 DEF Next

\* The initial states are typed.
LEMMA TypeInit == Init => TypeOK
<1> USE DEF Alloc, Cursor, Idle, GroupStates, ServerStates, Slots
<1> SUFFICES ASSUME Init PROVE TypeOK
  OBVIOUS
<1>1. port \in [Slots -> BOOLEAN] /\ \A i \in {i \in Slots : port[i]} : name[i] \in Names
  BY DEF Init
<1>2. name \in [Slots -> Names \cup {NULL}]
  BY DEF Init
<1>3. disrupt \in 0..MaxDisrupt
  BY AvahiAssumption DEF Init
<1>4. cs \in Cursor /\ cfgPort \in Configs /\ cfgChan \in ChanConfigs
  BY DEF Init
<1>5. entries \in SUBSET Entries /\ quit \in BOOLEAN
  BY Zenon DEF Init
<1>6. QED
  BY <1>1, <1>2, <1>3, <1>4, <1>5 DEF Init, TypeOK, ActiveSlots

\* Every reachable state of the Avahi backend has every variable in its type.
THEOREM TypeCorrect == Spec => []TypeOK
<1>1. Init => TypeOK
  BY TypeInit
<1>2. TypeOK /\ [Next]_vars => TypeOK'
  BY TypeStep
<1>3. QED
  BY <1>1, <1>2, PTL DEF Spec

-----------------------------------------------------------------------------
(* The group invariants.                                                   *)

\* The active slots below the cursor: none at slot 0, all of them once the
\* loop is past the last slot, and one more at each active slot passed.
LEMMA ActiveBelowFacts ==
    ASSUME port \in [Slots -> BOOLEAN]
    PROVE  /\ ActiveBelow(0) = {}
           /\ ActiveBelow(NKiss + 1) = ActiveSlots
           /\ \A c \in Slots : ActiveBelow(c + 1) = ActiveBelow(c) \cup (IF port[c] THEN {c} ELSE {})
BY BatchAssumption DEF ActiveBelow, ActiveSlots, Slots

\* Init establishes the strengthening.
LEMMA IInvInit == Init => IInv
<1> SUFFICES ASSUME Init PROVE IInv
  OBVIOUS
<1>1. TypeOK
  BY TypeInit
<1>2. NoGroupBeforeConnect /\ LoopEntries /\ GroupCurrent /\ CommittedFull
  BY DEF Init, NoGroupBeforeConnect, LoopEntries, GroupCurrent, CommittedFull
<1>3. QED
  BY <1>1, <1>2 DEF IInv

\* create_services leaves the group empty and uncommitted with the loop at
\* slot 0, or (when the group cannot be created) no group and no loop.
LEMMA CreateServicesInv ==
    ASSUME TypeOK, create_services, port' = port
    PROVE  LoopEntries' /\ GroupCurrent' /\ CommittedFull'
<1> USE DEF LoopEntries, GroupCurrent, CommittedFull, Idle
<1>1. ActiveBelow(0)' = {}
  BY DEF ActiveBelow, ActiveSlots, Slots
<1>2. \/ groupSt' = "none" /\ cs' = Idle
      \/ entries' = {} /\ gstate' = "uncommitted" /\ cs' = 0 /\ groupSt' = "live"
  BY Zenon DEF create_services, avahi_entry_group_reset
<1>3. CASE groupSt' = "none" /\ cs' = Idle
  BY <1>3
<1>4. CASE entries' = {} /\ gstate' = "uncommitted" /\ cs' = 0 /\ groupSt' = "live"
  <2>1. {j \in ActiveSlots' : j < cs'} = {}
    BY <1>4 DEF ActiveSlots, Slots
  <2>2. LoopEntries'
    BY <1>4, <2>1 DEF DistinctOn, ActiveBelow
  <2>3. GroupCurrent'
    BY <1>4
  <2>4. CommittedFull'
    BY <1>4 DEF Committed
  <2>5. QED
    BY <2>2, <2>3, <2>4
<1>5. QED
  BY <1>2, <1>3, <1>4

\* client_callback on a state other than RUNNING empties a live group and
\* leaves the cursor alone; on RUNNING it is create_services.
LEMMA ClientCallbackInv ==
    ASSUME TypeOK, cs = Idle, NEW s \in ServerStates, client_callback(s),
           port' = port
    PROVE  LoopEntries' /\ GroupCurrent' /\ CommittedFull'
<1>1. CASE s = "running"
  BY <1>1, CreateServicesInv DEF client_callback
<1>2. CASE s # "running"
  <2>1. cs' = Idle /\ groupSt' = groupSt
        /\ (groupSt = "live" => entries' = {} /\ gstate' = "uncommitted")
    BY <1>2, Zenon DEF client_callback, avahi_entry_group_reset
  <2>2. QED
    BY <2>1 DEF LoopEntries, GroupCurrent, CommittedFull, Idle, Committed
<1>3. QED
  BY <1>1, <1>2

\* Every step preserves the strengthening.
LEMMA IInvStep == IInv /\ [Next]_vars => IInv'
<1> SUFFICES ASSUME IInv, [Next]_vars PROVE IInv'
  OBVIOUS
<1> USE DEF Idle, Cursor, Slots, Committed
<1>0. TypeOK /\ TypeOK'
  BY TypeStep DEF IInv
<1> DEFINE Rest == NoGroupBeforeConnect /\ LoopEntries /\ GroupCurrent /\ CommittedFull
<1> SUFFICES Rest'
  BY <1>0 DEF IInv
<1> USE DEF NoGroupBeforeConnect, LoopEntries, GroupCurrent, CommittedFull,
           ActiveBelow, DistinctOn, Entry, CurrentEntries, ActiveSlots
<1>1. CASE AnnounceNothing
  BY <1>1 DEF AnnounceNothing, IInv
<1>2. CASE dns_sd_announce
  BY <1>2 DEF dns_sd_announce, IInv
<1>3. CASE ClientNew
  <2>1. groupSt = "none" /\ cs = Idle /\ mpc' # "start" /\ mpc' # "connect"
    BY <1>3 DEF ClientNew, IInv
  <2>2. CASE CallerCleanup /\ mpc' = "done"
             /\ UNCHANGED <<clientSt, groupSt, gstate, entries, quit, cs>>
    BY <2>1, <2>2
  <2>3. CASE clientSt' = "live" /\ client_callback(srv) /\ mpc' = "inclient"
    <3>1. port' = port
      BY <1>3 DEF ClientNew
    <3>2. srv \in ServerStates
      BY <1>0 DEF TypeOK
    <3>3. LoopEntries' /\ GroupCurrent' /\ CommittedFull'
      BY <3>1, <3>2, <2>1, <2>3, <1>0, ClientCallbackInv
    <3>4. QED
      BY <3>3, <2>3
  <2>4. QED
    BY <1>3, <2>2, <2>3 DEF ClientNew
<1>4. CASE StartThread
  BY <1>4 DEF StartThread, IInv
<1>5. CASE SkipService
  BY <1>5 DEF SkipService, IInv
<1>6. CASE create_service
  <2>1. /\ cs \in Slots /\ port[cs]
        /\ groupSt = "live" /\ gstate = "uncommitted"
        /\ entries = {Entry(j) : j \in ActiveBelow(cs)}
        /\ DistinctOn(ActiveBelow(cs))
        /\ entries \cap Others = {}
    BY <1>6 DEF create_service, IInv
  <2>2. UNCHANGED <<port, groupSt, gstate, mpc>>
    BY <1>6 DEF create_service
  <2>3. NoGroupBeforeConnect'
    BY <2>1, <2>2 DEF IInv
  <2>4. ActiveSlots' = ActiveSlots
    BY <2>2 DEF ActiveSlots
  <2>5. CommittedFull'
    BY <2>2, <2>1
  <2>6. CASE /\ Entry(cs) \in Others \cup entries
             /\ name' = [name EXCEPT ![cs] = avahi_alternative_service_name(@)]
             /\ UNCHANGED <<entries, cs, quit>>
    <3>1. \A j \in ActiveBelow(cs) : Entry(j)' = Entry(j)
      BY <2>6, <1>0 DEF TypeOK
    <3>2. LoopEntries'
      BY <2>1, <2>2, <2>4, <2>6, <3>1
    <3>3. GroupCurrent'
      BY <2>1, <2>2, <2>4, <2>6, <3>1
    <3>4. QED
      BY <2>3, <2>5, <3>2, <3>3
  <2>7. CASE /\ Entry(cs) \notin Others \cup entries
             /\ entries' = entries \cup {Entry(cs)}
             /\ cs' = cs + 1
             /\ UNCHANGED <<name, quit>>
    <3>1. ActiveBelow(cs + 1) = ActiveBelow(cs) \cup {cs}
      BY <2>1, <1>0, ActiveBelowFacts DEF TypeOK
    <3>2. cs' # Idle
      BY <2>1, <2>7
    <3>3. LoopEntries'
      BY <2>1, <2>2, <2>7, <3>1, <3>2
    <3>4. GroupCurrent'
      BY <2>1, <2>2, <2>7
    <3>5. QED
      BY <2>3, <2>5, <3>3, <3>4
  <2>8. CASE /\ dns_sd_term
             /\ cs' = Idle
             /\ UNCHANGED <<name, entries>>
    BY <2>1, <2>2, <2>3, <2>5, <2>8
  <2>9. QED
    BY <1>6, <2>6, <2>7, <2>8 DEF create_service
<1>7. CASE CommitGroup
  <2>1. /\ cs = NKiss + 1
        /\ groupSt = "live"
        /\ entries = {Entry(j) : j \in ActiveBelow(NKiss + 1)}
        /\ DistinctOn(ActiveBelow(NKiss + 1))
    BY <1>7, BatchAssumption DEF CommitGroup, IInv
  <2>2. ActiveBelow(NKiss + 1) = ActiveSlots
    BY <1>0, ActiveBelowFacts DEF TypeOK
  <2>3. UNCHANGED <<port, name, groupSt, entries, mpc>> /\ cs' = Idle
    BY <1>7 DEF CommitGroup
  <2>4. QED
    BY <2>1, <2>2, <2>3 DEF IInv
<1>8. ASSUME NEW s \in ServerStates, ClientStateChange(s)
      PROVE  Rest'
  <2>1. cs = Idle /\ tpc = "loop" /\ port' = port /\ mpc' = mpc /\ client_callback(s)
    BY <1>8 DEF ClientStateChange, ThreadReady
  <2>2. NoGroupBeforeConnect'
    BY <2>1, <1>8 DEF IInv, ClientStateChange
  <2>3. QED
    BY <2>1, <2>2, <1>0, ClientCallbackInv
<1>9. CASE ClientFailure
  BY <1>9 DEF ClientFailure, IInv
<1>10. CASE GroupEstablished
  BY <1>10 DEF GroupEstablished, IInv
<1>11. CASE GroupCollision
  <2>1. tpc = "loop" /\ port' = port /\ mpc' = mpc /\ tpc' = tpc /\ create_services
    BY <1>11 DEF GroupCollision, ThreadReady
  <2>2. NoGroupBeforeConnect'
    BY <2>1 DEF IInv
  <2>3. QED
    BY <2>1, <2>2, <1>0, CreateServicesInv
<1>12. CASE GroupFailure
  BY <1>12 DEF GroupFailure, IInv
<1>13. CASE ThreadExit
  BY <1>13 DEF ThreadExit, IInv
<1>14. CASE ThreadCleanupDone
  BY <1>14 DEF ThreadCleanupDone, IInv
<1>15. CASE TermRead
  BY <1>15 DEF TermRead, IInv
<1>16. CASE TermQuit
  BY <1>16 DEF TermQuit, IInv
<1>17. CASE UNCHANGED vars
  BY <1>17 DEF vars, IInv
<1>18. QED
  BY <1>1, <1>2, <1>3, <1>4, <1>5, <1>6, <1>7, <1>8, <1>9, <1>10, <1>11,
     <1>12, <1>13, <1>14, <1>15, <1>16, <1>17 DEF Next


\* The strengthened invariant holds in every reachable state.
THEOREM IInvariant == Spec => []IInv
<1>1. Init => IInv
  BY IInvInit
<1>2. IInv /\ [Next]_vars => IInv'
  BY IInvStep
<1>3. QED
  BY <1>1, <1>2, PTL DEF Spec

\* The group invariant implies that the daemon holds no stale name of ours:
\* every entry of a live group is the current name of an active slot.
LEMMA IInvNamesCurrent == IInv => GroupNamesCurrent
  BY DEF IInv, GroupCurrent, GroupNamesCurrent

\* create_services and client_callback's reset keep stale names out of the
\* daemon on every run: after a rename or a server restart the live group
\* only ever holds current names.
THEOREM GroupNamesCorrect == Spec => []GroupNamesCurrent
  BY IInvariant, IInvNamesCurrent, PTL

\* The group invariant implies that a committed group is complete, clear of
\* the other programs' names and without duplicates.
LEMMA IInvCommittedComplete == IInv => CommittedGroupComplete
<1> SUFFICES ASSUME IInv, groupSt = "live", gstate \in {"registering", "established"}
             PROVE  /\ entries = CurrentEntries
                    /\ entries \cap Others = {}
                    /\ \A i, j \in ActiveSlots : i # j => Entry(i) # Entry(j)
  BY DEF CommittedGroupComplete
<1>1. entries = CurrentEntries /\ DistinctOn(ActiveSlots)
  BY DEF IInv, CommittedFull, Committed
<1>2. entries \cap Others = {}
  BY DEF IInv, GroupCurrent
<1>3. QED
  BY <1>1, <1>2 DEF DistinctOn

\* create_service's retry with avahi_alternative_service_name, CommitGroup at
\* the last slot and the full reset after a collision together ensure that
\* whenever the group is committed it publishes every configured service,
\* each under a distinct name no other program holds.
THEOREM CommittedComplete == Spec => []CommittedGroupComplete
  BY IInvariant, IInvCommittedComplete, PTL

-----------------------------------------------------------------------------
(* The release order.  ReleaseOrder is not inductive: a step of ClientNew  *)
(* or of ThreadCleanupDone frees ctx, and only the program counters say    *)
(* that nothing is still alive at that point.  Lifecycle ties each stage   *)
(* of dns_sd_announce and of avahi_thread to the objects alive in it.      *)

\* Before avahi_client_new returns: no thread, no client, no group.
StagesBeforeClient ==
    /\ mpc \in {"start", "connect"} => /\ tpc = "none" /\ clientSt = "none"
                                       /\ groupSt = "none"
    /\ mpc = "start" => ctxSt = "none" /\ pollSt = "none"
    /\ mpc = "connect" => ctxSt = "live" /\ pollSt = "live"

\* While the caller holds the client, or avahi_thread runs its loop, ctx,
\* the poll and the client are alive; the caller starts the thread only once.
StagesRunning ==
    /\ (mpc = "inclient" \/ tpc = "loop")
       => ctxSt = "live" /\ pollSt = "live" /\ clientSt = "live"
    /\ mpc = "inclient" => tpc = "none"
    /\ cs # Idle => mpc = "inclient" \/ tpc = "loop"

\* After cleanup, or after the caller gave up without a thread, nothing is
\* alive, and ctx is freed only in those stages.  If pthread_create failed,
\* ctx, the poll and the client stay alive with no thread and no loop.
StagesReleased ==
    /\ tpc \in {"exiting", "done"} => "live" \notin {groupSt, clientSt, pollSt}
    /\ mpc = "done" /\ tpc = "none" /\ ctxSt # "live"
       => "live" \notin {groupSt, clientSt, pollSt}
    /\ mpc = "done" /\ tpc = "none" /\ ctxSt = "live"
       => pollSt = "live" /\ clientSt = "live" /\ cs = Idle
    /\ ctxSt = "freed" => tpc = "done" \/ (mpc = "done" /\ tpc = "none")

Lifecycle == TypeOK /\ StagesBeforeClient /\ StagesRunning /\ StagesReleased

\* The release order follows from the stages.
LEMMA LifecycleRelease == Lifecycle => ReleaseOrder
<1> SUFFICES ASSUME Lifecycle PROVE ReleaseOrder
  OBVIOUS
<1>1. mpc \in {"start", "connect", "inclient", "done"}
      /\ tpc \in {"none", "loop", "exiting", "done"}
  BY DEF Lifecycle, TypeOK
<1>2. QED
  BY <1>1 DEF Lifecycle, StagesBeforeClient, StagesRunning, StagesReleased,
              ReleaseOrder

\* create_services and client_callback create the group or leave it as it is;
\* they never free it.
LEMMA CallbackGroup ==
    ASSUME NEW s, client_callback(s)
    PROVE  groupSt' \in {groupSt, "live"}
  BY Zenon DEF client_callback, create_services

LEMMA CreateServicesGroup ==
    ASSUME create_services
    PROVE  groupSt' \in {groupSt, "live"}
  BY Zenon DEF create_services

LEMMA LifecycleInit == Init => Lifecycle
  BY TypeInit DEF Init, Lifecycle, StagesBeforeClient, StagesRunning,
                  StagesReleased, Idle

\* Each step keeps every stage's objects alive or released as stated.
LEMMA LifecycleStep == Lifecycle /\ [Next]_vars => Lifecycle'
<1> SUFFICES ASSUME Lifecycle, [Next]_vars PROVE Lifecycle'
  OBVIOUS
<1>0. TypeOK /\ TypeOK'
  BY TypeStep DEF Lifecycle
<1> DEFINE Rest == StagesBeforeClient /\ StagesRunning /\ StagesReleased
<1> SUFFICES Rest'
  BY <1>0 DEF Lifecycle
<1>a. mpc \in {"start", "connect", "inclient", "done"}
      /\ tpc \in {"none", "loop", "exiting", "done"}
  BY DEF Lifecycle, TypeOK
<1> USE <1>a DEF Lifecycle, StagesBeforeClient, StagesRunning, StagesReleased, Idle
<1>1. CASE AnnounceNothing
  BY <1>1 DEF AnnounceNothing
<1>2. CASE dns_sd_announce
  BY <1>2 DEF dns_sd_announce
<1>3. CASE ClientNew
  <2>1. CASE CallerCleanup /\ mpc' = "done"
             /\ UNCHANGED <<clientSt, groupSt, gstate, entries, quit, cs>>
             /\ UNCHANGED <<cfgPort, cfgChan, port, name, srv, tpc, apc, aptr, disrupt>>
    BY <2>1, <1>3 DEF ClientNew, CallerCleanup
  <2>2. CASE clientSt' = "live" /\ client_callback(srv) /\ mpc' = "inclient"
             /\ UNCHANGED <<pollSt, pollPtr, ctxSt>>
             /\ UNCHANGED <<cfgPort, cfgChan, port, name, srv, tpc, apc, aptr, disrupt>>
    BY <2>2, <1>3, CallbackGroup DEF ClientNew
  <2>3. QED
    BY <1>3, <2>1, <2>2 DEF ClientNew
<1>4. CASE StartThread
  BY <1>4 DEF StartThread
<1>5. CASE SkipService
  BY <1>5 DEF SkipService, Slots
<1>6. CASE create_service
  BY <1>6 DEF create_service, Slots
<1>7. CASE CommitGroup
  BY <1>7, BatchAssumption DEF CommitGroup
<1>8. ASSUME NEW s \in ServerStates, ClientStateChange(s)
      PROVE  Rest'
  BY <1>8, CallbackGroup DEF ClientStateChange, ThreadReady
<1>9. CASE ClientFailure
  BY <1>9 DEF ClientFailure, ThreadReady
<1>10. CASE GroupEstablished
  BY <1>10 DEF GroupEstablished, ThreadReady
<1>11. CASE GroupCollision
  BY <1>11, CreateServicesGroup DEF GroupCollision, ThreadReady
<1>12. CASE GroupFailure
  BY <1>12 DEF GroupFailure, ThreadReady
<1>13. CASE ThreadExit
  BY <1>13 DEF ThreadExit
<1>14. CASE ThreadCleanupDone
  BY <1>14 DEF ThreadCleanupDone
<1>15. CASE TermRead
  BY <1>15 DEF TermRead
<1>16. CASE TermQuit
  BY <1>16 DEF TermQuit
<1>17. CASE UNCHANGED vars
  BY <1>17 DEF vars
<1>18. QED
  BY <1>1, <1>2, <1>3, <1>4, <1>5, <1>6, <1>7, <1>8, <1>9, <1>10, <1>11,
     <1>12, <1>13, <1>14, <1>15, <1>16, <1>17 DEF Next

\* cleanup, on the caller's path after a failed setup and on avahi_thread's
\* path after the loop, frees the group before the client, the client
\* before the poll, and ctx and the names last: no object is ever alive
\* after what it depends on is freed.
THEOREM ReleaseOrdered == Spec => []ReleaseOrder
<1>1. Init => Lifecycle
  BY LifecycleInit
<1>2. Lifecycle /\ [Next]_vars => Lifecycle'
  BY LifecycleStep
<1>3. Lifecycle => ReleaseOrder
  BY LifecycleRelease
<1>4. QED
  BY <1>1, <1>2, <1>3, PTL DEF Spec

-----------------------------------------------------------------------------
(* The refinement of AnnounceLifecycle.  Lifecycle says what every stage   *)
(* holds, and that is what the mapping needs: a step inside the loop runs  *)
(* with ctx and the client alive (so the session is Running and stays so), *)
(* cleanup's first step starts from the loop, and its last one from a      *)
(* state with nothing alive.                                                *)

\* Some daemon handle is alive: the mapped value of the lifecycle's handles.
HandlesAlive == "live" \in {pollSt, clientSt, groupSt}

\* A step that keeps ctx, the poll, the client and avahi_thread as they
\* are, can only create the group and can only set quit, taken while the
\* client is alive, is a RaiseStop of the lifecycle or leaves it as it is.
LEMMA QuitOnlyStep ==
    ASSUME quit \in BOOLEAN, quit' \in BOOLEAN, ctxSt = "live", clientSt = "live",
           tpc \in {"none", "loop"},
           UNCHANGED <<ctxSt, pollSt, clientSt, tpc>>,
           groupSt' \in {groupSt, "live"},
           quit => quit'
    PROVE  [Abstract!Next]_Abstract!avars
<1>1. LifecyclePhase' = LifecyclePhase /\ LifecyclePhase = "Running"
  BY DEF LifecyclePhase
<1>2. HandlesAlive' = HandlesAlive
  BY DEF HandlesAlive
<1>3. CASE quit' = quit
  BY <1>1, <1>2, <1>3 DEF Abstract!avars, HandlesAlive
<1>4. CASE quit' = TRUE
  BY <1>1, <1>2, <1>4 DEF Abstract!Next, Abstract!RaiseStop, HandlesAlive
<1>5. quit' = quit \/ quit' = TRUE
  BY Zenon
<1>6. QED
  BY <1>3, <1>4, <1>5, Zenon

\* Every step of the Avahi backend is a step of the lifecycle or leaves the
\* mapped state as it is.
LEMMA RefineStep == Lifecycle /\ [Next]_vars => [Abstract!Next]_Abstract!avars
<1> SUFFICES ASSUME Lifecycle, [Next]_vars PROVE [Abstract!Next]_Abstract!avars
  OBVIOUS
<1>0. TypeOK /\ TypeOK' /\ ReleaseOrder
  BY TypeStep, LifecycleRelease DEF Lifecycle
<1>a. quit \in BOOLEAN /\ quit' \in BOOLEAN
  BY <1>0 DEF TypeOK
\* What the stages say of the objects each step starts from.
<1>b. tpc = "loop" \/ cs # Idle
      => ctxSt = "live" /\ clientSt = "live" /\ tpc \in {"none", "loop"}
  BY DEF Lifecycle, StagesRunning
<1>c. mpc = "start" => ctxSt = "none" /\ tpc = "none" /\ ~HandlesAlive
  BY DEF Lifecycle, StagesBeforeClient, HandlesAlive
<1>d. mpc = "connect" => /\ ctxSt = "live" /\ tpc = "none"
                        /\ clientSt = "none" /\ groupSt = "none"
  BY DEF Lifecycle, StagesBeforeClient
<1>e. tpc \in {"exiting", "done"} => ~HandlesAlive
  BY DEF Lifecycle, StagesReleased, HandlesAlive
<1>f. ctxSt = "freed" => tpc \in {"done", "none"}
  BY DEF Lifecycle, StagesReleased
<1>1. CASE AnnounceNothing
  BY <1>1 DEF AnnounceNothing, Abstract!avars, LifecyclePhase
<1>2. CASE dns_sd_announce
  <2>1. LifecyclePhase = "Idle" /\ ~HandlesAlive /\ ctxSt = "none"
    BY <1>2, <1>c DEF dns_sd_announce, LifecyclePhase
  <2>2. CASE ctxSt' = "live" /\ pollSt' = "live"
    <3>1. LifecyclePhase' = "Idle" /\ HandlesAlive'
      BY <1>2, <2>1, <2>2 DEF dns_sd_announce, LifecyclePhase, HandlesAlive
    <3>2. HandlesAlive' \in {HandlesAlive, TRUE}
      BY <3>1, Zenon
    <3>3. Abstract!Prepare
      BY <1>2, <2>1, <2>2, <3>1, <3>2, Zenon DEF dns_sd_announce, Abstract!Prepare,
                                          LifecyclePhase, HandlesAlive
    <3>4. QED
      BY <3>3 DEF Abstract!Next
  <2>3. CASE ctxSt' = "freed" /\ UNCHANGED pollSt
    <3>1. LifecyclePhase' = "Stopped" /\ ~HandlesAlive'
      BY <1>2, <2>1, <2>3 DEF dns_sd_announce, LifecyclePhase, HandlesAlive
    <3>2. QED
      BY <1>2, <2>1, <2>3, <3>1 DEF dns_sd_announce, Abstract!Next,
                                    Abstract!SetupFail, LifecyclePhase, HandlesAlive
  <2>4. QED
    BY <1>2, <2>2, <2>3 DEF dns_sd_announce
<1>3. CASE ClientNew
  <2>0. LifecyclePhase = "Idle" /\ ctxSt = "live" /\ tpc = "none"
    BY <1>3, <1>d DEF ClientNew, LifecyclePhase
  <2>1. CASE CallerCleanup /\ mpc' = "done"
             /\ UNCHANGED <<clientSt, groupSt, gstate, entries, quit, cs>>
    <3>1. LifecyclePhase' = "Stopped" /\ ~HandlesAlive' /\ ctxSt' = "freed"
      BY <1>3, <1>d, <2>1 DEF ClientNew, CallerCleanup, LifecyclePhase,
                              HandlesAlive
    <3>2. QED
      BY <2>0, <2>1, <3>1 DEF Abstract!Next, Abstract!SetupFail, LifecyclePhase,
                              HandlesAlive
  <2>2. CASE clientSt' = "live" /\ client_callback(srv) /\ mpc' = "inclient"
             /\ UNCHANGED <<pollSt, pollPtr, ctxSt>>
    <3>1. LifecyclePhase' = "Running" /\ HandlesAlive'
      BY <1>3, <2>0, <2>2 DEF ClientNew, LifecyclePhase, HandlesAlive
    <3>2. quit => quit'
      BY <2>2, Zenon DEF client_callback, create_services, dns_sd_term
    <3>3. quit' \in {quit, TRUE}
      BY <3>2, <1>a, Zenon
    <3>4. HandlesAlive' \in {HandlesAlive, TRUE}
      BY <3>1, Zenon
    <3>5. Abstract!Start
      BY <2>0, <2>2, <3>1, <3>3, <3>4, Zenon DEF Abstract!Start, LifecyclePhase,
                                          HandlesAlive
    <3>6. QED
      BY <3>5 DEF Abstract!Next
  <2>3. QED
    BY <1>3, <2>1, <2>2 DEF ClientNew
<1>4. CASE StartThread
  BY <1>4 DEF StartThread, Abstract!avars, LifecyclePhase
<1>5. CASE SkipService
  BY <1>5 DEF SkipService, Abstract!avars, LifecyclePhase
<1>6. CASE create_service
  <2>1. ctxSt = "live" /\ clientSt = "live" /\ tpc \in {"none", "loop"}
    BY <1>6, <1>b DEF create_service, Idle, Slots
  <2>2. quit => quit'
    BY <1>6, Zenon DEF create_service, dns_sd_term
  <2>3. QED
    BY <1>6, <1>a, <2>1, <2>2, QuitOnlyStep DEF create_service
<1>7. CASE CommitGroup
  <2>1. ctxSt = "live" /\ clientSt = "live" /\ tpc \in {"none", "loop"}
    BY <1>7, <1>b, BatchAssumption DEF CommitGroup, Idle
  <2>2. quit => quit'
    BY <1>7, Zenon DEF CommitGroup, dns_sd_term
  <2>3. QED
    BY <1>7, <1>a, <2>1, <2>2, QuitOnlyStep DEF CommitGroup
<1>8. ASSUME NEW s \in ServerStates, ClientStateChange(s)
      PROVE  [Abstract!Next]_Abstract!avars
  <2>1. ctxSt = "live" /\ clientSt = "live" /\ tpc \in {"none", "loop"}
    BY <1>8, <1>b DEF ClientStateChange, ThreadReady
  <2>2. quit => quit'
    BY <1>8, Zenon DEF ClientStateChange, client_callback, create_services,
                       dns_sd_term
  <2>3. groupSt' \in {groupSt, "live"}
    BY <1>8, CallbackGroup DEF ClientStateChange
  <2>4. QED
    BY <1>8, <1>a, <2>1, <2>2, <2>3, QuitOnlyStep DEF ClientStateChange
<1>9. CASE ClientFailure
  <2>1. ctxSt = "live" /\ clientSt = "live" /\ tpc \in {"none", "loop"}
    BY <1>9, <1>b DEF ClientFailure, ThreadReady
  <2>2. quit => quit'
    BY <1>9, Zenon DEF ClientFailure, dns_sd_term
  <2>3. QED
    BY <1>9, <1>a, <2>1, <2>2, QuitOnlyStep DEF ClientFailure
<1>10. CASE GroupEstablished
  BY <1>10 DEF GroupEstablished, Abstract!avars, LifecyclePhase
<1>11. CASE GroupCollision
  <2>1. ctxSt = "live" /\ clientSt = "live" /\ tpc \in {"none", "loop"}
    BY <1>11, <1>b DEF GroupCollision, ThreadReady
  <2>2. quit => quit'
    BY <1>11, Zenon DEF GroupCollision, create_services, dns_sd_term
  <2>3. groupSt' \in {groupSt, "live"}
    BY <1>11, CreateServicesGroup DEF GroupCollision
  <2>4. QED
    BY <1>11, <1>a, <2>1, <2>2, <2>3, QuitOnlyStep DEF GroupCollision
<1>12. CASE GroupFailure
  <2>1. ctxSt = "live" /\ clientSt = "live" /\ tpc \in {"none", "loop"}
    BY <1>12, <1>b DEF GroupFailure, ThreadReady
  <2>2. quit => quit'
    BY <1>12, Zenon DEF GroupFailure, dns_sd_term
  <2>3. QED
    BY <1>12, <1>a, <2>1, <2>2, QuitOnlyStep DEF GroupFailure
<1>13. CASE ThreadExit
  <2>1. LifecyclePhase = "Running"
    BY <1>13, <1>b DEF ThreadExit, LifecyclePhase
  <2>2. LifecyclePhase' = "TearingDown" /\ ~HandlesAlive'
    BY <1>13, <1>b DEF ThreadExit, LifecyclePhase, HandlesAlive
  <2>3. HandlesAlive' = FALSE
    BY <2>2
  <2>4. HandlesAlive' \in {HandlesAlive, FALSE}
    BY <2>3, Zenon
  <2>5. Abstract!Teardown
    BY <1>13, <2>1, <2>2, <2>4, Zenon DEF ThreadExit, Abstract!Teardown,
                                   LifecyclePhase, HandlesAlive
  <2>6. QED
    BY <2>5 DEF Abstract!Next
<1>14. CASE ThreadCleanupDone
  <2>1. LifecyclePhase = "TearingDown" /\ ~HandlesAlive
    BY <1>14, <1>e, <1>f DEF ThreadCleanupDone, LifecyclePhase
  <2>2. LifecyclePhase' = "Stopped" /\ ~HandlesAlive'
    BY <1>14, <2>1 DEF ThreadCleanupDone, LifecyclePhase, HandlesAlive
  <2>3. QED
    BY <1>14, <2>1, <2>2 DEF ThreadCleanupDone, Abstract!Next, Abstract!Finish,
                             LifecyclePhase, HandlesAlive
<1>15. CASE TermRead
  BY <1>15 DEF TermRead, Abstract!avars, LifecyclePhase
<1>16. CASE TermQuit
  <2>1. CASE quit' = quit
    BY <1>16, <2>1 DEF TermQuit, Abstract!avars, LifecyclePhase
  <2>2. CASE quit' # quit
    <3>1. pollSt = "live" /\ ctxSt # "freed"
      BY <1>16, <1>a, <2>2, <1>0, Zenon DEF TermQuit, ReleaseOrder
    <3>2. quit' = TRUE
      BY <1>16, <1>a, <2>2, Zenon DEF TermQuit
    <3>3. LifecyclePhase # "Stopped"
      BY <3>1 DEF LifecyclePhase
    <3>4. LifecyclePhase' = LifecyclePhase /\ HandlesAlive' = HandlesAlive
      BY <1>16 DEF TermQuit, LifecyclePhase, HandlesAlive
    <3>5. QED
      BY <1>16, <3>2, <3>3, <3>4 DEF TermQuit, Abstract!Next, Abstract!RaiseStop,
                                     HandlesAlive, LifecyclePhase
  <2>3. QED
    BY <2>1, <2>2
<1>17. CASE UNCHANGED vars
  BY <1>17 DEF vars, Abstract!avars, LifecyclePhase
<1>18. QED
  BY <1>1, <1>2, <1>3, <1>4, <1>5, <1>6, <1>7, <1>8, <1>9, <1>10, <1>11,
     <1>12, <1>13, <1>14, <1>15, <1>16, <1>17 DEF Next

\* The Avahi backend implements the common lifecycle of spec 4.5 for every
\* instance, whether or not pthread_create succeeds: dns_sd_announce,
\* the callbacks, both cleanup paths and dns_sd_term only ever take the
\* session forward along Idle, Running, TearingDown, Stopped, release the
\* handles only in teardown or a failed setup, and free ctx last.
THEOREM AvahiRefinesLifecycle == Spec => ImplementsLifecycleSafety
<1>1. Init => Abstract!Init
  BY DEF Init, Abstract!Init, LifecyclePhase
<1>2. Lifecycle /\ [Next]_vars => [Abstract!Next]_Abstract!avars
  BY RefineStep
<1>3. QED
  BY <1>1, <1>2, LifecycleInit, LifecycleStep, PTL
     DEF Spec, ImplementsLifecycleSafety, Abstract!Spec

=============================================================================
