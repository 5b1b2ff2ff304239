-------------------------- MODULE AnnounceLifecycle --------------------------
(***************************************************************************)
(* What every backend promises its caller (spec 4.5, 3 and 2): the        *)
(* session goes Idle -> Running -> TearingDown -> Stopped, or from Idle    *)
(* straight to Stopped when setup fails.  The stop signal may be raised    *)
(* from any thread at any time before the session has stopped.  The       *)
(* daemon handles are created during setup and released only by           *)
(* teardown (by the worker, never by the requester).  The batch is freed   *)
(* only with the last step, once no handle is left.                       *)
(*                                                                         *)
(* Both backends are shown to implement this specification: AvahiAnnounce *)
(* and MacAnnounce instantiate it with a mapping of their own state.       *)
(***************************************************************************)

Phases == {"Idle", "Running", "TearingDown", "Stopped"}
BatchStates == {"none", "live", "freed"}

VARIABLES
    phase,    \* where the session is in its lifecycle
    stop,     \* the stop signal has been raised
    batch,    \* the ServiceBatch: not built, live, freed
    handles   \* some daemon handle (connection, poll, group, ref) is alive

avars == <<phase, stop, batch, handles>>

Init ==
    /\ phase = "Idle"
    /\ stop = FALSE
    /\ batch = "none"
    /\ handles = FALSE

\* Setup on the caller's thread: the batch is built and handles are created.
Prepare ==
    /\ phase = "Idle"
    /\ batch # "freed"
    /\ batch' = "live"
    /\ handles' \in {handles, TRUE}
    /\ UNCHANGED <<phase, stop>>

\* The daemon connection is up: the session runs.  In the group-oriented
\* backend the batch is submitted during this step, and a fatal reply to
\* that submission may already raise the stop signal (spec 65, 82 c).
Start ==
    /\ phase = "Idle"
    /\ batch = "live"
    /\ phase' = "Running"
    /\ stop' \in {stop, TRUE}
    /\ handles' \in {handles, TRUE}
    /\ UNCHANGED batch

\* Setup fails: what was created is released at once, the loop never runs.
SetupFail ==
    /\ phase = "Idle"
    /\ phase' = "Stopped"
    /\ batch' = "freed"
    /\ handles' = FALSE
    /\ UNCHANGED stop

\* requestStop, or a fatal error that raises the same signal.
RaiseStop ==
    /\ phase # "Stopped"
    /\ stop' = TRUE
    /\ UNCHANGED <<phase, batch, handles>>

\* The worker leaves its loop, on the stop signal or on a fatal error it
\* observed itself, and may release handles at once.
Teardown ==
    /\ phase = "Running"
    /\ phase' = "TearingDown"
    /\ handles' \in {handles, FALSE}
    /\ UNCHANGED <<stop, batch>>

\* The worker's last step: no handle is left and the batch is freed.
Finish ==
    /\ phase = "TearingDown"
    /\ phase' = "Stopped"
    /\ handles' = FALSE
    /\ batch' = "freed"
    /\ UNCHANGED stop

Next ==
    \/ Prepare \/ Start \/ SetupFail \/ RaiseStop \/ Teardown \/ Finish

\* A raised stop signal is observed by a running session, and a teardown
\* once begun ends.
Fairness ==
    /\ WF_avars(stop /\ Teardown)
    /\ WF_avars(Finish)

Spec == Init /\ [][Next]_avars
FairSpec == Spec /\ Fairness

=============================================================================
