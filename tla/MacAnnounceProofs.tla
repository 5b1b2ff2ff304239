-------------------------- MODULE MacAnnounceProofs --------------------------
(* TLAPS proofs about the macOS backend: the descriptor accounting of       *)
(* dns_sd_announce, process_events and the other threads' open and close.   *)
EXTENDS MacAnnounce, ServiceBatchProofs, WellFoundedInduction, FiniteSetTheorems,
        TLAPS

\* Before process_events starts nothing but the caller has run, and the
\* caller's loop has not yet reached the slots at or after its index.
CallerStages ==
    /\ mpc \in {"start", "reg"} => tpc = "none"
    /\ mpc = "start" => \A i \in Slots : ~sdRef[i]
    /\ mpc = "reg" => \A i \in Slots : ri <= i => ~sdRef[i]

\* stop_fd is <<-1, -1>> until process_events calls pipe().
PipeNotYet ==
    tpc \in {"none", "populate", "pipe"} => stopFd = <<NoFd, NoFd>>

\* Every reference with a ref owns a descriptor number.
RefsOpen ==
    \A i \in Slots : sdRef[i] => refFd[i] \in Fds

\* dns_sd_term's write goes to the number it read, a descriptor number.
TermStage ==
    apc = "check" => aw \in Fds

FInv == TypeOK /\ RefsOpen /\ FdAccounting /\ CallerStages /\ PipeNotYet
        /\ TermStage

-----------------------------------------------------------------------------
(* The lowest free descriptor that socket() and pipe() take, and the last   *)
(* slot with a ref whose socket PopulateFds leaves in last_fd, exist.      *)

\* The less-than relation on the naturals, as a set of pairs.
NatLess == OpToRel(<, Nat)

\* A non-empty set of naturals has a least element.
LEMMA NatHasLeast ==
    ASSUME NEW S, S \subseteq Nat, S # {}
    PROVE  \E x \in S : \A y \in S : x <= y
<1>1. \E x \in S : \A y \in S : ~(<<y, x>> \in NatLess)
  <2>1. IsWellFoundedOn(NatLess, Nat)
    BY NatLessThanWellFounded DEF NatLess
  <2>2. \A R, U : IsWellFoundedOn(R, U)
                  => \A T \in SUBSET U : T # {} => \E x \in T : \A y \in T : ~(<<y, x>> \in R)
    BY WFMin
  <2>3. QED
    BY <2>1, <2>2, Zenon
<1>2. \A x, y \in Nat : (<<y, x>> \in NatLess) <=> y < x
  BY DEF NatLess, OpToRel
<1>3. PICK x \in S : \A y \in S : ~(<<y, x>> \in NatLess)
  BY <1>1
<1>4. \A y \in S : ~(y < x)
  BY <1>2, <1>3, Zenon
<1>5. QED
  BY <1>4

\* LowestOf picks the least descriptor of a non-empty set of descriptors.
LEMMA LowestFacts ==
    ASSUME NEW S, S \subseteq Fds, S # {}
    PROVE  /\ LowestOf(S) \in S
           /\ \A g \in S : LowestOf(S) <= g
<1>1. S \subseteq Nat
  BY MacAssumption DEF Fds
<1>2. \E x \in S : \A y \in S : x <= y
  BY <1>1, NatHasLeast
<1>3. QED
  BY <1>2 DEF LowestOf

\* A non-empty set of slots has a greatest element.
LEMMA HighestSlot ==
    ASSUME NEW S, S \subseteq Slots, S # {}
    PROVE  (CHOOSE i \in S : \A j \in S : j <= i) \in S
<1> DEFINE T == {NKiss - i : i \in S}
<1>1. T \subseteq Nat /\ T # {}
  BY BatchAssumption DEF Slots
<1>2. PICK m \in T : \A y \in T : m <= y
  BY <1>1, NatHasLeast
<1>3. PICK x \in S : m = NKiss - x
  BY <1>2
<1>4. \A j \in S : j <= x
  BY <1>2, <1>3, BatchAssumption DEF Slots
<1>5. QED
  BY <1>3, <1>4

\* A set of at least two descriptors has another after its lowest one.
LEMMA SecondFree ==
    ASSUME NEW S, S \subseteq Fds, Cardinality(S) >= 2, NEW r \in S
    PROVE  S \ {r} # {}
<1>1. IsFiniteSet(S)
  <2>1. IsFiniteSet(0..MaxFd)
    BY FS_Interval, MacAssumption
  <2>2. QED
    BY <2>1, FS_Subset DEF Fds
<1>2. SUFFICES ASSUME S \ {r} = {} PROVE FALSE
  OBVIOUS
<1>3. S = {r}
  BY <1>2
<1>4. Cardinality(S) = 1
  BY <1>3, FS_Singleton
<1>5. QED
  BY <1>4


-----------------------------------------------------------------------------
(* The descriptor accounting is inductive once strengthened by FInv.       *)

LEMMA FInvInit == Init => FInv
<1> SUFFICES ASSUME Init PROVE FInv
  OBVIOUS
<1>1. TypeOK
  <2>1. owner \in [Fds -> Owners]
    BY DEF Init, Owners
  <2>2. stopFd \in (Fds \cup {NoFd}) \X (Fds \cup {NoFd})
    BY DEF Init
  <2>3. name \in [Slots -> Names \cup {NULL}] /\ port \in [Slots -> BOOLEAN]
    BY DEF Init
  <2>4. ri \in 0..(NKiss + 1) /\ events \in 0..MaxEvents /\ churn \in 0..MaxChurn
    BY MacAssumption, BatchAssumption DEF Init
  <2>5. /\ sdRef \in [Slots -> BOOLEAN] /\ refFd \in [Slots -> Fds \cup {NoFd}]
        /\ sdFd \in [Slots -> Fds] /\ pending \in [Slots -> BOOLEAN]
    BY MacAssumption DEF Init, Fds
  <2>6. QED
    BY <2>1, <2>2, <2>3, <2>4, <2>5 DEF Init, TypeOK, Owners, Fds, NoFd, Undef
<1>2. RefsOpen /\ FdAccounting /\ CallerStages /\ PipeNotYet /\ TermStage
  BY MacAssumption
     DEF Init, RefsOpen, FdAccounting, CallerStages, PipeNotYet, TermStage, Fds, NoFd
<1>3. QED
  BY <1>1, <1>2 DEF FInv

\* A step of RegisterService that keeps a ref: the lowest free descriptor
\* becomes the socket of slot ri, which had no ref yet.
LEMMA RegisterKeeps ==
    ASSUME FInv, mpc = "reg", ri \in Slots, FreeFds # {},
           NEW fd, fd = LowestOf(FreeFds),
           owner' = [owner EXCEPT ![fd] = "svc"],
           refFd' = [refFd EXCEPT ![ri] = fd],
           sdRef' = [sdRef EXCEPT ![ri] = TRUE],
           ri' = ri + 1, tpc' = tpc, stopFd' = stopFd, mpc' = mpc
    PROVE  /\ owner' \in [Fds -> Owners] /\ sdRef' \in [Slots -> BOOLEAN]
           /\ refFd' \in [Slots -> Fds \cup {NoFd}]
           /\ RefsOpen' /\ FdAccounting' /\ CallerStages'
<1> USE DEF FInv, TypeOK
<1>1. fd \in Fds /\ owner[fd] = "free"
  BY LowestFacts DEF FreeFds
<1>2. ~sdRef[ri] /\ tpc = "none" /\ stopFd = <<NoFd, NoFd>>
  BY DEF CallerStages, PipeNotYet
<1>3. \A j \in Slots : sdRef[j] => refFd[j] # fd
  BY <1>1 DEF FdAccounting
<1>4. NoFd \notin Fds
  BY DEF NoFd, Fds
<1>5. QED
  BY <1>1, <1>2, <1>3, <1>4 DEF RefsOpen, FdAccounting, CallerStages, Owners


\* pipe() takes two distinct free descriptors, and no descriptor is a pipe
\* end before it.
LEMMA PipeTakesFree ==
    ASSUME FInv, tpc = "pipe", Cardinality(FreeFds) >= 2
    PROVE  LET r == LowestOf(FreeFds)
               w == LowestOf(FreeFds \ {r})
           IN  /\ r \in Fds /\ w \in Fds /\ r # w
               /\ owner[r] = "free" /\ owner[w] = "free"
               /\ \A f \in Fds : owner[f] # "pipe"
<1> DEFINE r == LowestOf(FreeFds)
           w == LowestOf(FreeFds \ {r})
<1>1. FreeFds \subseteq Fds
  BY DEF FreeFds
<1>2. FreeFds # {}
  BY FS_EmptySet DEF FreeFds
<1>3. r \in FreeFds
  BY <1>1, <1>2, LowestFacts
<1>4. FreeFds \ {r} # {}
  BY <1>1, <1>3, SecondFree
<1>5. w \in FreeFds \ {r}
  BY <1>1, <1>4, LowestFacts
<1>6. \A f \in Fds : owner[f] # "pipe"
  BY DEF FInv, FdAccounting, PipeNotYet, NoFd, Fds
<1>7. QED
  BY <1>3, <1>5, <1>6 DEF FreeFds


\* The daemon's replies and the other threads' open and close keep the
\* accounting: only a free descriptor is taken, only another thread's freed.
LEMMA EnvironmentSteps ==
    ASSUME FInv,
           \/ \E i \in Slots : DaemonReply(i)
           \/ OtherOpen
           \/ \E f \in Fds : OtherClose(f)
    PROVE  FInv'
<1> USE DEF FInv, TypeOK, RefsOpen, FdAccounting, CallerStages, PipeNotYet,
           TermStage
<1>1. CASE \E i \in Slots : DaemonReply(i)
  <2>1. PICK i \in Slots : DaemonReply(i)
    BY <1>1
  <2>2. pending' \in [Slots -> BOOLEAN]
    BY <2>1, Zenon DEF DaemonReply
  <2>3. events' \in 0..MaxEvents
    BY <2>1, MacAssumption DEF DaemonReply
  <2>4. QED
    BY <2>1, <2>2, <2>3 DEF DaemonReply
<1>2. CASE OtherOpen
  <2>1. LowestOf(FreeFds) \in Fds /\ owner[LowestOf(FreeFds)] = "free"
    BY <1>2, LowestFacts DEF OtherOpen, FreeFds
  <2>2. owner' \in [Fds -> Owners] /\ churn' \in 0..MaxChurn
    BY <1>2, <2>1, MacAssumption DEF OtherOpen, Owners
  <2>3. \A f \in Fds : owner'[f] = "svc" <=> owner[f] = "svc"
    BY <1>2, <2>1 DEF OtherOpen
  <2>4. \A f \in Fds : owner'[f] = "pipe" <=> owner[f] = "pipe"
    BY <1>2, <2>1 DEF OtherOpen
  <2>5. QED
    BY <1>2, <2>2, <2>3, <2>4 DEF OtherOpen
<1>3. CASE \E f \in Fds : OtherClose(f)
  <2>1. PICK f \in Fds : OtherClose(f)
    BY <1>3
  <2>2. owner' \in [Fds -> Owners] /\ churn' \in 0..MaxChurn
    BY <2>1, MacAssumption DEF OtherClose, Owners
  <2>3. \A g \in Fds : owner'[g] = "svc" <=> owner[g] = "svc"
    BY <2>1 DEF OtherClose
  <2>4. \A g \in Fds : owner'[g] = "pipe" <=> owner[g] = "pipe"
    BY <2>1 DEF OtherClose
  <2>5. QED
    BY <2>1, <2>2, <2>3, <2>4 DEF OtherClose
<1>4. QED
  BY <1>1, <1>2, <1>3

\* Every step keeps the descriptor table, the refs and the stop pipe in
\* agreement.
LEMMA FInvStep == FInv /\ [Next]_vars => FInv'
<1> SUFFICES ASSUME FInv, [Next]_vars PROVE FInv'
  OBVIOUS
<1> USE DEF FInv
<1> DEFINE Parts == TypeOK /\ RefsOpen /\ FdAccounting /\ CallerStages
                    /\ PipeNotYet /\ TermStage
<1> USE DEF TypeOK, RefsOpen, FdAccounting, CallerStages, PipeNotYet, TermStage
<1>a. NoFd \notin Fds /\ Undef \notin Fds
  BY DEF NoFd, Undef, Fds
<1>1. CASE AnnounceNothing
  BY <1>1 DEF AnnounceNothing
<1>2. CASE dns_sd_announce
  <2>1. port' \in [Slots -> BOOLEAN] /\ name' \in [Slots -> Names \cup {NULL}]
    BY <1>2, ContextType DEF dns_sd_announce
  <2>2. QED
    BY <1>2, <2>1, BatchAssumption DEF dns_sd_announce
<1>3. CASE RegisterService
  <2>1. ri + 1 \in 0..(NKiss + 1)
    BY <1>3, BatchAssumption DEF RegisterService, Slots
  <2>2. CASE ~port[ri] /\ UNCHANGED <<owner, sdRef, refFd>>
    BY <1>3, <2>1, <2>2 DEF RegisterService
  <2>3. CASE port[ri] /\ UNCHANGED <<owner, sdRef, refFd>>
    BY <1>3, <2>1, <2>3 DEF RegisterService
  <2>4. CASE port[ri] /\ FreeFds # {}
             /\ owner' = [owner EXCEPT ![LowestOf(FreeFds)] = "svc"]
             /\ refFd' = [refFd EXCEPT ![ri] = LowestOf(FreeFds)]
             /\ sdRef' = [sdRef EXCEPT ![ri] = TRUE]
    <3>1. /\ owner' \in [Fds -> Owners] /\ sdRef' \in [Slots -> BOOLEAN]
          /\ refFd' \in [Slots -> Fds \cup {NoFd}]
          /\ RefsOpen' /\ FdAccounting' /\ CallerStages'
      BY <1>3, <2>4, RegisterKeeps DEF RegisterService
    <3>2. QED
      BY <1>3, <2>1, <3>1 DEF RegisterService
  <2>5. QED
    BY <1>3, <2>2, <2>3, <2>4 DEF RegisterService
<1>4. CASE StartEventThread
  BY <1>4 DEF StartEventThread
<1>5. CASE PopulateFds
  <2> DEFINE reg == {i \in Slots : sdRef[i]}
  <2>1. reg # {} => (CHOOSE i \in reg : \A j \in reg : j <= i) \in reg
    BY HighestSlot
  <2>2. lastFd' \in Fds \cup {Undef}
    BY <1>5, <2>1 DEF PopulateFds
  <2>3. sdFd' \in [Slots -> Fds]
    BY <1>5 DEF PopulateFds
  <2>4. QED
    BY <1>5, <2>2, <2>3 DEF PopulateFds
<1>6. CASE CreateStopPipe
  <2>1. CASE Cardinality(FreeFds) < 2 /\ UNCHANGED <<stopFd, owner, lastFd>>
    BY <1>6, <2>1 DEF CreateStopPipe
  <2> DEFINE r == LowestOf(FreeFds)
             w == LowestOf(FreeFds \ {r})
  <2>2. CASE Cardinality(FreeFds) >= 2 /\ stopFd' = <<r, w>>
             /\ owner' = [owner EXCEPT ![r] = "pipe", ![w] = "pipe"]
             /\ lastFd' = w
    <3>1. /\ r \in Fds /\ w \in Fds /\ r # w
          /\ owner[r] = "free" /\ owner[w] = "free"
          /\ \A f \in Fds : owner[f] # "pipe"
      BY <1>6, <2>2, PipeTakesFree DEF CreateStopPipe
    <3>2. owner' \in [Fds -> Owners] /\ stopFd' \in (Fds \cup {NoFd}) \X (Fds \cup {NoFd})
          /\ lastFd' \in Fds \cup {Undef}
      BY <2>2, <3>1 DEF Owners
    <3>3. \A f \in Fds : owner'[f] = "svc" <=> owner[f] = "svc"
      BY <2>2, <3>1
    <3>4. \A f \in Fds : owner'[f] = "pipe" <=> f \in {stopFd'[1], stopFd'[2]}
      BY <2>2, <3>1
    <3>5. tpc' = "loop"
      BY <1>6 DEF CreateStopPipe
    <3>6. mpc = "done" /\ UNCHANGED <<mpc, sdRef, refFd, apc, aw>>
      BY <1>6 DEF CreateStopPipe
    <3>7. FdAccounting'
      BY <3>3, <3>4, <3>5, <3>6
    <3>8. TypeOK'
      BY <1>6, <3>2, <3>5 DEF CreateStopPipe
    <3>9. QED
      BY <3>5, <3>6, <3>7, <3>8
  <2>3. QED
    BY <1>6, <2>1, <2>2 DEF CreateStopPipe
<1>7. CASE SelectStop
  BY <1>7 DEF SelectStop
<1>8. CASE SelectServices
  <2>1. tpc' \in {"loop", "cleanup"} /\ pending' \in [Slots -> BOOLEAN]
    BY <1>8 DEF SelectServices
  <2>2. QED
    BY <1>8, <2>1 DEF SelectServices
<1>9. CASE SelectFail
  BY <1>9 DEF SelectFail
<1>10. CASE Cleanup
  <2> DEFINE closed == {refFd[i] : i \in {j \in Slots : sdRef[j]}}
                       \cup ({stopFd[1], stopFd[2]} \cap Fds)
  <2>1. \A f \in Fds : owner[f] \in {"svc", "pipe"} => f \in closed
    BY <1>10 DEF Cleanup
  <2>2. \A f \in Fds : owner'[f] \in {"free", "other"}
    BY <1>10, <2>1 DEF Cleanup, Owners
  <2>3. mpc = "done" /\ tpc' = "done" /\ ctxSt' = "freed"
        /\ sdRef' = [i \in Slots |-> FALSE]
    BY <1>10 DEF Cleanup
  <2>4. owner' \in [Fds -> Owners]
    BY <1>10, <2>2 DEF Cleanup, Owners
  <2>5. TypeOK'
    BY <1>10, <2>3, <2>4 DEF Cleanup
  <2>6. FdAccounting'
    BY <2>2, <2>3
  <2>7. QED
    BY <1>10, <2>3, <2>5, <2>6 DEF Cleanup
<1>11. CASE \E i \in Slots : DaemonReply(i)
  BY <1>11, EnvironmentSteps
<1>12. CASE OtherOpen
  BY <1>12, EnvironmentSteps
<1>13. CASE \E f \in Fds : OtherClose(f)
  BY <1>13, EnvironmentSteps
<1>14. CASE TermCheck
  BY <1>14 DEF TermCheck
<1>15. CASE TermWrite
  BY <1>15 DEF TermWrite
<1>16. CASE UNCHANGED vars
  BY <1>16 DEF vars
<1>17. QED
  BY <1>1, <1>2, <1>3, <1>4, <1>5, <1>6, <1>7, <1>8, <1>9, <1>10, <1>11,
     <1>12, <1>13, <1>14, <1>15, <1>16 DEF Next


\* The strengthened descriptor invariant holds in every reachable state.
THEOREM FInvariant == Spec => []FInv
<1>1. Init => FInv
  BY FInvInit
<1>2. FInv /\ [Next]_vars => FInv'
  BY FInvStep
<1>3. QED
  BY <1>1, <1>2, PTL DEF Spec

\* Every reachable state of the macOS backend has every variable in its type.
THEOREM MacTypeCorrect == Spec => []TypeOK
<1>1. FInv => TypeOK
  BY DEF FInv
<1>2. QED
  BY FInvariant, <1>1, PTL

\* dns_sd_announce's DNSServiceRegister loop, process_events's pipe() and
\* cleanup, and the other threads' open and close never disagree about a
\* descriptor: a descriptor is a service socket exactly when a kept ref owns
\* it, no two refs share one, the stop pipe owns its two ends from pipe()
\* until cleanup, and after cleanup every ref is released and ctx freed.
THEOREM FdAccounted == Spec => []FdAccounting
<1>1. FInv => FdAccounting
  BY DEF FInv
<1>2. QED
  BY FInvariant, <1>1, PTL

-----------------------------------------------------------------------------
(* The other threads' descriptors.                                         *)

\* The actions of the backend and of dns_sd_term that leave the descriptor
\* table as it is.
LEMMA OwnerKeptSteps ==
    ASSUME \/ AnnounceNothing \/ dns_sd_announce \/ StartEventThread
           \/ PopulateFds \/ SelectStop \/ SelectServices \/ SelectFail
           \/ \E i \in Slots : DaemonReply(i)
           \/ TermCheck \/ TermWrite \/ UNCHANGED vars
    PROVE  owner' = owner
BY DEF AnnounceNothing, dns_sd_announce, StartEventThread, PopulateFds,
       SelectStop, SelectServices, SelectFail, DaemonReply, TermCheck,
       TermWrite, vars

\* Under FInv, a step changes whether a descriptor is another thread's only
\* when it is that thread's own open() or close().
LEMMA ForeignStep ==
    ASSUME FInv, [Next]_vars
    PROVE  \A f \in Fds :
             (owner'[f] = "other") # (owner[f] = "other") => OtherOpen \/ OtherClose(f)
<1> SUFFICES ASSUME NEW f \in Fds, (owner'[f] = "other") # (owner[f] = "other")
             PROVE  OtherOpen \/ OtherClose(f)
  OBVIOUS
<1>t. owner \in [Fds -> Owners]
  BY DEF FInv, TypeOK
<1>1. CASE owner' = owner
  BY <1>1
<1>2. CASE RegisterService /\ owner' # owner
  <2>1. PICK fd \in Fds : owner[fd] = "free" /\ owner' = [owner EXCEPT ![fd] = "svc"]
    <3>1. FreeFds # {} /\ owner' = [owner EXCEPT ![LowestOf(FreeFds)] = "svc"]
      BY <1>2 DEF RegisterService
    <3>2. LowestOf(FreeFds) \in FreeFds
      BY <3>1, LowestFacts DEF FreeFds
    <3>3. QED
      BY <3>1, <3>2 DEF FreeFds
  <2>2. QED
    BY <1>t, <2>1
<1>3. CASE CreateStopPipe /\ owner' # owner
  <2> DEFINE r == LowestOf(FreeFds)
             w == LowestOf(FreeFds \ {r})
  <2>1. Cardinality(FreeFds) >= 2 /\ owner' = [owner EXCEPT ![r] = "pipe", ![w] = "pipe"]
    <3>1. ~(Cardinality(FreeFds) < 2 /\ UNCHANGED <<stopFd, owner, lastFd>>)
      BY <1>3
    <3>2. QED
      BY <1>3, <3>1, Zenon DEF CreateStopPipe, r, w
  <2>2. r \in Fds /\ w \in Fds /\ owner[r] = "free" /\ owner[w] = "free"
    BY <1>3, <2>1, PipeTakesFree DEF CreateStopPipe
  <2>3. QED
    BY <1>t, <2>1, <2>2
<1>4. CASE Cleanup
  <2> DEFINE closed == {refFd[i] : i \in {j \in Slots : sdRef[j]}}
                       \cup ({stopFd[1], stopFd[2]} \cap Fds)
  <2>1. owner' = [g \in Fds |-> IF g \in closed THEN "free" ELSE owner[g]]
    BY <1>4 DEF Cleanup
  <2>2. f \in closed => owner[f] \in {"svc", "pipe"}
    BY <1>4 DEF Cleanup, FInv, FdAccounting
  <2>3. QED
    BY <2>1, <2>2
<1>5. CASE OtherOpen
  BY <1>5
<1>6. CASE \E g \in Fds : OtherClose(g)
  <2>1. PICK g \in Fds : OtherClose(g)
    BY <1>6
  <2>2. f = g
    BY <1>t, <2>1 DEF OtherClose
  <2>3. QED
    BY <2>1, <2>2
<1>7. CASE ~RegisterService /\ ~CreateStopPipe /\ ~Cleanup /\ ~OtherOpen
           /\ ~\E g \in Fds : OtherClose(g)
  BY <1>7, OwnerKeptSteps, <1>1 DEF Next
<1>8. QED
  BY <1>1, <1>2, <1>3, <1>4, <1>5, <1>6, <1>7

\* No step of dns_sd_announce, process_events or dns_sd_term takes or
\* releases a descriptor the program's other threads hold: DNSServiceRegister's
\* socket() and pipe() take free descriptors, and cleanup closes only the
\* refs' sockets and the pipe's two ends.
THEOREM ForeignFdsRespected == Spec => ForeignFdsKept
<1>1. FInv /\ [Next]_vars
      => [\A f \in Fds :
            (owner'[f] = "other") # (owner[f] = "other") => OtherOpen \/ OtherClose(f)]_vars
  BY ForeignStep
<1>2. QED
  BY FInvariant, <1>1, PTL DEF Spec, ForeignFdsKept

-----------------------------------------------------------------------------
(* The refinement of the lifecycle (AnnounceLifecycle).  The mapping reads *)
(* the phase from ctx, the caller and process_events; the facts below tie  *)
(* ctx to those stages and say that dns_sd_term has not written before it  *)
(* read stop_fd.                                                           *)

\* ctx is allocated by dns_sd_announce's first step and freed only by
\* process_events's cleanup; dns_sd_term's result is unset until it writes.
SessionStages ==
    /\ mpc = "start" => ctxSt = "none"
    /\ mpc = "reg" => ctxSt = "live"
    /\ ctxSt = "none" => tpc = "none" /\ \A i \in Slots : ~sdRef[i]
    /\ ctxSt = "freed" => tpc = "done"
    /\ apc \in {"idle", "check"} => termRes = "none"

HandlesAlive == \E i \in Slots : sdRef[i]

LEMMA SessionInit == Init => SessionStages
BY DEF Init, SessionStages

LEMMA SessionStep == FInv /\ SessionStages /\ [Next]_vars => SessionStages'
<1> SUFFICES ASSUME FInv, SessionStages, [Next]_vars PROVE SessionStages'
  OBVIOUS
<1> USE DEF SessionStages
<1>a. mpc \in {"start", "reg"} => tpc = "none"
  BY DEF FInv, CallerStages
<1>1. CASE AnnounceNothing
  BY <1>1 DEF AnnounceNothing
<1>2. CASE dns_sd_announce
  BY <1>2 DEF dns_sd_announce
<1>3. CASE RegisterService
  BY <1>3 DEF RegisterService
<1>4. CASE StartEventThread
  BY <1>4 DEF StartEventThread
<1>5. CASE PopulateFds
  BY <1>5 DEF PopulateFds
<1>6. CASE CreateStopPipe
  BY <1>6 DEF CreateStopPipe
<1>7. CASE SelectStop \/ SelectServices \/ SelectFail
  BY <1>7 DEF SelectStop, SelectServices, SelectFail
<1>8. CASE Cleanup
  BY <1>8, <1>a DEF Cleanup
<1>9. CASE \E i \in Slots : DaemonReply(i)
  BY <1>9 DEF DaemonReply
<1>10. CASE OtherOpen \/ \E f \in Fds : OtherClose(f)
  BY <1>10 DEF OtherOpen, OtherClose
<1>11. CASE TermCheck
  BY <1>11 DEF TermCheck
<1>12. CASE TermWrite
  BY <1>12 DEF TermWrite
<1>13. CASE UNCHANGED vars
  BY <1>13 DEF vars
<1>14. QED
  BY <1>1, <1>2, <1>3, <1>4, <1>5, <1>6, <1>7, <1>8, <1>9, <1>10, <1>11,
     <1>12, <1>13 DEF Next

\* A step that leaves ctx, the caller, the refs and dns_sd_term's result as
\* they are, and the phase with them, leaves the lifecycle as it is.
LEMMA MacStutter ==
    ASSUME UNCHANGED <<ctxSt, termRes, sdRef>>, LifecyclePhase' = LifecyclePhase
    PROVE  [Abstract!Next]_Abstract!avars
BY DEF Abstract!avars

\* Every step of the macOS backend is a step of the lifecycle or leaves the
\* mapped state as it is.
LEMMA MacRefineStep ==
    FInv /\ SessionStages /\ [Next]_vars => [Abstract!Next]_Abstract!avars
<1> SUFFICES ASSUME FInv, SessionStages, [Next]_vars
             PROVE  [Abstract!Next]_Abstract!avars
  OBVIOUS
<1>0. TypeOK /\ FdAccounting /\ TermStage
  BY DEF FInv
\* What the stages say of the objects each step starts from.
<1>b. tpc \in {"populate", "pipe", "loop", "cleanup"} => ctxSt = "live" /\ mpc = "done"
  BY <1>0 DEF FInv, CallerStages, SessionStages, TypeOK
<1>c. mpc = "start" => ctxSt = "none" /\ tpc = "none" /\ ~HandlesAlive
  BY DEF FInv, CallerStages, SessionStages, HandlesAlive
<1>d. mpc = "reg" => ctxSt = "live" /\ tpc = "none"
  BY DEF FInv, CallerStages, SessionStages
<1>e. apc \in {"idle", "check"} => termRes = "none"
  BY DEF SessionStages
<1>1. CASE AnnounceNothing
  BY <1>1, <1>c, MacStutter DEF AnnounceNothing, LifecyclePhase
<1>2. CASE dns_sd_announce
  <2>1. LifecyclePhase = "Idle" /\ LifecyclePhase' = "Idle"
    BY <1>2, <1>c DEF dns_sd_announce, LifecyclePhase
  <2>2. ~HandlesAlive /\ ~HandlesAlive'
    BY <1>2, <1>c DEF dns_sd_announce, HandlesAlive
  <2>3. Abstract!Prepare
    BY <1>2, <1>c, <2>1, <2>2, Zenon DEF dns_sd_announce, Abstract!Prepare, HandlesAlive
  <2>4. QED
    BY <2>3 DEF Abstract!Next
<1>3. CASE RegisterService
  <2>1. LifecyclePhase = "Idle" /\ LifecyclePhase' = "Idle" /\ ctxSt = "live"
    BY <1>3, <1>d DEF RegisterService, LifecyclePhase
  <2>2. HandlesAlive' = HandlesAlive \/ HandlesAlive'
    <3>1. CASE UNCHANGED sdRef
      BY <3>1 DEF HandlesAlive
    <3>2. CASE ri \in Slots /\ sdRef' = [sdRef EXCEPT ![ri] = TRUE]
      <4>1. sdRef'[ri]
        BY <3>2, <1>0 DEF TypeOK
      <4>2. QED
        BY <3>2, <4>1 DEF HandlesAlive
    <3>3. QED
      BY <1>3, <3>1, <3>2 DEF RegisterService
  <2>3. HandlesAlive' \in {HandlesAlive, TRUE}
    BY <2>2, Zenon
  <2>4. Abstract!Prepare
    BY <1>3, <2>1, <2>3, Zenon DEF RegisterService, Abstract!Prepare, HandlesAlive
  <2>5. QED
    BY <2>4 DEF Abstract!Next
<1>4. CASE StartEventThread
  <2>1. LifecyclePhase = "Idle" /\ LifecyclePhase' = "Running" /\ ctxSt = "live"
    BY <1>4, <1>d DEF StartEventThread, LifecyclePhase
  <2>2. (termRes' = "pipe") \in {termRes = "pipe", TRUE}
    BY <1>4, Zenon DEF StartEventThread
  <2>3. HandlesAlive' \in {HandlesAlive, TRUE}
    BY <1>4, Zenon DEF StartEventThread, HandlesAlive
  <2>4. Abstract!Start
    BY <1>4, <2>1, <2>2, <2>3, Zenon DEF StartEventThread, Abstract!Start, HandlesAlive
  <2>5. QED
    BY <2>4 DEF Abstract!Next
<1>5. CASE PopulateFds \/ CreateStopPipe
  <2>1. LifecyclePhase' = LifecyclePhase
    BY <1>5, <1>b DEF PopulateFds, CreateStopPipe, LifecyclePhase
  <2>2. QED
    BY <1>5, <2>1, MacStutter DEF PopulateFds, CreateStopPipe
<1>6. CASE (SelectStop \/ SelectServices \/ SelectFail) /\ tpc' = "cleanup"
  <2>1. LifecyclePhase = "Running" /\ LifecyclePhase' = "TearingDown"
    BY <1>6, <1>b DEF SelectStop, SelectServices, SelectFail, LifecyclePhase
  <2>2. UNCHANGED <<ctxSt, termRes, sdRef>>
    BY <1>6 DEF SelectStop, SelectServices, SelectFail
  <2>3. HandlesAlive' \in {HandlesAlive, FALSE}
    BY <2>2, Zenon DEF HandlesAlive
  <2>4. Abstract!Teardown
    BY <2>1, <2>2, <2>3, Zenon DEF Abstract!Teardown, HandlesAlive
  <2>5. QED
    BY <2>4 DEF Abstract!Next
<1>7. CASE SelectServices /\ tpc' = "loop"
  <2>1. LifecyclePhase' = LifecyclePhase
    BY <1>7, <1>b DEF SelectServices, LifecyclePhase
  <2>2. QED
    BY <1>7, <2>1, MacStutter DEF SelectServices
<1>8. CASE Cleanup
  <2>1. LifecyclePhase = "TearingDown" /\ LifecyclePhase' = "Stopped"
    BY <1>8, <1>b DEF Cleanup, LifecyclePhase
  <2>2. ~HandlesAlive' /\ ctxSt' = "freed" /\ UNCHANGED termRes
    BY <1>8 DEF Cleanup, HandlesAlive
  <2>3. Abstract!Finish
    BY <2>1, <2>2, Zenon DEF Abstract!Finish, HandlesAlive
  <2>4. QED
    BY <2>3 DEF Abstract!Next
<1>9. CASE \/ \E i \in Slots : DaemonReply(i)
           \/ OtherOpen \/ \E f \in Fds : OtherClose(f)
  <2>1. UNCHANGED <<ctxSt, termRes, sdRef, mpc, tpc>>
    BY <1>9 DEF DaemonReply, OtherOpen, OtherClose
  <2>2. QED
    BY <2>1, MacStutter DEF LifecyclePhase
<1>10. CASE TermCheck
  <2>1. termRes = "none" /\ termRes' \in {"none", "skipped"}
    BY <1>10, <1>e DEF TermCheck
  <2>2. UNCHANGED <<ctxSt, sdRef, mpc, tpc>>
    BY <1>10 DEF TermCheck
  <2>3. LifecyclePhase' = LifecyclePhase
    BY <2>2 DEF LifecyclePhase
  <2>4. QED
    BY <2>1, <2>2, <2>3 DEF Abstract!avars
<1>11. CASE TermWrite
  <2>1. termRes = "none" /\ termRes' = owner[aw] /\ aw \in Fds
    BY <1>11, <1>e, <1>0 DEF TermWrite, TermStage
  <2>2. UNCHANGED <<ctxSt, sdRef, mpc, tpc>>
    BY <1>11 DEF TermWrite
  <2>3. LifecyclePhase' = LifecyclePhase
    BY <2>2 DEF LifecyclePhase
  <2>4. CASE owner[aw] = "pipe"
    <3>1. tpc # "done"
      BY <2>1, <2>4, <1>0 DEF FdAccounting
    <3>2. LifecyclePhase # "Stopped"
      BY <3>1 DEF SessionStages, LifecyclePhase
    <3>3. Abstract!RaiseStop
      BY <2>1, <2>2, <2>3, <2>4, <3>2 DEF Abstract!RaiseStop, HandlesAlive
    <3>4. QED
      BY <3>3 DEF Abstract!Next
  <2>5. CASE owner[aw] # "pipe"
    BY <2>1, <2>2, <2>3, <2>5 DEF Abstract!avars
  <2>6. QED
    BY <2>4, <2>5
<1>12. CASE UNCHANGED vars
  BY <1>12, MacStutter DEF vars, LifecyclePhase
<1>13. QED
  <2>1. SelectServices => tpc' \in {"loop", "cleanup"}
    BY DEF SelectServices
  <2>2. SelectStop \/ SelectFail => tpc' = "cleanup"
    BY DEF SelectStop, SelectFail
  <2>3. QED
    BY <1>1, <1>2, <1>3, <1>4, <1>5, <1>6, <1>7, <1>8, <1>9, <1>10, <1>11,
       <1>12, <2>1, <2>2 DEF Next

\* The macOS backend implements the lifecycle every backend promises: ctx
\* is built and the refs registered only before process_events starts, the
\* session runs once pthread_create returned, a dns_sd_term write that
\* reaches the stop pipe happens only before cleanup, and cleanup releases
\* every ref and ctx in one step.
THEOREM MacRefinesLifecycle == Spec => Abstract!Spec
<1>1. Init => FInv /\ SessionStages
  BY FInvInit, SessionInit
<1>2. FInv /\ SessionStages /\ [Next]_vars => (FInv /\ SessionStages)'
  BY FInvStep, SessionStep
<1>3. FInv /\ SessionStages /\ [Next]_vars => [Abstract!Next]_Abstract!avars
  BY MacRefineStep
<1>4. Init => Abstract!Init
  BY DEF Init, Abstract!Init, LifecyclePhase
<1>5. QED
  BY <1>1, <1>2, <1>3, <1>4, PTL DEF Spec, Abstract!Spec

=============================================================================
