-------------------------- MODULE ContextLoopProofs --------------------------
(* TLAPS proofs about the loop of dns_sd_create_context: every ctx[j] it    *)
(* writes is inside the array, and it returns the packed context of         *)
(* ServiceBatch, for every MAX_KISS_TCP_PORTS and every set of channels.    *)
EXTENDS ContextLoop, ServiceBatchProofs, FiniteSetTheorems, TLAPS

\* The configured KISS ports among the first n that land in slot s.
InSlotBelow(cp, n, s) == {k \in 1..n : cp[k] /\ KissSlot(cp, k) = s}

\* The context the loop has built once it has passed the first n KISS
\* ports: dns_sd_create_context's formula with the ports after n ignored.
PartialContext(cp, cc, n) ==
    [port |-> [s \in Slots |->
                 IF s = 0 THEN cp[0] ELSE InSlotBelow(cp, n, s) # {}],
     name |-> [s \in Slots |->
                 IF s = 0
                 THEN IF cp[0] THEN make_service_name(NoChan) ELSE NULL
                 ELSE IF InSlotBelow(cp, n, s) # {}
                      THEN make_service_name(cc[CHOOSE k \in InSlotBelow(cp, n, s) : TRUE])
                      ELSE NULL]]

\* The loop invariant: j is one past the slots the configured ports so far
\* have taken, and ctx holds exactly those ports, slots after them empty.
LoopInv ==
    /\ TypeOK
    /\ j = 1 + KissSlot(cfgPort, i - 1)
    /\ ctx = PartialContext(cfgPort, cfgChan, i - 1)

-----------------------------------------------------------------------------
(* KissSlot counts the configured ports among the first k: a cardinality  *)
(* of a subset of 1..k, so finite, at most k, and growing with k.         *)

\* The configured ports among the first k form a finite set.
LEMMA KissSetFinite ==
    ASSUME NEW cp, NEW k \in Nat
    PROVE  /\ IsFiniteSet({m \in 1..k : cp[m]})
           /\ KissSlot(cp, k) \in 0..k
<1>1. IsFiniteSet(1..k) /\ Cardinality(1..k) = k
  BY FS_Interval
<1>2. {m \in 1..k : cp[m]} \subseteq 1..k
  OBVIOUS
<1>3. IsFiniteSet({m \in 1..k : cp[m]})
      /\ Cardinality({m \in 1..k : cp[m]}) <= k
  BY <1>1, <1>2, FS_Subset
<1>4. Cardinality({m \in 1..k : cp[m]}) \in Nat
  BY <1>3, FS_CardinalityType
<1>5. QED
  BY <1>3, <1>4 DEF KissSlot

\* Turn k of the loop: KissSlot moves on by one exactly for a configured
\* port.
LEMMA KissSlotStep ==
    ASSUME NEW cp, NEW k \in Nat \ {0}
    PROVE  KissSlot(cp, k) = KissSlot(cp, k - 1) + (IF cp[k] THEN 1 ELSE 0)
<1> DEFINE Below == {m \in 1..(k - 1) : cp[m]}
<1>1. IsFiniteSet(Below)
  BY KissSetFinite
<1>2. k \notin Below
  OBVIOUS
<1>3. CASE cp[k]
  <2>1. {m \in 1..k : cp[m]} = Below \cup {k}
    BY <1>3
  <2>2. Cardinality(Below \cup {k}) = Cardinality(Below) + 1
    BY <1>1, <1>2, FS_AddElement
  <2>3. QED
    BY <1>3, <2>1, <2>2 DEF KissSlot
<1>4. CASE ~cp[k]
  <2>1. {m \in 1..k : cp[m]} = Below
    BY <1>4
  <2>2. KissSlot(cp, k) = Cardinality(Below) /\ KissSlot(cp, k - 1) = Cardinality(Below)
    BY <2>1 DEF KissSlot
  <2>3. (IF cp[k] THEN 1 ELSE 0) = 0
    BY <1>4, Zenon
  <2>4. Cardinality(Below) \in Nat
    BY <1>1, FS_CardinalityType
  <2>5. QED
    BY <2>2, <2>3, <2>4
<1>5. QED
  BY <1>3, <1>4

\* A later port never lands in an earlier slot.
LEMMA KissSlotMonotone ==
    ASSUME NEW cp, NEW m \in Nat, NEW k \in Nat, m <= k
    PROVE  KissSlot(cp, m) <= KissSlot(cp, k)
<1>1. IsFiniteSet({n \in 1..k : cp[n]})
  BY KissSetFinite
<1>2. {n \in 1..m : cp[n]} \subseteq {n \in 1..k : cp[n]}
  OBVIOUS
<1>3. QED
  BY <1>1, <1>2, FS_Subset DEF KissSlot

-----------------------------------------------------------------------------
(* The loop invariant is inductive.                                        *)

\* A partly built context has a port flag and a name or NULL in every slot.
LEMMA PartialType ==
    ASSUME NEW cp \in Configs, NEW cc \in ChanConfigs, NEW n \in 0..NKiss
    PROVE  /\ PartialContext(cp, cc, n).port \in [Slots -> BOOLEAN]
           /\ PartialContext(cp, cc, n).name \in [Slots -> Names \cup {NULL}]
<1>1. ASSUME NEW s \in Slots, InSlotBelow(cp, n, s) # {}
      PROVE  make_service_name(cc[CHOOSE k \in InSlotBelow(cp, n, s) : TRUE]) \in Names
  <2>0. (CHOOSE k \in InSlotBelow(cp, n, s) : TRUE) \in InSlotBelow(cp, n, s)
    BY <1>1
  <2>1. (CHOOSE k \in InSlotBelow(cp, n, s) : TRUE) \in KissPorts
    BY <2>0, BatchAssumption DEF InSlotBelow, KissPorts
  <2>2. QED
    BY <2>1, BatchAssumption DEF ChanConfigs, make_service_name, Names, ChanVals
<1>2. make_service_name(NoChan) \in Names
  BY DEF make_service_name, Names, ChanVals
<1>3. cp[0] \in BOOLEAN
  BY BatchAssumption DEF Configs
<1>4. ASSUME NEW s \in Slots
      PROVE  /\ PartialContext(cp, cc, n).port[s] \in BOOLEAN
             /\ PartialContext(cp, cc, n).name[s] \in Names \cup {NULL}
  <2>1. CASE s = 0
    BY <2>1, <1>2, <1>3 DEF PartialContext
  <2>2. CASE s # 0 /\ InSlotBelow(cp, n, s) # {}
    BY <2>2, <1>1 DEF PartialContext
  <2>3. CASE s # 0 /\ InSlotBelow(cp, n, s) = {}
    BY <2>3 DEF PartialContext
  <2>4. QED
    BY <2>1, <2>2, <2>3
<1>5. /\ PartialContext(cp, cc, n).port
         = [s \in Slots |-> PartialContext(cp, cc, n).port[s]]
      /\ PartialContext(cp, cc, n).name
         = [s \in Slots |-> PartialContext(cp, cc, n).name[s]]
  BY DEF PartialContext
<1>6. QED
  BY <1>4, <1>5

\* calloc and the AGWPE slot: nothing of the loop is built yet.
LEMMA LoopInit == Init => LoopInv
<1> SUFFICES ASSUME Init PROVE LoopInv
  OBVIOUS
<1>1. KissSlot(cfgPort, 0) = 0
  BY FS_EmptySet DEF KissSlot
<1>2. \A s \in Slots : InSlotBelow(cfgPort, 0, s) = {}
  BY DEF InSlotBelow
<1>3. ctx = PartialContext(cfgPort, cfgChan, 0)
  <2>1. cfgPort[0] \in BOOLEAN
    BY BatchAssumption DEF Init, Configs
  <2>2. QED
    BY <1>2, <2>1 DEF Init, PartialContext
<1>4. PartialContext(cfgPort, cfgChan, 0).port \in [Slots -> BOOLEAN]
      /\ PartialContext(cfgPort, cfgChan, 0).name \in [Slots -> Names \cup {NULL}]
  BY PartialType, BatchAssumption DEF Init
<1>5. TypeOK
  BY <1>3, <1>4, BatchAssumption DEF Init, TypeOK
<1>6. QED
  BY <1>1, <1>3, <1>5 DEF Init, LoopInv

\* Turn k: a configured port k is the only one of the first k in slot
\* 1 + KissSlot(cp, k - 1), which none of the first k - 1 took; a zero port
\* changes no slot.
LEMMA InSlotBelowStep ==
    ASSUME NEW cp \in Configs, NEW k \in 1..NKiss
    PROVE  /\ cp[k] =>
                /\ KissSlot(cp, k) = 1 + KissSlot(cp, k - 1)
                /\ \A s \in Slots :
                     InSlotBelow(cp, k, s)
                       = IF s = 1 + KissSlot(cp, k - 1) THEN {k}
                         ELSE InSlotBelow(cp, k - 1, s)
           /\ ~cp[k] =>
                /\ KissSlot(cp, k) = KissSlot(cp, k - 1)
                /\ \A s \in Slots : InSlotBelow(cp, k, s) = InSlotBelow(cp, k - 1, s)
<1> DEFINE J == 1 + KissSlot(cp, k - 1)
<1>0. k - 1 \in Nat /\ k \in Nat \ {0} /\ cp[k] \in BOOLEAN
  BY BatchAssumption DEF Configs
<1>1. KissSlot(cp, k - 1) \in 0..(k - 1)
  BY <1>0, KissSetFinite
<1>2. \A m \in 1..(k - 1) : KissSlot(cp, m) <= KissSlot(cp, k - 1)
  BY <1>0, KissSlotMonotone
<1>3. KissSlot(cp, k) = KissSlot(cp, k - 1) + (IF cp[k] THEN 1 ELSE 0)
  BY <1>0, KissSlotStep
<1>4. \A s \in Slots :
        InSlotBelow(cp, k, s)
          = InSlotBelow(cp, k - 1, s)
            \cup (IF cp[k] /\ KissSlot(cp, k) = s THEN {k} ELSE {})
  BY <1>0 DEF InSlotBelow
<1>5. InSlotBelow(cp, k - 1, J) = {}
  BY <1>1, <1>2 DEF InSlotBelow
<1>6. CASE cp[k]
  <2>1. KissSlot(cp, k) = J
    BY <1>1, <1>3, <1>6
  <2>2. \A s \in Slots :
          InSlotBelow(cp, k, s) = IF s = J THEN {k} ELSE InSlotBelow(cp, k - 1, s)
    BY <1>4, <1>5, <1>6, <2>1
  <2>3. QED
    BY <1>6, <2>1, <2>2
<1>7. CASE ~cp[k]
  <2>1. KissSlot(cp, k) = KissSlot(cp, k - 1)
    BY <1>1, <1>3, <1>7
  <2>2. QED
    BY <1>4, <1>7, <2>1
<1>8. QED
  BY <1>6, <1>7

\* Every turn of the loop keeps the loop invariant.
LEMMA LoopStep == LoopInv /\ [Next]_vars => LoopInv'
<1> SUFFICES ASSUME LoopInv, [Next]_vars PROVE LoopInv'
  OBVIOUS
<1> USE BatchAssumption
<1>0. TypeOK /\ j = 1 + KissSlot(cfgPort, i - 1)
      /\ ctx = PartialContext(cfgPort, cfgChan, i - 1)
  BY DEF LoopInv
<1>1. CASE UNCHANGED vars
  BY <1>0, <1>1 DEF vars, LoopInv, TypeOK
<1>2. CASE KissTurn
  <2>1. /\ i \in 1..NKiss /\ i - 1 \in Nat
        /\ i' = i + 1 /\ i' - 1 = i /\ UNCHANGED <<cfgPort, cfgChan>>
        /\ cfgPort \in Configs /\ cfgChan \in ChanConfigs
    BY <1>0, <1>2 DEF KissTurn, TypeOK
  <2>2. KissSlot(cfgPort, i - 1) \in 0..(i - 1)
    BY <2>1, KissSetFinite
  <2>3. j \in 1..i /\ i \in Slots /\ i \in 0..NKiss /\ j \in Slots /\ j # 0
    BY <1>0, <2>1, <2>2 DEF Slots
  <2>4. PartialContext(cfgPort, cfgChan, i).port \in [Slots -> BOOLEAN]
        /\ PartialContext(cfgPort, cfgChan, i).name \in [Slots -> Names \cup {NULL}]
    BY <2>1, <2>3, PartialType
  \* What LoopInv' says, once the unchanged configuration is substituted.
  <2>5. SUFFICES /\ i' \in 1..(NKiss + 1) /\ j' \in 1..(NKiss + 1)
                 /\ j' = 1 + KissSlot(cfgPort, i)
                 /\ ctx' = PartialContext(cfgPort, cfgChan, i)
    <3>1. TypeOK'
      BY <2>1, <2>4 DEF TypeOK
    <3>2. QED
      BY <2>1, <3>1 DEF LoopInv
  <2>6. i' \in 1..(NKiss + 1)
    BY <2>1
  <2>7. CASE cfgPort[i]
    <3>1. KissSlot(cfgPort, i) = j
          /\ \A s \in Slots :
               InSlotBelow(cfgPort, i, s)
                 = IF s = j THEN {i} ELSE InSlotBelow(cfgPort, i - 1, s)
      BY <1>0, <2>1, <2>7, InSlotBelowStep
    <3>2. j' = j + 1
          /\ ctx' = [ctx EXCEPT !.port[j] = TRUE, !.name[j] = make_service_name(cfgChan[i])]
      BY <1>2, <2>7 DEF KissTurn
    <3>3. (CHOOSE k \in {i} : TRUE) = i
      OBVIOUS
    <3>4. ctx' = PartialContext(cfgPort, cfgChan, i)
      <4> DEFINE P0 == PartialContext(cfgPort, cfgChan, i - 1)
      <4>1. ctx' = [port |-> [P0.port EXCEPT ![j] = TRUE],
                    name |-> [P0.name EXCEPT ![j] = make_service_name(cfgChan[i])]]
        BY <1>0, <3>2 DEF PartialContext
      <4>2. [P0.port EXCEPT ![j] = TRUE] = PartialContext(cfgPort, cfgChan, i).port
        BY <2>3, <3>1 DEF PartialContext
      <4>3. [P0.name EXCEPT ![j] = make_service_name(cfgChan[i])]
              = PartialContext(cfgPort, cfgChan, i).name
        <5>1. InSlotBelow(cfgPort, i, j) = {i}
          BY <2>3, <3>1
        <5>2. (CHOOSE k \in InSlotBelow(cfgPort, i, j) : TRUE) = i
          BY <5>1, <3>3
        <5>3. PartialContext(cfgPort, cfgChan, i).name[j] = make_service_name(cfgChan[i])
          BY <2>3, <5>1, <5>2 DEF PartialContext
        <5>4. ASSUME NEW s \in Slots \ {j}
              PROVE  PartialContext(cfgPort, cfgChan, i).name[s] = P0.name[s]
          <6>1. InSlotBelow(cfgPort, i, s) = InSlotBelow(cfgPort, i - 1, s)
            BY <3>1
          <6>2. QED
            BY <6>1 DEF PartialContext
        <5>5. PartialContext(cfgPort, cfgChan, i).name
                = [s \in Slots |-> PartialContext(cfgPort, cfgChan, i).name[s]]
              /\ P0.name = [s \in Slots |-> P0.name[s]]
          BY DEF PartialContext
        <5>6. QED
          BY <2>3, <5>3, <5>4, <5>5
      <4>4. PartialContext(cfgPort, cfgChan, i)
              = [port |-> PartialContext(cfgPort, cfgChan, i).port,
                 name |-> PartialContext(cfgPort, cfgChan, i).name]
        BY DEF PartialContext
      <4>5. QED
        BY <4>1, <4>2, <4>3, <4>4
    <3>5. QED
      BY <2>3, <2>6, <3>1, <3>2, <3>4
  <2>8. CASE ~cfgPort[i]
    <3>1. KissSlot(cfgPort, i) = KissSlot(cfgPort, i - 1)
          /\ \A s \in Slots : InSlotBelow(cfgPort, i, s) = InSlotBelow(cfgPort, i - 1, s)
      BY <2>1, <2>8, InSlotBelowStep
    <3>2. UNCHANGED <<ctx, j>>
      BY <1>2, <2>8 DEF KissTurn
    <3>3. ctx' = PartialContext(cfgPort, cfgChan, i)
      BY <1>0, <3>1, <3>2 DEF PartialContext
    <3>4. QED
      BY <1>0, <2>3, <2>6, <3>1, <3>2, <3>3
  <2>9. QED
    BY <2>7, <2>8
<1>3. QED
  BY <1>1, <1>2 DEF Next

-----------------------------------------------------------------------------
(* dns_sd_service_count and dns_sd_create_context agree: the context has   *)
(* a filled slot for every non-zero port, so the count both backends test *)
(* before building it is the number of services they then announce.       *)

\* Two configured ports never share a slot: a later one lands further on.
LEMMA KissSlotInjective ==
    ASSUME NEW cp \in Configs, NEW m \in KissPorts, NEW k \in KissPorts,
           cp[m], cp[k], m < k
    PROVE  KissSlot(cp, m) < KissSlot(cp, k)
<1>1. k - 1 \in Nat /\ m \in Nat /\ m <= k - 1 /\ k \in 1..NKiss
  BY BatchAssumption DEF KissPorts
<1>2. KissSlot(cp, k) = 1 + KissSlot(cp, k - 1)
  BY <1>1, InSlotBelowStep
<1>3. KissSlot(cp, m) <= KissSlot(cp, k - 1)
  BY <1>1, KissSlotMonotone
<1>4. KissSlot(cp, m) \in Nat /\ KissSlot(cp, k - 1) \in Nat
  <2>1. KissSlot(cp, m) \in 0..m
    BY <1>1, KissSetFinite
  <2>2. KissSlot(cp, k - 1) \in 0..(k - 1)
    BY <1>1, KissSetFinite
  <2>3. QED
    BY <1>1, <2>1, <2>2
<1>5. QED
  BY <1>2, <1>3, <1>4

\* A configured port lands in one of the KISS slots 1..MAX_KISS_TCP_PORTS.
LEMMA KissSlotRange ==
    ASSUME NEW cp \in Configs, NEW k \in KissPorts, cp[k]
    PROVE  KissSlot(cp, k) \in KissPorts
<1>1. k - 1 \in Nat /\ k \in Nat /\ k \in 1..NKiss
  BY BatchAssumption DEF KissPorts
<1>2. KissSlot(cp, k) = 1 + KissSlot(cp, k - 1)
  BY <1>1, InSlotBelowStep
<1>3. KissSlot(cp, k - 1) \in 0..(k - 1)
  BY <1>1, KissSetFinite
<1>4. QED
  BY <1>1, <1>2, <1>3, BatchAssumption DEF KissPorts

\* The configured KISS ports and the KISS slots the context fills are in
\* one-to-one correspondence.
LEMMA FilledKissSlots ==
    ASSUME NEW cp \in Configs
    PROVE  Cardinality({s \in KissPorts : InSlot(cp, s) # {}})
             = Cardinality({k \in KissPorts : cp[k]})
<1> DEFINE Conf == {k \in KissPorts : cp[k]}
           Occ  == {s \in KissPorts : InSlot(cp, s) # {}}
           f    == [k \in Conf |-> KissSlot(cp, k)]
<1> USE BatchAssumption DEF Conf, Occ, f
<1>1. IsFiniteSet(Conf)
  <2>1. IsFiniteSet(KissPorts)
    BY FS_Interval DEF KissPorts
  <2>2. QED
    BY <2>1, FS_Subset
<1>2. f \in [Conf -> Occ]
  <2>1. ASSUME NEW k \in Conf PROVE KissSlot(cp, k) \in Occ
    <3>1. KissSlot(cp, k) \in KissPorts
      BY KissSlotRange
    <3>2. k \in InSlot(cp, KissSlot(cp, k))
      BY DEF InSlot
    <3>3. QED
      BY <3>1, <3>2
  <2>2. QED
    BY <2>1
<1>3. IsInjective(f)
  <2>1. ASSUME NEW a \in Conf, NEW b \in Conf, a # b
        PROVE  KissSlot(cp, a) # KissSlot(cp, b)
    <3>1. a \in Nat /\ b \in Nat /\ KissSlot(cp, a) \in Nat /\ KissSlot(cp, b) \in Nat
      <4>1. a \in Nat /\ b \in Nat
        BY DEF KissPorts
      <4>2. KissSlot(cp, a) \in 0..a
        BY <4>1, KissSetFinite
      <4>3. KissSlot(cp, b) \in 0..b
        BY <4>1, KissSetFinite
      <4>4. QED
        BY <4>1, <4>2, <4>3
    <3>2. CASE a < b
      BY <3>1, <3>2, KissSlotInjective
    <3>3. CASE b < a
      BY <3>1, <3>3, KissSlotInjective
    <3>4. QED
      BY <2>1, <3>1, <3>2, <3>3
  <2>2. QED
    BY <2>1 DEF IsInjective
<1>4. \A s \in Occ : \E k \in Conf : f[k] = s
  BY DEF InSlot
<1>5. ExistsBijection(Conf, Occ)
  BY <1>2, <1>3, <1>4 DEF ExistsBijection, Bijection, Injection, Surjection
<1>6. QED
  BY <1>1, <1>5, FS_Bijection

\* The number dns_sd_service_count returns is the number of slots of ctx
\* that dns_sd_create_context fills, for every configuration.
THEOREM CountMatchesContext ==
    ASSUME NEW cp \in Configs, NEW cc \in ChanConfigs
    PROVE  dns_sd_service_count(cp)
             = Cardinality({s \in Slots : dns_sd_create_context(cp, cc).port[s]})
<1> DEFINE Conf == {k \in KissPorts : cp[k]}
           Occ  == {s \in KissPorts : InSlot(cp, s) # {}}
<1> USE BatchAssumption DEF Conf, Occ
<1>1. IsFiniteSet(Conf) /\ IsFiniteSet(Occ)
  <2>1. IsFiniteSet(KissPorts)
    BY FS_Interval DEF KissPorts
  <2>2. QED
    BY <2>1, FS_Subset
<1>2. Cardinality(Occ) = Cardinality(Conf)
  BY FilledKissSlots
<1>3. 0 \notin Conf /\ 0 \notin Occ /\ cp[0] \in BOOLEAN
  BY BatchAssumption DEF KissPorts, Configs
<1>4. {s \in Slots : dns_sd_create_context(cp, cc).port[s]}
        = Occ \cup (IF cp[0] THEN {0} ELSE {})
  <2>1. ASSUME NEW s \in Slots
        PROVE  dns_sd_create_context(cp, cc).port[s]
                 = IF s = 0 THEN cp[0] ELSE InSlot(cp, s) # {}
    BY DEF dns_sd_create_context
  <2>2. Slots = {0} \cup KissPorts
    BY DEF Slots, KissPorts
  <2>3. CASE cp[0]
    BY <1>3, <2>1, <2>2, <2>3
  <2>4. CASE ~cp[0]
    BY <1>3, <2>1, <2>2, <2>4
  <2>5. QED
    BY <1>3, <2>3, <2>4
<1>5. {k \in 0..NKiss : cp[k]} = Conf \cup (IF cp[0] THEN {0} ELSE {})
  BY <1>3 DEF KissPorts
<1>6. CASE cp[0]
  <2>1. Cardinality(Conf \cup {0}) = Cardinality(Conf) + 1
        /\ Cardinality(Occ \cup {0}) = Cardinality(Occ) + 1
    BY <1>1, <1>3, FS_AddElement
  <2>2. QED
    BY <1>2, <1>4, <1>5, <1>6, <2>1 DEF dns_sd_service_count
<1>7. CASE ~cp[0]
  BY <1>2, <1>4, <1>5, <1>7 DEF dns_sd_service_count
<1>8. QED
  BY <1>6, <1>7

-----------------------------------------------------------------------------
(* The results.                                                            *)

\* The loop invariant holds at every turn of dns_sd_create_context's loop.
THEOREM LoopInvariant == Spec => []LoopInv
<1>1. Init => LoopInv
  BY LoopInit
<1>2. LoopInv /\ [Next]_vars => LoopInv'
  BY LoopStep
<1>3. QED
  BY <1>1, <1>2, PTL DEF Spec

\* Every variable of the loop stays in its type: i and j within
\* 1..MAX_KISS_TCP_PORTS + 1, every slot a port flag and a name or NULL.
THEOREM LoopTypeCorrect == Spec => []TypeOK
<1>1. LoopInv => TypeOK
  BY DEF LoopInv
<1>2. QED
  BY LoopInvariant, <1>1, PTL

\* No ctx[j] = ... of the loop writes past the 1 + MAX_KISS_TCP_PORTS
\* entries of ctx: when kiss_port[i - 1] is stored, j is at most i, for
\* every number of KISS ports.
THEOREM WriteBounded == Spec => []WriteInBounds
<1>1. LoopInv => WriteInBounds
  <2> SUFFICES ASSUME LoopInv, i <= NKiss, cfgPort[i] PROVE j \in 1..i
    BY DEF WriteInBounds
  <2>1. i \in 1..(NKiss + 1) /\ j = 1 + KissSlot(cfgPort, i - 1)
    BY DEF LoopInv, TypeOK
  <2>2. i - 1 \in Nat
    BY <2>1, BatchAssumption
  <2>3. KissSlot(cfgPort, i - 1) \in 0..(i - 1)
    BY <2>2, KissSetFinite
  <2>4. QED
    BY <2>1, <2>3
<1>2. QED
  BY LoopInvariant, <1>1, PTL

\* When the loop has run MAX_KISS_TCP_PORTS turns, ctx is exactly the
\* packed context of ServiceBatch: the configured KISS ports in order in
\* slots 1, 2, ..., each with its own channel's name, the rest empty.
THEOREM ContextReturned == Spec => []ContextAgrees
<1>1. LoopInv => ContextAgrees
  <2> SUFFICES ASSUME LoopInv, Returned
               PROVE  ctx = dns_sd_create_context(cfgPort, cfgChan)
    BY DEF ContextAgrees
  <2>0. i - 1 = NKiss
    BY BatchAssumption DEF Returned
  <2>1. ctx = PartialContext(cfgPort, cfgChan, NKiss)
    BY <2>0 DEF LoopInv
  <2>2. \A s \in Slots : InSlotBelow(cfgPort, NKiss, s) = InSlot(cfgPort, s)
    BY DEF InSlotBelow, InSlot, KissPorts
  <2>3. PartialContext(cfgPort, cfgChan, NKiss) = dns_sd_create_context(cfgPort, cfgChan)
    BY <2>2 DEF PartialContext, dns_sd_create_context
  <2>4. QED
    BY <2>1, <2>3
<1>2. QED
  BY LoopInvariant, <1>1, PTL

=============================================================================
