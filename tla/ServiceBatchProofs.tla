-------------------------- MODULE ServiceBatchProofs -------------------------
(* Lemmas about the service batch of dns_sd_common.c, used by the proofs    *)
(* about both backends.                                                     *)
EXTENDS ServiceBatch, TLAPS

\* dns_sd_create_context builds a port flag and a name or NULL for every slot.
LEMMA ContextType ==
    ASSUME NEW cp \in Configs, NEW cc \in ChanConfigs
    PROVE  /\ dns_sd_create_context(cp, cc).port \in [Slots -> BOOLEAN]
           /\ dns_sd_create_context(cp, cc).name \in [Slots -> Names \cup {NULL}]
           /\ \A j \in Slots : dns_sd_create_context(cp, cc).port[j]
                               => dns_sd_create_context(cp, cc).name[j] \in Names
<1> DEFINE P(j) == dns_sd_create_context(cp, cc).port[j]
           N(j) == dns_sd_create_context(cp, cc).name[j]
<1>1. ASSUME NEW j \in Slots, InSlot(cp, j) # {}
      PROVE  make_service_name(cc[CHOOSE k \in InSlot(cp, j) : TRUE]) \in Names
  <2>1. (CHOOSE k \in InSlot(cp, j) : TRUE) \in KissPorts
    BY <1>1 DEF InSlot
  <2>2. QED
    BY <2>1, BatchAssumption DEF ChanConfigs, make_service_name, Names, ChanVals
<1>2. make_service_name(NoChan) \in Names
  BY DEF make_service_name, Names, ChanVals
<1>3. cp[0] \in BOOLEAN
  <2>1. 0 \in 0..NKiss
    BY BatchAssumption
  <2>2. QED
    BY <2>1, Zenon DEF Configs
<1>4. ASSUME NEW j \in Slots
      PROVE  /\ P(j) \in BOOLEAN
             /\ N(j) \in Names \cup {NULL}
             /\ P(j) => N(j) \in Names
  <2>1. CASE j = 0
    <3>1. P(j) = cp[0] /\ N(j) = IF cp[0] THEN make_service_name(NoChan) ELSE NULL
      BY <2>1 DEF dns_sd_create_context
    <3>2. QED
      BY <3>1, <1>2, <1>3, Zenon
  <2>2. CASE j # 0 /\ InSlot(cp, j) # {}
    <3>1. P(j) = TRUE /\ N(j) = make_service_name(cc[CHOOSE k \in InSlot(cp, j) : TRUE])
      BY <2>2, Zenon DEF dns_sd_create_context
    <3>2. QED
      BY <3>1, <1>1, <2>2, Zenon
  <2>3. CASE j # 0 /\ InSlot(cp, j) = {}
    <3>1. P(j) = FALSE /\ N(j) = NULL
      BY <2>3, Zenon DEF dns_sd_create_context
    <3>2. QED
      BY <3>1, Zenon
  <2>4. QED
    BY <2>1, <2>2, <2>3
<1>5. dns_sd_create_context(cp, cc).port = [j \in Slots |-> P(j)]
      /\ dns_sd_create_context(cp, cc).name = [j \in Slots |-> N(j)]
  BY DEF dns_sd_create_context
<1>6. QED
  BY <1>4, <1>5

\* The next alternative of a name is a name.
LEMMA AltNameType ==
    ASSUME NEW nm \in Names
    PROVE  avahi_alternative_service_name(nm) \in Names
BY DEF avahi_alternative_service_name, Names

=============================================================================
