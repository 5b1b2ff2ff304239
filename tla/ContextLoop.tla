----------------------------- MODULE ContextLoop -----------------------------
(* dns_sd_create_context as the code computes it: calloc, the AGWPE slot,  *)
(* then one step per turn of the for (i = 0, j = 1; ...) loop over the     *)
(* KISS ports, with j moving only past the non-zero ones.  The run checks  *)
(* that the loop ends with the context ServiceBatch's closed form gives,   *)
(* and that no turn writes past the MAX_DNS_SD_SERVICES slots of ctx.      *)
EXTENDS ServiceBatch

VARIABLES
    cfgPort, cfgChan,   \* mc->agwpe_port / kiss_port[] != 0, kiss_chan[]
    i,                  \* the loop index, 1-based: kiss_port[i - 1]
    j,                  \* the next slot of ctx to fill
    ctx                 \* [port, name] of every slot

vars == <<cfgPort, cfgChan, i, j, ctx>>

\* Seeded fault: the loop starts at j = 0 and overwrites the AGWPE slot.
Init_j0 ==
    /\ cfgPort \in Configs
    /\ cfgChan \in ChanConfigs
    /\ ctx = [port |-> [s \in Slots |-> s = 0 /\ cfgPort[0]],
              name |-> [s \in Slots |-> IF s = 0 /\ cfgPort[0]
                                        THEN make_service_name(NoChan)
                                        ELSE NULL]]
    /\ i = 1
    /\ j = 0

\* calloc'ed ctx, then ctx[0] for a non-zero AGWPE port.
Init ==
    /\ cfgPort \in Configs
    /\ cfgChan \in ChanConfigs
    /\ ctx = [port |-> [s \in Slots |-> s = 0 /\ cfgPort[0]],
              name |-> [s \in Slots |-> IF s = 0 /\ cfgPort[0]
                                        THEN make_service_name(NoChan)
                                        ELSE NULL]]
    /\ i = 1
    /\ j = 1

\* Seeded faults: j++ moved out of the if, so a zero port leaves a hole;
\* j advanced twice for a stored port.
KissTurn_holes ==
    /\ i <= NKiss
    /\ \/ /\ cfgPort[i]
          /\ ctx' = [ctx EXCEPT !.port[j] = TRUE,
                                !.name[j] = make_service_name(cfgChan[i])]
       \/ /\ ~cfgPort[i]
          /\ UNCHANGED ctx
    /\ j' = j + 1
    /\ i' = i + 1
    /\ UNCHANGED <<cfgPort, cfgChan>>

KissTurn_twice ==
    /\ i <= NKiss
    /\ \/ /\ cfgPort[i]
          /\ ctx' = [ctx EXCEPT !.port[j] = TRUE,
                                !.name[j] = make_service_name(cfgChan[i])]
          /\ j' = j + 2
       \/ /\ ~cfgPort[i]
          /\ UNCHANGED <<ctx, j>>
    /\ i' = i + 1
    /\ UNCHANGED <<cfgPort, cfgChan>>

\* One turn: a non-zero kiss_port[i - 1] is stored in ctx[j] with its
\* channel's name, and j++; a zero one is skipped.
KissTurn ==
    /\ i <= NKiss
    /\ \/ /\ cfgPort[i]
          /\ ctx' = [ctx EXCEPT !.port[j] = TRUE,
                                !.name[j] = make_service_name(cfgChan[i])]
          /\ j' = j + 1
       \/ /\ ~cfgPort[i]
          /\ UNCHANGED <<ctx, j>>
    /\ i' = i + 1
    /\ UNCHANGED <<cfgPort, cfgChan>>

\* The loop has run MAX_KISS_TCP_PORTS turns: return ctx.
Returned == i = NKiss + 1

Next == KissTurn

Spec == Init /\ [][Next]_vars

-----------------------------------------------------------------------------
TypeOK ==
    /\ cfgPort \in Configs /\ cfgChan \in ChanConfigs
    /\ i \in 1..(NKiss + 1) /\ j \in 1..(NKiss + 1)
    /\ ctx.port \in [Slots -> BOOLEAN]
    /\ ctx.name \in [Slots -> Names \cup {NULL}]

\* Every ctx[j] = ... of the loop lands inside the array of
\* MAX_DNS_SD_SERVICES = 1 + MAX_KISS_TCP_PORTS entries: j never passes the
\* turn it is written in, so the last KISS port fits in the last slot.
WriteInBounds ==
    i <= NKiss /\ cfgPort[i] => j \in 1..i

\* When the loop returns, ctx is the packed context: the configured KISS
\* ports in their configuration order in slots 1, 2, ..., each named after
\* its own channel, and every slot after them empty (port 0, NULL name).
ContextAgrees ==
    Returned => ctx = dns_sd_create_context(cfgPort, cfgChan)

=============================================================================
