---------------------------- MODULE ServiceBatch ----------------------------
(***************************************************************************)
(* The service batch of dns_sd_common.c: which of the configured AGWPE and *)
(* KISS TCP ports are announced, and the context array built for them.     *)
(*                                                                         *)
(* A configuration is abstracted to cfgPort, a function from the config    *)
(* port index to "this port is non-zero": index 0 is mc->agwpe_port, index *)
(* k in 1..NKiss is mc->kiss_port[k-1]; cfgChan[k] is mc->kiss_chan[k-1].  *)
(*                                                                         *)
(* A service name is abstracted to a pair <<stem, n>>.  All names of one   *)
(* context share the base name and the host name, so the only part of the *)
(* text of make_service_name that tells two names apart is the channel: it *)
(* is the stem.  n is the position in the sequence of alternative names    *)
(* that avahi_alternative_service_name produces ("X", "X #2", "X #3" ...), *)
(* 1 for the name as first built.  NULL is a slot without a name.          *)
(***************************************************************************)
EXTENDS Integers, FiniteSets

CONSTANTS
    NKiss,   \* MAX_KISS_TCP_PORTS
    Chans    \* the radio channels a KISS port may be bound to

ASSUME BatchAssumption ==
    /\ NKiss \in Nat \ {0}
    /\ Chans \subseteq Nat

\* kiss_chan of -1: the port serves every channel, and the name has no
\* channel part.  The AGWPE service is always built with channel -1.
NoChan == -1
ChanVals == Chans \cup {NoChan}

\* MAX_DNS_SD_SERVICES = 1 + MAX_KISS_TCP_PORTS slots; slot 0 is AGWPE.
Slots == 0..NKiss
KissPorts == 1..NKiss

\* The two DNS-SD service types of dns_sd_dw.h, DNS_SD_TYPE_AGWPE and
\* DNS_SD_TYPE_KISS, each with its type name for the log.
ServiceTypes == {"agwpe", "kiss"}

\* The DNS-SD service type a slot is announced with (i == 0 ? AGWPE : KISS).
SType(i) == IF i = 0 THEN "agwpe" ELSE "kiss"

Names == ChanVals \X (Nat \ {0})
NULL == <<>>

Configs == [0..NKiss -> BOOLEAN]
ChanConfigs == [KissPorts -> ChanVals]

\* dns_sd_service_count: the number of non-zero ports.
dns_sd_service_count(cfgPort) == Cardinality({k \in 0..NKiss : cfgPort[k]})

\* make_service_name: "<base>[ channel <c>][ on <host>]".  The channel part
\* is left out for channel -1; base and host are common to all slots.
make_service_name(channel) == <<channel, 1>>

\* The slot a configured KISS port k lands in: KISS ports are packed into
\* slots 1, 2, ... in configuration order, skipping the zero ones.
KissSlot(cfgPort, k) == Cardinality({m \in 1..k : cfgPort[m]})

\* dns_sd_create_context: ctx[0] is AGWPE if configured; the configured KISS
\* ports follow in order.  calloc leaves the other slots with port 0 and a
\* NULL name.
InSlot(cfgPort, j) == {k \in KissPorts : cfgPort[k] /\ KissSlot(cfgPort, k) = j}

dns_sd_create_context(cfgPort, cfgChan) ==
    [port |-> [j \in Slots |->
                 IF j = 0 THEN cfgPort[0] ELSE InSlot(cfgPort, j) # {}],
     name |-> [j \in Slots |->
                 IF j = 0
                 THEN IF cfgPort[0] THEN make_service_name(NoChan) ELSE NULL
                 ELSE IF InSlot(cfgPort, j) # {}
                      THEN make_service_name(cfgChan[CHOOSE k \in InSlot(cfgPort, j) : TRUE])
                      ELSE NULL]]

\* avahi_alternative_service_name: "X" -> "X #2", "X #n" -> "X #(n+1)".
avahi_alternative_service_name(nm) == <<nm[1], nm[2] + 1>>

=============================================================================
