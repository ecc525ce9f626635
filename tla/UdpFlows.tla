------------------------------ MODULE UdpFlows ------------------------------
(***************************************************************************)
(* UDP flows of the network stack (network_stack.c) and the socket buffer  *)
(* pool (socket_buffer.c).  A datagram is its peer and one unit of         *)
(* payload; the ports are the same in every datagram and there is one      *)
(* queue, so a flow is never met on another.  The packet descriptor of a   *)
(* frame, which its handler returns before it ends, is in NetworkStack.    *)
(* The address of an IPv4 peer passes through two byte swaps that undo     *)
(* each other.  An IPv6 flow has the IPv4 address 0; its own addresses are *)
(* set after it was found, so the IPv6 peers of a port share one flow.     *)
(***************************************************************************)
EXTENDS Arp, Sequences

CONSTANTS
    UdpSlots,       \* NETWORK_UDP_FLOWS
    PoolBufs,       \* SOCKET_BUFFER_COUNT
    BufSize,        \* SOCKET_BUFFER_SIZE
    Peers6,         \* IPv6 peers
    UdpIdle         \* NETWORK_UDP_IDLE_TIMEOUT_NS

ASSUME UdpAssumption == UdpSlots \in Nat /\ PoolBufs \in Nat /\ BufSize \in Nat

VARIABLES
    udp,        \* g_udp_flows
    pool        \* g_pool: whether a buffer is in use, and what it holds

udpVars == <<udp, pool>>

NoFlow == [active |-> FALSE, remote |-> {}, buf |-> 0, seen |-> 0]

sockbuf_pool_init == pool = [b \in 1..PoolBufs |-> [used |-> FALSE, data |-> <<>>]]

\* The flows network_init_persistent finds: the boot self-test has left the
\* flow of its own datagrams, which come from the local address, in the first
\* slot.  That flow still points to the second buffer, the first one having
\* stayed with the flow the self-test let expire.
network_stack_self_test ==
    udp = [i \in 1..UdpSlots |->
              IF i = 1 THEN [active |-> TRUE, remote |-> LocalIp, buf |-> 2, seen |-> 0]
              ELSE NoFlow]

\* The first buffer not in use, 0 when there is none.
sockbuf_alloc(p) ==
    LET free == {b \in 1..PoolBufs : ~p[b].used} IN IF free = {} THEN 0 ELSE Least(free)

\* What does not fit is dropped; without a buffer everything is.
sockbuf_write(p, b, unit) ==
    IF b = 0 THEN p
    ELSE [p EXCEPT ![b].data = IF Len(@) < BufSize THEN Append(@, unit) ELSE @]

\* Mutant: a flow is found by its ports alone.
find_udp_flow_Ports(remote) == {i \in 1..UdpSlots : udp[i].active}

find_udp_flow(remote) == {i \in 1..UdpSlots : udp[i].active /\ udp[i].remote = remote}

\* The flow of a peer, found or made in a free slot, and the pool after it.
\* A slot that was used before does not give its old buffer back.
alloc_udp_flow(remote) ==
    LET hits == find_udp_flow(remote)
        free == {i \in 1..UdpSlots : ~udp[i].active}
        b == sockbuf_alloc(pool)
    IN  IF hits # {}
        THEN [slot |-> Least(hits), flow |-> [udp[Least(hits)] EXCEPT !.seen = now], pool |-> pool]
        ELSE IF free = {} THEN [slot |-> 0, flow |-> NoFlow, pool |-> pool]
        ELSE [slot |-> Least(free),
              flow |-> [active |-> TRUE, remote |-> remote, buf |-> b, seen |-> now],
              pool |-> IF b = 0 THEN pool ELSE [pool EXCEPT ![b] = [used |-> TRUE, data |-> <<>>]]]

\* A datagram without a flow is dropped.
network_stack_process_udp_frame ==
    \E peer \in ArpHosts \ {LocalIp} :
        LET f == alloc_udp_flow(peer)
        IN  /\ f.slot # 0
            /\ udp' = [udp EXCEPT ![f.slot] = f.flow]
            /\ pool' = sockbuf_write(f.pool, f.flow.buf, peer)
            /\ UNCHANGED arpVars

network_stack_process_udp_frame_v6 ==
    \E peer \in Peers6 :
        LET f == alloc_udp_flow({})
        IN  /\ f.slot # 0
            /\ udp' = [udp EXCEPT ![f.slot] = f.flow]
            /\ pool' = sockbuf_write(f.pool, f.flow.buf, peer)
            /\ UNCHANGED arpVars

network_stack_udp_send ==
    \E i \in 1..UdpSlots :
        /\ udp[i].active
        /\ arp' = tcp_resolve_mac(arp, udp[i].remote).cache
        /\ UNCHANGED <<told, udp, pool>>

\* An idle flow leaves its slot and keeps its buffer.
network_stack_expire_udp_flows ==
    /\ udp' = [i \in 1..UdpSlots |->
                  IF now > udp[i].seen /\ now - udp[i].seen >= UdpIdle THEN NoFlow ELSE udp[i]]
    /\ UNCHANGED <<pool, arpVars>>

UdpStep == network_stack_udp_send \/ network_stack_expire_udp_flows

(***************************************************************************)
(* The buffer of an active IPv4 flow is in use, is no other active flow's  *)
(* and holds only what the flow's own peer sent, whichever slots and       *)
(* buffers were used before by whom (find_udp_flow, alloc_udp_flow,        *)
(* sockbuf_alloc, network_stack_expire_udp_flows).  The flow the boot      *)
(* self-test leaves behind is excepted: network_init_persistent frees the  *)
(* buffer it points to (network_stack.c:3085) and a later flow takes it.   *)
(***************************************************************************)
BufferIsOwn ==
    LET flows == {i \in 1..UdpSlots : udp[i].active /\ udp[i].remote # LocalIp}
    IN  \A i \in flows : udp[i].buf # 0 /\ udp[i].remote # {} =>
        /\ pool[udp[i].buf].used
        /\ \A j \in flows \ {i} : udp[j].buf # udp[i].buf
        /\ \A k \in 1..Len(pool[udp[i].buf].data) : pool[udp[i].buf].data[k] = udp[i].remote

=============================================================================
