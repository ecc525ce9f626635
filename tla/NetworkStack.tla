---------------------------- MODULE NetworkStack ----------------------------
(***************************************************************************)
(* The TCP half of src/kernel/runtime/network_stack.c with the socket      *)
(* buffers of net/socket_buffer.c below it and the socket system calls of  *)
(* user/syscall.c above it.                                                *)
(*                                                                         *)
(* The stack runs to completion: network_poll_tick takes one frame, hands  *)
(* it to the protocol and drains what the flows have pending, all in one   *)
(* step.  The stack is one record, "net", each routine maps it to its new  *)
(* value.  A flow is named by its slot: a slot never becomes FREE again,   *)
(* so the slot and flow_id stand for each other.                           *)
(*                                                                         *)
(* The peers and the network are the environment: any segment of a peer's  *)
(* byte stream may arrive at any time, again, late or never.  Byte i of    *)
(* every stream is the number i.                                           *)
(***************************************************************************)
EXTENDS Integers, Sequences, SequencesExt, FiniteSets, FiniteSetsExt

CONSTANTS Peers,
          Family,       \* [Peers -> {"v4", "v6"}]
          Isn,          \* [Peers -> 0..Wrap-1]: sequence number of the SYN
          Stream,       \* [Peers -> Nat]: bytes the peer sends
          Reply,        \* [Peers -> Nat]: bytes the application answers
          FinCarriesData, \* a FIN may end a segment that carries data
          Wrap,       \* 2^32
          Mss,          \* NETWORK_TCP_MSS
          PeerMss,      \* the longest payload a peer sends in a segment
          Slots,        \* 1..NETWORK_TCP_CONNECTIONS
          MaxHalfOpen,  \* NETWORK_TCP_MAX_HALF_OPEN
          OooEntries,   \* 1..TCP_OOO_BUF_ENTRIES
          BufSize,      \* SOCKET_BUFFER_SIZE
          PoolSize,     \* SOCKET_BUFFER_COUNT less what UDP flows hold
          Queues, RingSize, Descs,
          Listeners,    \* 1..NETWORK_MAX_LISTENERS
          MaxBacklog,   \* NETWORK_LISTENER_BACKLOG
          Socks,        \* 1..KERNEL_SOCK_MAX
          MaxPerPort    \* KERNEL_SOCK_MAX_PER_PORT

ASSUME StreamsAssumption ==
  /\ \A p \in Peers : Isn[p] \in 0..(Wrap - 1) /\ Stream[p] + 2 < Wrap
  /\ Slots \subseteq Nat /\ Listeners \subseteq Nat /\ Socks \subseteq Nat

VARIABLES net,     \* the stack
          socks,   \* g_kernel_sockets and the socket-to-flow map
          got,     \* per flow, the bytes recv returned, until the flow is closed
          sent,    \* per flow, the bytes put into segments, likewise
          told     \* per flow, how many bytes send answered as sent, likewise

vars == <<net, socks, got, sent, told>>

NoBuf      == <<-1>>                       \* a null socket_buffer_t pointer
NoEntry    == [seq |-> -1, data |-> <<>>]  \* ooo_buf entry not in_use
NoListener == [sock |-> 0, backlog |-> <<>>]
NoSock     == [kind |-> "free", flow |-> 0]

FreeFlow == [state |-> "FREE", peer |-> 0, queue |-> 0, expected_seq |-> 0,
             rx |-> NoBuf, tx |-> NoBuf, ooo |-> [e \in OooEntries |-> NoEntry],
             synack |-> FALSE, ack |-> FALSE, fin |-> FALSE,
             close_requested |-> FALSE, mac |-> FALSE]

network_stack_init ==
  net = [flow |-> [i \in Slots |-> FreeFlow], half_open |-> 0, pool |-> 0,
         bound |-> {}, ring |-> [q \in Queues |-> [rx |-> 0, tx |-> 0]],
         owned |-> 0, neighbours |-> {},
         listener |-> [l \in Listeners |-> NoListener]]

Init == /\ network_stack_init
        /\ socks = [k \in Socks |-> NoSock]
        /\ got = [i \in Slots |-> <<>>]
        /\ sent = [i \in Slots |-> <<>>]
        /\ told = [i \in Slots |-> 0]
-----------------------------------------------------------------------------
(* Socket buffers.                                                         *)

sockbuf_used(b) == IF b = NoBuf THEN 0 ELSE Len(b)

Written(b, data) == IF b = NoBuf THEN 0 ELSE Min({Len(data), BufSize - Len(b)})

sockbuf_write(b, data) ==
  IF b = NoBuf THEN b ELSE b \o SubSeq(data, 1, Written(b, data))

sockbuf_alloc(n) == IF n.pool < PoolSize THEN <<>> ELSE NoBuf

Taken(b) == IF b = NoBuf THEN 0 ELSE 1

-----------------------------------------------------------------------------
(* Queue rings and packet descriptors.  A descriptor is owned from its     *)
(* allocation until the packet is complete or dropped.                     *)

alloc_packet_desc(n, q) == [n EXCEPT !.ring[q].rx = @ + 1, !.owned = @ + 1]

PacketRefused(n, q) == n.ring[q].rx >= RingSize \/ n.owned >= Descs

packet_mark_dropped(n, q) == [n EXCEPT !.ring[q].rx = @ - 1, !.owned = @ - 1]

packet_mark_tx(n, q) == [n EXCEPT !.ring[q].rx = @ - 1, !.ring[q].tx = @ + 1]

packet_mark_complete(n, q) == [n EXCEPT !.ring[q].tx = @ - 1, !.owned = @ - 1]

Echoed(n, q) ==
  IF n.ring[q].tx >= RingSize THEN packet_mark_dropped(n, q)
  ELSE packet_mark_complete(packet_mark_tx(n, q), q)

network_stack_bind_queue(q) ==
  /\ q \notin net.bound
  /\ net' = [net EXCEPT !.bound = @ \cup {q}, !.ring[q] = [rx |-> 0, tx |-> 0]]
  /\ UNCHANGED <<socks, got, sent, told>>

network_stack_release_queue(q) ==
  /\ q \in net.bound
  /\ net' = [net EXCEPT !.bound = @ \ {q}, !.ring[q] = [rx |-> 0, tx |-> 0]]
  /\ UNCHANGED <<socks, got, sent, told>>
-----------------------------------------------------------------------------
(* Listeners.  find_listener_ex takes the first active one; the port is    *)
(* the same for all.                                                       *)

Active(n) == {l \in Listeners : n.listener[l].sock # 0}

network_stack_has_listener(n) == Active(n) # {}

(* A full registry leaves the socket without a listener.                   *)
network_stack_register_listener(n, k) ==
  LET free == Listeners \ Active(n) IN
  IF free = {} THEN n
  ELSE [n EXCEPT !.listener[Min(free)] = [sock |-> k, backlog |-> <<>>]]

(* The first listener of the port goes, with its backlog, whosever it is.  *)
network_stack_unregister_listener(n) ==
  IF Active(n) = {} THEN n ELSE [n EXCEPT !.listener[Min(Active(n))] = NoListener]

listener_enqueue_backlog(n, i) ==
  IF Active(n) = {} THEN n
  ELSE LET l == Min(Active(n)) IN
       IF Len(n.listener[l].backlog) >= MaxBacklog THEN n
       ELSE [n EXCEPT !.listener[l].backlog = Append(@, i)]
-----------------------------------------------------------------------------
(* Out-of-order segments.                                                  *)

(* Stored when the sequence number is above the expected one as an         *)
(* unsigned number, in the first entry that is not in use, cut off at Mss.  *)
ooo_buffer_store(f, seq, data) ==
  LET unused == {e \in OooEntries : f.ooo[e] = NoEntry} IN
  IF seq <= f.expected_seq \/ unused = {} THEN f
  ELSE [f EXCEPT !.ooo[Min(unused)] =
                       [seq |-> seq, data |-> SubSeq(data, 1, Min({Mss, Len(data)}))]]

Advance(f, data) ==
  [f EXCEPT !.rx = sockbuf_write(@, data),
            !.expected_seq = (@ + Written(f.rx, data)) % Wrap,
            !.ack = TRUE]

(* An entry is released even when the buffer took only a part of it.       *)
DrainEntry(f, e) == [Advance(f, f.ooo[e].data) EXCEPT !.ooo[e] = NoEntry]

(* Passes over the entries until one makes no progress.                    *)
ooo_buffer_drain(f) ==
  LET n == Cardinality(OooEntries)
      Visit(g, e) == IF g.ooo[e] # NoEntry /\ g.ooo[e].seq = g.expected_seq
                     THEN DrainEntry(g, e) ELSE g
  IN  FoldLeft(Visit, f, [k \in 1..(n * n) |-> ((k - 1) % n) + 1])
-----------------------------------------------------------------------------
(* Segments.  "pos" is the stream position of the first payload byte.      *)

SeqAt(p, pos) == (Isn[p] + 1 + pos) % Wrap

Segment(p, flags, pos, len) == [peer |-> p, flags |-> flags, pos |-> pos, len |-> len]

Payload(seg) == [k \in 1..seg.len |-> seg.pos + k - 1]

Segments(p) ==
  {Segment(p, {"SYN"}, -1, 0), Segment(p, {"RST"}, 0, 0), Segment(p, {"ACK"}, 0, 0)}
  \cup {Segment(p, {"ACK"}, pos, len) : pos \in 0..Stream[p], len \in 1..PeerMss}
  \cup {Segment(p, {"FIN", "ACK"}, Stream[p] - len, len) :
          len \in IF FinCarriesData THEN 0..Min({PeerMss, Stream[p]}) ELSE {0}}

Sendable(seg) == seg.pos + seg.len <= Stream[seg.peer]
-----------------------------------------------------------------------------
(* Segments on a flow.                                                     *)

(* A closed flow keeps its slot for good.  Nothing reads its other fields  *)
(* again: they are cleared here, to have fewer states to tell apart.       *)
Closed(f) == [FreeFlow EXCEPT !.state = "CLOSED", !.peer = f.peer, !.queue = f.queue,
                              !.rx = f.rx, !.tx = f.tx]

Reset(f) == [Closed(f) EXCEPT !.rx = NoBuf, !.tx = NoBuf]

(* Mutant: a RST leaves the half-open counter alone.                       *)
ResetFlow_KeepsHalfOpen(n, i) ==
  [n EXCEPT !.flow[i] = Reset(@), !.pool = @ - Taken(n.flow[i].rx) - Taken(n.flow[i].tx)]

(* A RST closes the flow and gives its buffers back.                       *)
ResetFlow(n, i) ==
  [n EXCEPT !.flow[i] = Reset(@),
            !.half_open = IF n.flow[i].state = "SYN_RECV" /\ @ > 0 THEN @ - 1 ELSE @,
            !.pool = @ - Taken(n.flow[i].rx) - Taken(n.flow[i].tx)]

FreeSlots(n) == {i \in Slots : n.flow[i].state = "FREE"}

FlowRefused(n) == n.half_open >= MaxHalfOpen \/ FreeSlots(n) = {}

(* A slot that is taken starts clean: nothing of its fields carries over.  *)
NewFlow(p, q) ==
  [FreeFlow EXCEPT !.state = "SYN_RECV", !.peer = p, !.queue = q,
                   !.expected_seq = SeqAt(p, 0), !.synack = TRUE]

(* A SYN for a listening port takes the first free slot and two buffers,   *)
(* either of which may be missing.                                         *)
alloc_tcp_flow(n, seg, q) ==
  LET rx == sockbuf_alloc(n)
      tx == sockbuf_alloc([n EXCEPT !.pool = @ + Taken(rx)])
  IN  [n EXCEPT
        !.flow[Min(FreeSlots(n))] =
           [NewFlow(seg.peer, q) EXCEPT !.rx = rx, !.tx = tx],
        !.half_open = @ + 1,
        !.pool = @ + Taken(rx) + Taken(tx)]

(* Any ACK completes the handshake; its payload, if it has one, is left to *)
(* the peer to send again.  A full backlog drops the connection silently.  *)
CompleteHandshake(n, i) ==
  listener_enqueue_backlog(
    [n EXCEPT !.flow[i].state = "ESTABLISHED",
              !.half_open = IF @ > 0 THEN @ - 1 ELSE @], i)

(* A FIN moves the expected number behind itself wherever it is.           *)
HandleFin(f, seg) ==
  IF "FIN" \notin seg.flags THEN f
  ELSE [f EXCEPT !.expected_seq = (SeqAt(seg.peer, seg.pos) + 1) % Wrap,
                 !.ack = TRUE,
                 !.state = IF @ = "ESTABLISHED" THEN "CLOSE_WAIT" ELSE @]

(* Mutant: a segment behind a gap is delivered at once.                    *)
HandlePayload_OverGap(f, seg) ==
  IF seg.len = 0 \/ f.rx = NoBuf \/ SeqAt(seg.peer, seg.pos) < f.expected_seq THEN f
  ELSE ooo_buffer_drain(Advance(f, Payload(seg)))

HandlePayload(f, seg) ==
  LET seq == SeqAt(seg.peer, seg.pos) IN
  IF seg.len = 0 \/ f.rx = NoBuf THEN f
  ELSE IF seq = f.expected_seq THEN ooo_buffer_drain(Advance(f, Payload(seg)))
  ELSE IF seq > f.expected_seq THEN ooo_buffer_store(f, seq, Payload(seg))
  ELSE f

HandleData(f, seg) ==
  LET g == HandlePayload(HandleFin(f, seg), seg) IN
  [g EXCEPT !.fin = @ \/ (g.close_requested /\ sockbuf_used(g.tx) = 0)]

Open == {"ESTABLISHED", "CLOSE_WAIT"}

FlowsOf(n, p) == {i \in Slots : n.flow[i].state # "FREE" /\ n.flow[i].peer = p}

(* Which queue a segment is accounted to: the flow's, or any bound one.    *)
QueuesFor(n, known) ==
  IF known = {} THEN n.bound ELSE {n.flow[Min(known)].queue} \cap n.bound

(* A segment that has its packet descriptor, with the flows of its peer.   *)
Dispatch(n, known, seg, q) ==
  LET i     == Min(known)
      state == n.flow[i].state
  IN  IF "RST" \in seg.flags
        THEN packet_mark_dropped(IF known = {} THEN n ELSE ResetFlow(n, i), q)
      ELSE IF known = {} /\ "SYN" \in seg.flags
        THEN IF ~network_stack_has_listener(n) \/ FlowRefused(n)
             THEN packet_mark_dropped(n, q)
             ELSE Echoed(alloc_tcp_flow(n, seg, q), q)
      ELSE IF known # {} /\ state = "SYN_RECV" /\ "ACK" \in seg.flags
        THEN Echoed(CompleteHandshake(n, i), q)
      ELSE IF known # {} /\ state \in Open
        THEN Echoed([n EXCEPT !.flow[i] = HandleData(@, seg)], q)
      ELSE packet_mark_dropped(n, q)

ProcessSegment(n, known, seg, q) ==
  IF PacketRefused(n, q) THEN n ELSE Dispatch(alloc_packet_desc(n, q), known, seg, q)
-----------------------------------------------------------------------------
(* tcp_drain_pending: what one flow sends, in the order SYN-ACK, one       *)
(* segment of data, ACK, FIN, once the neighbour is resolved.              *)

Silent(n, f) == f.state \in {"FREE", "CLOSED"} \/ (~f.mac /\ f.peer \notin n.neighbours)

Outgoing(n, f) ==
  IF Silent(n, f) \/ f.state \notin Open \/ sockbuf_used(f.tx) = 0 THEN <<>>
  ELSE SubSeq(f.tx, 1, Min({Mss, Len(f.tx)}))

(* Mutant: the FIN does not wait for the transmit buffer to run empty.     *)
SendFin_Early(f) ==
  IF ~f.fin THEN f
  ELSE [f EXCEPT !.fin = FALSE,
                 !.state = IF @ = "ESTABLISHED" THEN "FIN_WAIT"
                           ELSE IF @ = "CLOSE_WAIT" THEN "LAST_ACK" ELSE @]

SendFin(f) ==
  IF ~f.fin \/ sockbuf_used(f.tx) > 0 THEN f
  ELSE [f EXCEPT !.fin = FALSE,
                 !.state = IF @ = "ESTABLISHED" THEN "FIN_WAIT"
                           ELSE IF @ = "CLOSE_WAIT" THEN "LAST_ACK" ELSE @]

DrainFlow(n, f) ==
  LET rest == [f EXCEPT !.mac = TRUE, !.synack = FALSE,
                        !.tx = IF f.tx = NoBuf THEN f.tx
                               ELSE SubSeq(f.tx, Len(Outgoing(n, f)) + 1, Len(f.tx))]
  IN  IF Silent(n, f) THEN f
      ELSE SendFin([rest EXCEPT !.ack = @ /\ sockbuf_used(rest.tx) > 0])

tcp_drain_pending(n) == [n EXCEPT !.flow = [i \in Slots |-> DrainFlow(n, @[i])]]

(* The end of a poll that took a frame: n is the stack after the frame.    *)
(* What virtio_net_tx answers is not looked at: a segment the device does  *)
(* not take is gone like one the network loses.                            *)
Drain(n) ==
  /\ net' = tcp_drain_pending(n)
  /\ sent' = [i \in Slots |-> IF n.flow[i].state = "CLOSED" THEN <<>>
                              ELSE sent[i] \o Outgoing(n, n.flow[i])]
  /\ got' = [i \in Slots |-> IF n.flow[i].state = "CLOSED" THEN <<>> ELSE got[i]]
  /\ told' = [i \in Slots |-> IF n.flow[i].state = "CLOSED" THEN 0 ELSE told[i]]
  /\ UNCHANGED socks
-----------------------------------------------------------------------------
(* network_poll_tick, one action per kind of frame.  Without a frame it     *)
(* returns before it drains anything: a stuttering step.                    *)

(* ARP and neighbour discovery requests, ICMP, UDP: only the drain matters. *)
PollOther == Drain(net)

(* An ARP reply or a neighbour advertisement fills the neighbour cache and *)
(* may push an older entry out.                                            *)
PollNeighbour(p) ==
  \E old \in SUBSET (net.neighbours \ {p}) :
    Drain([net EXCEPT !.neighbours = (@ \ old) \cup {p}])

PollSegment(seg, known) ==
  \/ QueuesFor(net, known) = {} /\ Drain(net)
  \/ \E q \in QueuesFor(net, known) : Drain(ProcessSegment(net, known, seg, q))

network_stack_process_tcp_frame(p) ==
  /\ Family[p] = "v4"
  /\ \E seg \in Segments(p) : Sendable(seg) /\ PollSegment(seg, FlowsOf(net, p))

network_stack_process_tcp_frame_v6(p) ==
  /\ Family[p] = "v6"
  /\ \E seg \in Segments(p) : Sendable(seg) /\ PollSegment(seg, FlowsOf(net, p))

network_poll_tick ==
  \/ PollOther
  \/ \E p \in Peers : \/ PollNeighbour(p)
                      \/ network_stack_process_tcp_frame(p)
                      \/ network_stack_process_tcp_frame_v6(p)

(* The flows in "old" have been silent for their timeout.  The buffers of  *)
(* a flow that times out stay with it.                                     *)
network_stack_expire_tcp_flows ==
  \E old \in SUBSET {i \in Slots : net.flow[i].state \in {"SYN_RECV", "FIN_WAIT"}} :
    /\ old # {}
    /\ net' = [net EXCEPT
         !.flow = [i \in Slots |-> IF i \in old THEN Closed(@[i]) ELSE @[i]],
         !.half_open =
            Max({0, @ - Cardinality({i \in old : net.flow[i].state = "SYN_RECV"})})]
    /\ UNCHANGED <<socks, got, sent, told>>
-----------------------------------------------------------------------------
(* Socket system calls.                                                    *)

Unused == {k \in Socks : socks[k].kind = "free"}

Connected == {k \in Socks : socks[k].kind = "connected"}

kernel_socket_free(k) == [socks EXCEPT ![k] = NoSock]

(* A socket and its mapping are one record here: only TCP sockets are      *)
(* mapped, and the map has an entry for every socket there can be.         *)
network_stack_map_socket(k, i) == [socks EXCEPT ![k] = [kind |-> "connected", flow |-> i]]

network_stack_get_socket_mapping(k) == socks[k].flow

(* XAIOS_SYSCALL_NET_LISTEN: the socket exists even when the registry of   *)
(* listeners is full.                                                      *)
NetListen ==
  /\ Unused # {}
  /\ socks' = [socks EXCEPT ![Min(Unused)] = [kind |-> "listen", flow |-> 0]]
  /\ net' = network_stack_register_listener(net, Min(Unused))
  /\ UNCHANGED <<got, sent, told>>

Dequeued(n, l) == [n EXCEPT !.listener[l].backlog = Tail(@)]

(* XAIOS_SYSCALL_NET_ACCEPT: the connection leaves the backlog before the  *)
(* socket for it is found missing.                                         *)
NetAccept ==
  /\ \E k \in Socks : socks[k].kind = "listen"
  /\ Active(net) # {}
  /\ LET l == Min(Active(net)) IN
     /\ net.listener[l].backlog # <<>>
     /\ net' = Dequeued(net, l)
     /\ socks' = IF Unused = {} \/ Cardinality(Connected) >= MaxPerPort THEN socks
                 ELSE network_stack_map_socket(Min(Unused), Head(net.listener[l].backlog))
  /\ UNCHANGED <<got, sent, told>>

(* What recv of up to len bytes takes from the flow's receive buffer.      *)
network_stack_tcp_recv(i, len) ==
  IF net.flow[i].rx = NoBuf THEN <<>>
  ELSE SubSeq(net.flow[i].rx, 1, Min({len, Len(net.flow[i].rx)}))

(* XAIOS_SYSCALL_NET_RECV of up to len bytes.                              *)
NetRecv(k, len) ==
  LET i    == network_stack_get_socket_mapping(k)
      data == network_stack_tcp_recv(i, len)
  IN  /\ k \in Connected
      /\ data # <<>>
      /\ got' = [got EXCEPT ![i] = @ \o data]
      /\ net' = [net EXCEPT !.flow[i].rx = SubSeq(@, Len(data) + 1, Len(@))]
      /\ UNCHANGED <<socks, sent, told>>

TcpSendFails(i) == net.flow[i].state \notin Open \/ net.flow[i].tx = NoBuf

network_stack_tcp_send(i, data) ==
  [net EXCEPT !.flow[i].tx = sockbuf_write(@, data)]

(* XAIOS_SYSCALL_NET_SEND of what is left of the answer.  It answers OK in *)
(* any case: "claim all sent" when network_stack_tcp_send fails.           *)
NetSend(k) ==
  LET i    == network_stack_get_socket_mapping(k)
      left == Reply[net.flow[i].peer] - told[i]
      data == [b \in 1..left |-> told[i] + b - 1]
  IN  /\ k \in Connected
      /\ left > 0
      /\ \/ /\ TcpSendFails(i)
            /\ told' = [told EXCEPT ![i] = @ + left]
            /\ UNCHANGED net
         \/ /\ ~TcpSendFails(i)
            /\ told' = [told EXCEPT ![i] = @ + Written(net.flow[i].tx, data)]
            /\ net' = network_stack_tcp_send(i, data)
      /\ UNCHANGED <<socks, got, sent>>

(* A flow in any state is told to send FIN.                                *)
network_stack_tcp_close_flow(n, i) ==
  [n EXCEPT !.flow[i].close_requested = TRUE, !.flow[i].fin = TRUE]

(* XAIOS_SYSCALL_NET_CLOSE of a connection ...                             *)
CloseConnection(k) ==
  /\ k \in Connected
  /\ net' = network_stack_tcp_close_flow(net, network_stack_get_socket_mapping(k))
  /\ socks' = kernel_socket_free(k)
  /\ UNCHANGED <<got, sent, told>>

(* ... and of a listening socket.                                          *)
CloseListener(k) ==
  /\ socks[k].kind = "listen"
  /\ net' = network_stack_unregister_listener(net)
  /\ socks' = kernel_socket_free(k)
  /\ UNCHANGED <<got, sent, told>>

Syscall ==
  \/ NetListen
  \/ NetAccept
  \/ \E k \in Socks : \/ \E len \in 1..BufSize : NetRecv(k, len)
                      \/ NetSend(k)
                      \/ CloseConnection(k)
                      \/ CloseListener(k)

Next ==
  \/ network_poll_tick
  \/ network_stack_expire_tcp_flows
  \/ Syscall
  \/ \E q \in Queues : network_stack_bind_queue(q) \/ network_stack_release_queue(q)

Spec == Init /\ [][Next]_vars
-----------------------------------------------------------------------------
Prefix(s) == \A k \in 1..Len(s) : s[k] = k - 1

(* What the application has received and what waits for it in the receive  *)
(* buffer is a prefix of the peer's stream, whatever order, duplication or *)
(* loss the segments met ("Deliver in-order once gap fills",               *)
(* src/SPEC-PLAN.md:56).                                                   *)
StreamInOrder ==
  \A i \in Slots : net.flow[i].state # "CLOSED" =>
                     Prefix(IF net.flow[i].rx = NoBuf THEN got[i]
                            ELSE got[i] \o net.flow[i].rx)

(* The tables say what the flows hold: g_half_open_count is the number of *)
(* flows in SYN_RECV, so that the limit of alloc_tcp_flow neither lets     *)
(* more in nor locks everyone out; the buffers marked in use are those a   *)
(* flow points to; between frames no descriptor is owned and no ring entry *)
(* taken, so that the rings of eight never fill up for good; and a         *)
(* connection is handed to one socket only, and not queued again.          *)
TablesExact ==
  /\ net.half_open = Cardinality({i \in Slots : net.flow[i].state = "SYN_RECV"})
  /\ net.pool = Cardinality({i \in Slots : net.flow[i].rx # NoBuf})
                + Cardinality({i \in Slots : net.flow[i].tx # NoBuf})
  /\ net.owned = 0
  /\ \A q \in Queues : net.ring[q] = [rx |-> 0, tx |-> 0]
  /\ \A k \in Connected :
       /\ \A m \in Connected : socks[m].flow = socks[k].flow => m = k
       /\ \A l \in Listeners : socks[k].flow \notin Range(net.listener[l].backlog)

(* A FIN leaves only after the data: in FIN_WAIT and LAST_ACK nothing is   *)
(* left behind, and every byte that send answered as sent went out before  *)
(* it, from the first and in order (network_stack.c:1559-1571).  A flow    *)
(* for which the pool had no transmit buffer is excepted: send answers for *)
(* bytes it has nowhere to put (syscall.c:901-904), and the FIN follows on *)
(* nothing.                                                                *)
FinAfterData ==
  \A i \in Slots :
    /\ Prefix(sent[i])
    /\ net.flow[i].state \in {"FIN_WAIT", "LAST_ACK"} =>
         /\ sockbuf_used(net.flow[i].tx) = 0
         /\ net.flow[i].tx # NoBuf => Len(sent[i]) = told[i]

=============================================================================
