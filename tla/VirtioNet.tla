----------------------------- MODULE VirtioNet -----------------------------
(***************************************************************************)
(* The persistent mode of the network driver,                              *)
(* src/kernel/dev/virtio/virtio_net.c, and the device behind it: TxDescs   *)
(* buffers to send from and RxDescs buffers to receive into, each kind     *)
(* with an available and a used ring.  The device takes buffers in the     *)
(* order they are made available, and may hand receive buffers back in any *)
(* order.                                                                  *)
(***************************************************************************)
EXTENDS Integers, Sequences, FiniteSets, Functions

CONSTANTS TxDescs, RxDescs, RingSize, Packets,
          MaxSent,    \* bound on the frames sent, far below 2^16
          Runt        \* a frame virtio_net_rx_poll refuses: a bare header

ASSUME NicAssumption == RxDescs \in Nat

VARIABLES tx,     \* ring and indices, buffers, a frame that waits, frames accepted
          rx      \* buffers made available, at work on, used and not polled yet

nicVars == <<tx, rx>>

Free == "free"

virtio_net_init_persistent ==
    /\ tx = [ring |-> [i \in 0 .. RingSize - 1 |-> 0], avail |-> 0, used |-> 0, last |-> 0,
             bufs |-> [d \in 0 .. TxDescs - 1 |-> Free], waits |-> Free, sent |-> << >>]
    /\ rx = [posted |-> [i \in 1 .. RxDescs |-> i - 1], held |-> {}, used |-> << >>,
             bufs |-> [d \in 0 .. RxDescs - 1 |-> Free], refused |-> 0]

(* Sending.                                                                *)
TxDesc == tx.avail % TxDescs

\* The frame goes into the buffer of its descriptor, which is made available.
Published(t, frame) ==
    [t EXCEPT !.bufs[TxDesc] = frame, !.ring[t.avail % RingSize] = TxDesc,
              !.avail = @ + 1, !.waits = Free, !.sent = Append(@, frame)]

\* "Wait for previous use of this descriptor to complete".
virtio_net_tx(frame) ==
    /\ tx.waits = Free
    /\ tx' = IF tx.avail >= TxDescs /\ tx.used <= tx.last
             THEN [tx EXCEPT !.waits = frame]
             ELSE Published(tx, frame)
    /\ UNCHANGED rx

\* virtio_transport_wait_used has seen the index, or gives up.
virtio_net_tx_waited ==
    /\ tx.waits # Free
    /\ tx' = IF tx.used >= tx.last + 1
             THEN Published([tx EXCEPT !.last = @ + 1], tx.waits)
             ELSE [tx EXCEPT !.waits = Free]
    /\ UNCHANGED rx

\* The device has put the oldest available frame on the wire.
DeviceSends ==
    /\ tx.used < tx.avail
    /\ tx' = [tx EXCEPT !.used = @ + 1]
    /\ UNCHANGED rx

TxNext ==
    \/ \E frame \in Packets : Len(tx.sent) < MaxSent /\ virtio_net_tx(frame)
    \/ virtio_net_tx_waited
    \/ DeviceSends

TxSpec == virtio_net_init_persistent /\ [][TxNext]_nicVars

(* "Wait for previous use of this descriptor to complete" (virtio_net_tx): *)
(* a buffer the device has not used yet still holds the frame that was     *)
(* accepted for it.                                                        *)
TxBuffersKept ==
    \A i \in tx.used .. tx.avail - 1 :
        tx.bufs[tx.ring[i % RingSize]] = tx.sent[i + 1]

(* Receiving.                                                              *)
\* A frame arrives: it is written into the next buffer made available.
DeviceWrites(frame) ==
    /\ rx.posted # << >>
    /\ rx' = [rx EXCEPT !.posted = Tail(@), !.held = @ \cup {Head(rx.posted)},
                        !.bufs[Head(rx.posted)] = frame]
    /\ UNCHANGED tx

\* It is handed to the driver in the used ring.
DeviceHandsBack(d) ==
    /\ d \in rx.held
    /\ rx' = [rx EXCEPT !.held = @ \ {d},
                        !.used = Append(@, [id |-> d, frame |-> rx.bufs[d]])]
    /\ UNCHANGED tx

\* The buffer that the poll makes available once its frame is copied out.
Reposted(entry) == entry.id

\* The oldest used buffer, if there is one, is copied out and made available
\* again; the buffer of a frame that is refused is not.
Polled(entry) ==
    IF rx.bufs[entry.id] = Runt
    THEN [rx EXCEPT !.used = Tail(@), !.refused = @ + 1]
    ELSE [rx EXCEPT !.used = Tail(@), !.posted = Append(@, Reposted(entry)),
                    !.bufs[entry.id] = Free]

virtio_net_rx_poll ==
    /\ rx' = IF rx.used = << >> THEN rx ELSE Polled(Head(rx.used))
    /\ UNCHANGED tx

RxNext ==
    \/ \E frame \in Packets \cup {Runt} : DeviceWrites(frame)
    \/ \E d \in 0 .. RxDescs - 1 : DeviceHandsBack(d)
    \/ virtio_net_rx_poll

RxSpec == virtio_net_init_persistent /\ [][RxNext]_nicVars

(* Receive buffers of virtio_net.c have one holder each: no buffer is made *)
(* available twice or while its frame has not been copied out, so the      *)
(* frame the poll copies is the one the device announced; and only a       *)
(* refused frame takes a buffer away.                                      *)
RxBuffersHeld ==
    LET UsedIds == [i \in DOMAIN rx.used |-> rx.used[i].id]
        holders == rx.posted \o UsedIds
    IN /\ IsInjective(holders)
       /\ Range(holders) \cap rx.held = {}
       /\ Len(holders) + Cardinality(rx.held) + rx.refused = RxDescs
       /\ \A i \in DOMAIN rx.used : rx.bufs[rx.used[i].id] = rx.used[i].frame
=============================================================================
