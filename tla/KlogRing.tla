------------------------------ MODULE KlogRing ------------------------------
(***************************************************************************)
(* The kernel log: src/kernel/core/klog.c collects a message in a line     *)
(* buffer and writes the line to the ring of klog_ring.c, which drops the  *)
(* oldest byte when it is full; klog_flush moves a chunk of the ring to    *)
(* /var/log/kern.log.  A message is logged by the CPU that gets the log's  *)
(* lock, and the ring is read by the boot processor alone.                 *)
(***************************************************************************)
EXTENDS Integers, Sequences, SequencesExt

CONSTANTS LogSize,   \* XAIOS_KLOG_RING_SIZE
          LineMax,   \* XAIOS_KLOG_LINE_MAX
          FlushMax,  \* XAIOS_KLOG_FLUSH_MAX
          LogMessages

VARIABLES ring,    \* g_ring
          unread,  \* history: the newest LogSize bytes logged and not read
          kern     \* /var/log/kern.log

logVars == <<ring, unread, kern>>

Blank == "nul"

klog_ring_init ==
    /\ ring = [buffer |-> [i \in 0 .. LogSize - 1 |-> Blank],
               write |-> 0, read |-> 0, count |-> 0]
    /\ unread = << >>
    /\ kern = << >>

\* One byte: "Buffer full: drop oldest byte".
DropOldest(r) ==
    IF r.count < LogSize THEN r
    ELSE [r EXCEPT !.read = (@ + 1) % LogSize, !.count = @ - 1]

PutByte(r, b) ==
    LET d == DropOldest(r)
    IN [d EXCEPT !.buffer[d.write] = b, !.write = (@ + 1) % LogSize, !.count = @ + 1]

klog_ring_write(r, bytes) == FoldLeft(PutByte, r, bytes)

\* The bytes klog_ring_read copies, and the ring it leaves.
ReadBytes(r, n) == [i \in 1 .. n |-> r.buffer[(r.read + i - 1) % LogSize]]
klog_ring_read(r, n) == [r EXCEPT !.read = (@ + n) % LogSize, !.count = @ - n]

\* klog_char keeps what fits in the line buffer; klog_line_flush writes it.
Line(message) == SubSeq(message, 1, IF Len(message) < LineMax THEN Len(message) ELSE LineMax - 1)

LastBytes(s) == IF Len(s) <= LogSize THEN s ELSE SubSeq(s, Len(s) - LogSize + 1, Len(s))

\* A message whose trylock fails is dropped: another CPU is logging, or the
\* lock's due ticket was left unserved (Spinlock!TrylockFailsOnlyWhenHeld).
klog(message, locked) ==
    IF locked
    THEN /\ ring' = klog_ring_write(ring, Line(message))
         /\ unread' = LastBytes(unread \o Line(message))
         /\ UNCHANGED kern
    ELSE UNCHANGED logVars

\* Written from the start of the file, whose tail stays.
Overwritten(file, chunk) == chunk \o SubSeq(file, Len(chunk) + 1, Len(file))

\* The chunk has left the ring when the file is opened and written; what the
\* filesystem refuses is lost.  The file is never longer than one chunk, so
\* klog_rotate is never called.
klog_flush(stored) ==
    LET n == IF ring.count < FlushMax THEN ring.count ELSE FlushMax
    IN /\ n > 0
       /\ ring' = klog_ring_read(ring, n)
       /\ unread' = SubSeq(unread, n + 1, Len(unread))
       /\ kern' = IF stored THEN Overwritten(kern, ReadBytes(ring, n)) ELSE kern

klog_ring_clear ==
    /\ ring' = [ring EXCEPT !.write = 0, !.read = 0, !.count = 0]
    /\ unread' = << >>
    /\ UNCHANGED kern

LogNext ==
    \/ \E message \in LogMessages, locked \in BOOLEAN : klog(message, locked)
    \/ \E stored \in BOOLEAN : klog_flush(stored)
    \/ klog_ring_clear

(* What klog_ring.c would read next is the newest LogSize bytes that were  *)
(* logged and not read, in the order they were logged, however often the   *)
(* ring has overflowed and wrapped.                                        *)
RingIsTail == ReadBytes(ring, ring.count) = unread
=============================================================================
