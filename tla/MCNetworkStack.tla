--------------------------- MODULE MCNetworkStack ---------------------------
(* Two peers for TLC: the first one's stream crosses the end of the        *)
(* sequence numbers and is longer than a buffer, the second one only       *)
(* connects and competes for slots, buffers and the backlog.               *)
EXTENDS NetworkStack

MCFamily == <<"v4", "v6">>
MCIsn    == <<13, 3>>
MCStream == <<3, 0>>
MCReply  == <<2, 0>>
=============================================================================
