--------------------------- MODULE MCControlPlane ---------------------------
(* Small instances for TLC: /init and the child service, signatures of     *)
(* three generations, a payload of two chunks.  Each behaviour explores    *)
(* one of five bounds: the life of one service or of both, updates alone,  *)
(* and updates while the child starts, stops and crashes.                  *)
EXTENDS ServiceManager

MCServices == <<"init", "child">>
MCChunks   == {<<1>>, <<2>>}

Bound(S, start, crash, sign, receive, fault) ==
  [services |-> S, starts |-> start, crashes |-> crash,
   signatures |-> sign, received |-> receive, faults |-> fault]

MCBounds == {Bound({"init"}, 3, 3, 0, 0, 0),
             Bound({"child"}, 3, 3, 0, 0, 1),
             Bound({"init", "child"}, 1, 2, 0, 0, 0),
             Bound({}, 0, 0, 3, 2, 1),
             Bound({"child"}, 1, 1, 1, 0, 1)}
=============================================================================
