-------------------------- MODULE MCRemoteControl --------------------------
(* RemoteControl with one stream per client, one workload for each way. *)
EXTENDS RemoteControl

CONSTANTS k1, k2

OwnClient == [k \in Keys |-> k]
Load(sends, outs, breaks, timeouts, drops, interleaves) ==
  [sends |-> sends, outs |-> outs, breaks |-> breaks, timeouts |-> timeouts, drops |-> drops,
   interleaves |-> interleaves]
BothWays ==
  {Load(3, 0, 1, 1, 1, FALSE), Load(2, 2, 1, 0, 0, FALSE), Load(1, 3, 1, 0, 0, FALSE),
   Load(5, 0, 0, 0, 0, TRUE)}
=============================================================================
