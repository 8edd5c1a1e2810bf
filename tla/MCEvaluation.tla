---------------------------- MODULE MCEvaluation ----------------------------
(***************************************************************************)
(* Instances of Evaluation for TLC.                                        *)
(***************************************************************************)
EXTENDS Evaluation

CONSTANT IntBits   \* width of int

MCIntHalf == 2 ^ (IntBits - 1)

Args(t, s, d, u) == [type |-> t, size |-> s, download |-> d, upload |-> u]

\* One client alone, of each type, with a size to reach or none; the last one's is
\* so near the largest int that its count passes it by and wraps around.
Alone == {Args(Downlink, 2, 3, NoTarget), Args(Downlink, 2, NoTarget, NoTarget),
          Args(Echo, 2, NoTarget, NoTarget),
          Args(Uplink, 2, NoTarget, 3), Args(Uplink, 2, NoTarget, MCIntHalf - 1)}

\* A client followed by one that sends a single byte, with whose connection the
\* server lets go of the first one's socket.
Followed == {Args(Echo, 2, 2, NoTarget), Args(Uplink, 2, NoTarget, 2)}
Follower == Args(Uplink, 1, NoTarget, 1)

MCSetups == {<<a>> : a \in Alone} \cup {<<a, Follower>> : a \in Followed}
=============================================================================
