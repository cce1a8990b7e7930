--------------------------- MODULE SessionServerMC ----------------------------
(***************************************************************************)
(* SessionServer for TLC, without workers at work: clients and devices are *)
(* alike, and who is a member of a session, which only the workers ask,    *)
(* does not tell two states apart.                                         *)
(***************************************************************************)
EXTENDS SessionServer, TLC

Alike == Permutations(Client) \cup Permutations(Device)

WithoutMembers ==
    <<row, targets, durable, current, issued, failedTxn, armed, req, shown, over, lost,
      garbled, halfDone, crashes>>

=============================================================================
