------------------------------ MODULE MCPeers ------------------------------
(***************************************************************************)
(* One acceptor and a process that connects to it.  In one scenario both   *)
(* send two short messages and the process loses a connection, so that one *)
(* message is lost with it and another goes over the next; in another it   *)
(* loses two.  In the others it sends a message of each type of both       *)
(* protocols, with a short one behind it, over a connection that stays.    *)
(***************************************************************************)
EXTENDS Peers

CONSTANT c1

MCConnectors == {c1}
MCPartner == [c \in MCConnectors |-> 1]

Scenario(p, n, messages, b) ==
  [proto |-> p, connections |-> n, broadcasts |-> b,
   messages |-> [c \in MCConnectors |-> messages]]

MCScenarios ==
  {Scenario("standard", 2, <<Announcement("standard", 11), Announcement("standard", 12)>>, 2),
   Scenario("standard", 3, <<Announcement("standard", 11)>>, 1)}
  \cup {Scenario(p, 1, <<Message(p, t, 11), Announcement(p, 12)>>, 1) :
         <<p, t>> \in {"standard"} \X Range(StandardTypes) \cup {"epoch"} \X Range(EpochTypes)}
=============================================================================
