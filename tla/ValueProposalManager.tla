------------------------ MODULE ValueProposalManager ------------------------
(***************************************************************************)
(* The client values of a proposer (paxos/value_proposal_manager.c): a     *)
(* queue of values to propose, a queue of values proposed and not yet      *)
(* known to be chosen, and the wait before a hole is filled with NOP.      *)
(* Operations take the manager as a record and return the new one.         *)
(*                                                                         *)
(* The queues are sequences, implemented by the ring buffer of             *)
(* paxos/carray.c.  Of the time since noop_began_wait only whether it      *)
(* exceeds noop_timeout_us is kept: noop is "off" when timeout_begun is    *)
(* false, "waiting" before the timeout and "over" after it.                *)
(***************************************************************************)
EXTENDS Naturals, Sequences

CONSTANTS
  NOP,              \* the value that fills holes
  GARBAGE,          \* a paxos_value in uninitialised memory
  AwaitHoles,       \* paxos_config.await_holes
  ReproposeValues   \* paxos_config.repropose_values

NewManager ==
  [client_values_to_propose |-> <<>>, values_proposed |-> <<>>, noop |-> "off"]

Enqueue(m, v) == [m EXCEPT !.client_values_to_propose = Append(@, v)]

(* What value_proposal_manger_get_next returns.  When it starts to wait    *)
(* for a hole to be filled it ends without a return statement: `undefined' *)
(* is the Boolean its caller then sees, and if that is TRUE the caller     *)
(* uses the buffer it passed, which nobody filled.                         *)
GetNext(m, is_holes, undefined) ==
  CASE m.client_values_to_propose # <<>> ->
         LET v == Head(m.client_values_to_propose) IN
         [ok |-> TRUE, value |-> v,
          manager |-> [client_values_to_propose |-> Tail(m.client_values_to_propose),
                       values_proposed |-> Append(m.values_proposed, v),
                       noop |-> "off"]]
    [] m.client_values_to_propose = <<>> /\ m.values_proposed # <<>> /\ ReproposeValues ->
         LET v == Head(m.values_proposed) IN
         [ok |-> TRUE, value |-> v,
          manager |-> [m EXCEPT !.values_proposed = Append(Tail(@), v), !.noop = "off"]]
    [] OTHER ->
         IF ~ is_holes /\ AwaitHoles
         THEN [ok |-> FALSE, value |-> GARBAGE, manager |-> [m EXCEPT !.noop = "off"]]
         ELSE IF m.noop = "over"
              THEN [ok |-> TRUE, value |-> NOP, manager |-> [m EXCEPT !.noop = "waiting"]]
              ELSE [ok |-> undefined, value |-> GARBAGE,
                    manager |-> [m EXCEPT !.noop = "waiting"]]

(* The queue without v: every value but the equal ones is pushed again, in *)
(* the order of the queue.                                                 *)
Without(q, v) ==
  LET kept[k \in 0 .. Len(q)] ==
        IF k = 0 THEN <<>>
        ELSE IF q[k] = v THEN kept[k - 1] ELSE Append(kept[k - 1], q[k])
  IN  kept[Len(q)]

(* A value equal to v is among the elements of the queue.                  *)
InQueue(q, v) == \E k \in 1 .. Len(q) : q[k] = v

Outstanding(m, v) == InQueue(m.client_values_to_propose, v) \/ InQueue(m.values_proposed, v)

CloseIfOutstanding(m, v) ==
  [m EXCEPT !.client_values_to_propose = Without(@, v), !.values_proposed = Without(@, v)]

(* CheckAndRequeue_Drop: the value is taken out and not pushed back.       *)
CheckAndRequeue_Drop(m, v) == CloseIfOutstanding(m, v)

(* A value goes back to the front of the queue once for each queue it was  *)
(* found in, and nowhere if it was in neither.                             *)
CheckAndRequeue(m, v) ==
  LET found(q) == IF InQueue(q, v) THEN <<v>> ELSE <<>> IN
  [m EXCEPT !.client_values_to_propose =
              found(@) \o found(m.values_proposed) \o Without(@, v),
            !.values_proposed = Without(@, v)]
=============================================================================
