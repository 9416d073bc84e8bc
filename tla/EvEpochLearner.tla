--------------------------- MODULE EvEpochLearner ---------------------------
(***************************************************************************)
(* The event loop of an epoch learner (evpaxos/ev_epoch_learner.c).  The   *)
(* messages it handles and sends are in msgs, where the proposers and      *)
(* acceptors find them.                                                    *)
(***************************************************************************)
EXTENDS EpochLearner

CONSTANT Chunks     \* paxos_config.lnr_missing_chunks_before_repeats

VARIABLES
  learner,     \* struct epoch_learner
  delivered,   \* what the delivery callback was given, in order
  msgs         \* the messages sent

lnrVars == <<learner, delivered>>

LnrInit ==
  /\ \E late \in BOOLEAN : learner = NewLearner(late)
  /\ delivered = <<>>

(* ev_epoch_learner_deliver_next_closed, from state l.                     *)
DeliverNextClosed(l) ==
  /\ learner' = Delivered(l)
  /\ delivered' = delivered \o Delivers(l)

(* The acceptance that closes an instance has its choice announced.        *)
HandleAccepted(ack) ==
  LET l == ReceiveAccepted(learner, ack) IN
  IF ClosedBy(learner, ack)
  THEN /\ DeliverNextClosed(l)
       /\ msgs' = msgs \cup {[type |-> "CHOSEN", aid |-> NULL, iid |-> ack.iid,
                              epoch_ballot |-> ack.epoch_ballot, value |-> ack.value]}
  ELSE learner' = l /\ UNCHANGED <<delivered, msgs>>

HandleChosen(m) ==
  LET l == ReceiveChosen(learner, m.iid, m.epoch_ballot, m.value) IN
  /\ IF Dropped(HandleLateStart(learner, m.iid), m.iid)
     THEN learner' = l /\ UNCHANGED delivered
     ELSE DeliverNextClosed(l)
  /\ UNCHANGED msgs

(* TRIM messages of others are believed as they come, down as well as up.  *)
HandleTrim(iid) ==
  /\ learner' = [learner EXCEPT !.trim_instance = iid]
  /\ UNCHANGED <<delivered, msgs>>

(* ev_epoch_learner_check_holes: ask for the first instances of a hole,    *)
(* but only of one longer than Chunks, or, when there is none, send a      *)
(* trim.                                                                   *)
CheckHoles ==
  LET from == learner.current_min_instance_to_execute
      next_trim == GetInstanceToTrim(learner)
  IN /\ \/ /\ HasHoles(learner)
           /\ learner.highest_instance_chosen - from > Chunks
           /\ msgs' = msgs \cup {[type |-> "REPEAT", from |-> from, to |-> from + Chunks]}
           /\ UNCHANGED learner
        \/ /\ ~ HasHoles(learner) /\ next_trim > learner.trim_instance
           /\ learner' = [learner EXCEPT !.trim_instance = next_trim]
           /\ msgs' = msgs \cup {[type |-> "TRIM", aid |-> NULL, iid |-> next_trim]}
     /\ UNCHANGED delivered
=============================================================================
