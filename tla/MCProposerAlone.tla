--------------------------- MODULE MCProposerAlone ---------------------------
(***************************************************************************)
(* One proposer with two instances and one acceptor to answer it.          *)
(***************************************************************************)
EXTENDS ProposerAlone

CONSTANTS v1, a1, w

(* A prepare at a ballot its instance has left gets no answer the proposer *)
(* would not drop, and a timer that holds one sends it in vain, or opens   *)
(* instances as PreexecOnce may at any time.                               *)
Live(p, m) ==
  \/ m.type = "ACCEPT"
  \/ LET inst == proposer[p].prepare_phase[m.iid] IN inst # NULL /\ inst.ballot = m.ballot

View ==
  <<proposer, preexec_window, submitted, decided,
    [p \in Proposers |-> {m \in retries[p] : Live(p, m)}],
    {m \in msgs : \E p \in Proposers : Live(p, m)}>>
=============================================================================
