-------------------------- MODULE HashMappedMemory --------------------------
(***************************************************************************)
(* What the acceptors share of the hash-mapped memory                      *)
(* (paxos/hash_mapped_memory.c): the prefix of chosen instances and the    *)
(* bound below which a trim erases.                                        *)
(***************************************************************************)
EXTENDS PaxosTypes

CONSTANTS
  TrimBacklog,   \* instances kept in memory behind a trim: 50000 in the
                 \* standard acceptor, 10000 in the epoch acceptor
  IidModulus     \* iid_t is unsigned: 2^32 in the code

(* `trim->iid - TrimBacklog' in unsigned arithmetic: below the backlog the *)
(* difference wraps to a bound above every instance.                       *)
ToTrimFrom(iid) ==
  IF iid >= TrimBacklog THEN iid - TrimBacklog ELSE (iid + IidModulus) - TrimBacklog

(* AdvanceMinChosen_Jump: the prefix jumps to the instance just chosen.    *)
AdvanceMinChosen_Jump(min, c, i) == IF min < i THEN i ELSE min

(* The loop of hash_mapped_memory_instance_chosen: from the instance after *)
(* min, move forward over chosen instances, stop at the first unchosen one *)
(* or at i.                                                                *)
AdvanceMinChosen(min, c, i) ==
  IF min < i
  THEN LET stops(k) == k = i \/ (k + 1) \notin c
       IN  CHOOSE k \in min .. i : stops(k) /\ \A n \in min .. (k - 1) : ~ stops(n)
  ELSE min
=============================================================================
