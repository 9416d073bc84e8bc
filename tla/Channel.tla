------------------------------ MODULE Channel ------------------------------
(***************************************************************************)
(* What a connection promises the handlers at its ends: the messages that  *)
(* are handled are the messages that were sent, whole, in the order they   *)
(* were sent and each at most once; what is lost is lost from the end.     *)
(***************************************************************************)
EXTENDS Naturals, Sequences

CONSTANTS Channels,     \* the directions of the connections
          Messages

VARIABLES sent,         \* what was written to each channel
          handled       \* what its reader was given

vars == <<sent, handled>>

Init == /\ sent = [ch \in Channels |-> <<>>]
        /\ handled = [ch \in Channels |-> <<>>]

(* A message is written, to one channel or to several.                     *)
Send == /\ DOMAIN sent' = Channels
        /\ \E m \in Messages : \A ch \in Channels :
             sent'[ch] \in {sent[ch], Append(sent[ch], m)}
        /\ UNCHANGED handled

(* A read hands over the next messages, one or several.                    *)
Handle == /\ \E ch \in Channels : \E n \in Len(handled[ch]) .. Len(sent[ch]) :
               handled' = [handled EXCEPT ![ch] = SubSeq(sent[ch], 1, n)]
          /\ UNCHANGED sent

Next == Send \/ Handle

Spec == Init /\ [][Next]_vars
=============================================================================
