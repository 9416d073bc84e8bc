--------------------------- MODULE PaxosTypesPack ---------------------------
(***************************************************************************)
(* Messages as msgpack objects (evpaxos/paxos_types_pack.c) and their way  *)
(* out of a buffer (recv_paxos_message, recv_epoch_paxos_message).  A      *)
(* packed message is an array header, the number of its type, and its      *)
(* fields one by one.  The packing end lists the fields of each type, the  *)
(* unpacking end lists them again, and the number of elements in the       *)
(* header is written by hand: all three are written out here as in the     *)
(* code.                                                                   *)
(*                                                                         *)
(* A message is a record of its type and its contents; contents map every  *)
(* field of its struct, by a path such as <<"ballot", "number">>, to what  *)
(* is there, whether the field is packed or not.  The two protocols have   *)
(* types and numbers of their own.                                         *)
(***************************************************************************)
EXTENDS Naturals, Sequences, SequencesExt

CONSTANT GARBAGE     \* what is read where nothing was written

-----------------------------------------------------------------------------
(* enum paxos_message_type and enum writeahead_epoch_message_type (whose   *)
(* names start with WRITEAHEAD_): the number of a type is its place.       *)
StandardTypes ==
  <<"PAXOS_PREPARE", "PAXOS_PROMISE", "PAXOS_ACCEPT", "PAXOS_ACCEPTED", "PAXOS_CHOSEN",
    "PAXOS_PREEMPTED", "PAXOS_REPEAT", "PAXOS_TRIM", "PAXOS_PROPOSER_STATE",
    "PAXOS_ACCEPTOR_STATE", "PAXOS_CLIENT_VALUE">>

EpochTypes ==
  <<"STANDARD_PREPARE", "EPOCH_BALLOT_PREPARE", "EPOCH_BALLOT_PROMISE", "EPOCH_BALLOT_ACCEPT",
    "EPOCH_BALLOT_ACCEPTED", "EPOCH_BALLOT_PREEMPTED", "EPOCH_NOTIFICATION",
    "INSTANCE_CHOSEN_AT_EPOCH_BALLOT", "PAXOS_PROPOSER_STATE", "REPEAT", "INSTANCE_TRIM",
    "ACCEPTOR_STATE", "CLIENT_VALUE">>

Types == [standard |-> StandardTypes, epoch |-> EpochTypes]

Number(types, t) == (CHOOSE k \in DOMAIN types : types[k] = t) - 1

-----------------------------------------------------------------------------
(* The structs of paxos_types.h: the type of each field.  The fields of a  *)
(* struct inside (proposer_state, standard_acceptor_state) stand with the  *)
(* others, an integer and a paxos_value are one thing each.                *)
StandardStructs ==
  [PAXOS_PREPARE |-> [iid |-> "one", ballot |-> "ballot"],
   PAXOS_PROMISE |-> [aid |-> "one", iid |-> "one", ballot |-> "ballot",
                      value_ballot |-> "ballot", value |-> "one"],
   PAXOS_ACCEPT |-> [iid |-> "one", ballot |-> "ballot", value |-> "one"],
   PAXOS_ACCEPTED |-> [aid |-> "one", iid |-> "one", promise_ballot |-> "ballot",
                       value_ballot |-> "ballot", value |-> "one"],
   PAXOS_CHOSEN |-> [iid |-> "one", ballot |-> "ballot", value |-> "one"],
   PAXOS_PREEMPTED |-> [aid |-> "one", iid |-> "one", attempted_ballot |-> "ballot",
                        acceptor_current_ballot |-> "ballot"],
   PAXOS_REPEAT |-> [from |-> "one", to |-> "one"],
   PAXOS_TRIM |-> [iid |-> "one"],
   PAXOS_PROPOSER_STATE |-> [proposer_id |-> "one", trim_instance |-> "one",
                             max_chosen_instance |-> "one", next_prepare_instance |-> "one"],
   PAXOS_ACCEPTOR_STATE |-> [aid |-> "one", trim_iid |-> "one", current_instance |-> "one"],
   PAXOS_CLIENT_VALUE |-> [value |-> "one"]]

EpochStructs ==
  [STANDARD_PREPARE |-> [iid |-> "one", ballot |-> "ballot"],
   EPOCH_BALLOT_PREPARE |-> [instance |-> "one", epoch_ballot_requested |-> "epoch_ballot"],
   EPOCH_BALLOT_PROMISE |-> [acceptor_id |-> "one", instance |-> "one",
                             promised_epoch_ballot |-> "epoch_ballot",
                             last_accepted_ballot |-> "epoch_ballot",
                             last_accepted_value |-> "one"],
   EPOCH_BALLOT_ACCEPT |-> [instance |-> "one", epoch_ballot_requested |-> "epoch_ballot",
                            value_to_accept |-> "one"],
   EPOCH_BALLOT_ACCEPTED |-> [acceptor_id |-> "one", instance |-> "one",
                              accepted_epoch_ballot |-> "epoch_ballot",
                              accepted_value |-> "one"],
   EPOCH_BALLOT_PREEMPTED |-> [acceptor_id |-> "one", instance |-> "one",
                               requested_epoch_ballot |-> "epoch_ballot",
                               acceptors_current_epoch_ballot |-> "epoch_ballot"],
   EPOCH_NOTIFICATION |-> [new_epoch |-> "one"],
   INSTANCE_CHOSEN_AT_EPOCH_BALLOT |-> [instance |-> "one",
                                        chosen_epoch_ballot |-> "epoch_ballot",
                                        chosen_value |-> "one"],
   PAXOS_PROPOSER_STATE |-> [proposer_id |-> "one", trim_instance |-> "one",
                             max_chosen_instance |-> "one", next_prepare_instance |-> "one",
                             current_epoch |-> "one"],
   REPEAT |-> [from |-> "one", to |-> "one"],
   INSTANCE_TRIM |-> [iid |-> "one"],
   ACCEPTOR_STATE |-> [aid |-> "one", trim_iid |-> "one", current_instance |-> "one",
                       current_epoch |-> "one"],
   CLIENT_VALUE |-> [value |-> "one"]]

Structs == [standard |-> StandardStructs, epoch |-> EpochStructs]

(* The paths inside a field of a type (struct ballot, struct epoch_ballot) *)
(* and those of a whole message.                                           *)
Members ==
  [one |-> {<<>>},
   ballot |-> {<<"number">>, <<"proposer_id">>},
   epoch_ballot |-> {<<"epoch">>, <<"number">>, <<"proposer_id">>}]

Paths(proto, t) ==
  LET struct == Structs[proto][t]
  IN UNION {{<<f>> \o m : m \in Members[struct[f]]} : f \in DOMAIN struct}

-----------------------------------------------------------------------------
(* msgpack_pack_uint32 and msgpack_pack_paxos_value add one object, the    *)
(* ballots two and three.                                                  *)
PackOne(f) == <<<<f>>>>

PackBallot(f) == <<<<f, "number">>, <<f, "proposer_id">>>>

(* PackEpochBallot_BallotFirst: the epoch behind the ballot.               *)
PackEpochBallot_BallotFirst(f) == PackBallot(f) \o <<<<f, "epoch">>>>

PackEpochBallot(f) == <<<<f, "epoch">>>> \o PackBallot(f)

(* The array a pack function writes: the size it gives to                  *)
(* msgpack_pack_array and the fields after the number of the type.         *)
Array(size, fields) == [size |-> size, fields |-> fields]

PackedStandard ==
  [PAXOS_PREPARE |-> Array(4, PackOne("iid") \o PackBallot("ballot")),
   PAXOS_PROMISE |-> Array(8,
     PackOne("aid") \o PackOne("iid") \o PackBallot("ballot") \o PackBallot("value_ballot")
     \o PackOne("value")),
   PAXOS_ACCEPT |-> Array(5, PackOne("iid") \o PackBallot("ballot") \o PackOne("value")),
   PAXOS_ACCEPTED |-> Array(8,
     PackOne("aid") \o PackOne("iid") \o PackBallot("promise_ballot")
     \o PackBallot("value_ballot") \o PackOne("value")),
   PAXOS_CHOSEN |-> Array(5, PackOne("iid") \o PackBallot("ballot") \o PackOne("value")),
   PAXOS_PREEMPTED |-> Array(7,
     PackOne("aid") \o PackOne("iid") \o PackBallot("attempted_ballot")
     \o PackBallot("acceptor_current_ballot")),
   PAXOS_REPEAT |-> Array(3, PackOne("from") \o PackOne("to")),
   PAXOS_TRIM |-> Array(2, PackOne("iid")),
   PAXOS_PROPOSER_STATE |-> Array(5,
     PackOne("proposer_id") \o PackOne("trim_instance") \o PackOne("max_chosen_instance")
     \o PackOne("next_prepare_instance")),
   PAXOS_ACCEPTOR_STATE |-> Array(4,
     PackOne("aid") \o PackOne("trim_iid") \o PackOne("current_instance")),
   PAXOS_CLIENT_VALUE |-> Array(2, PackOne("value"))]

PackedEpoch ==
  [STANDARD_PREPARE |-> Array(4, PackOne("iid") \o PackBallot("ballot")),
   EPOCH_BALLOT_PREPARE |-> Array(5,
     PackOne("instance") \o PackEpochBallot("epoch_ballot_requested")),
   EPOCH_BALLOT_PROMISE |-> Array(10,
     PackOne("acceptor_id") \o PackOne("instance")
     \o PackEpochBallot("promised_epoch_ballot") \o PackEpochBallot("last_accepted_ballot")
     \o PackOne("last_accepted_value")),
   EPOCH_BALLOT_ACCEPT |-> Array(6,
     PackOne("instance") \o PackEpochBallot("epoch_ballot_requested")
     \o PackOne("value_to_accept")),
   EPOCH_BALLOT_ACCEPTED |-> Array(7,
     PackOne("acceptor_id") \o PackOne("instance")
     \o PackEpochBallot("accepted_epoch_ballot") \o PackOne("accepted_value")),
   EPOCH_BALLOT_PREEMPTED |-> Array(9,
     PackOne("acceptor_id") \o PackOne("instance")
     \o PackEpochBallot("requested_epoch_ballot")
     \o PackEpochBallot("acceptors_current_epoch_ballot")),
   EPOCH_NOTIFICATION |-> Array(2, PackOne("new_epoch")),
   INSTANCE_CHOSEN_AT_EPOCH_BALLOT |-> Array(6,
     PackOne("instance") \o PackEpochBallot("chosen_epoch_ballot")
     \o PackOne("chosen_value")),
   PAXOS_PROPOSER_STATE |-> Array(6,
     PackOne("proposer_id") \o PackOne("trim_instance") \o PackOne("max_chosen_instance")
     \o PackOne("next_prepare_instance") \o PackOne("current_epoch")),
   REPEAT |-> Array(3, PackOne("from") \o PackOne("to")),
   INSTANCE_TRIM |-> Array(2, PackOne("iid")),
   ACCEPTOR_STATE |-> Array(4,
     PackOne("aid") \o PackOne("trim_iid") \o PackOne("current_epoch")),
   CLIENT_VALUE |-> Array(2, PackOne("value"))]

Packed == [standard |-> PackedStandard, epoch |-> PackedEpoch]

-----------------------------------------------------------------------------
(* The unpack functions read on from the element they are at.              *)
UnpackOne(f) == <<<<f>>>>

UnpackBallot(f) == <<<<f, "number">>, <<f, "proposer_id">>>>

UnpackEpochBallot(f) == <<<<f, "epoch">>>> \o UnpackBallot(f)

UnpackedStandard ==
  [PAXOS_PREPARE |-> UnpackOne("iid") \o UnpackBallot("ballot"),
   PAXOS_PROMISE |->
     UnpackOne("aid") \o UnpackOne("iid") \o UnpackBallot("ballot")
     \o UnpackBallot("value_ballot") \o UnpackOne("value"),
   PAXOS_ACCEPT |-> UnpackOne("iid") \o UnpackBallot("ballot") \o UnpackOne("value"),
   PAXOS_ACCEPTED |->
     UnpackOne("aid") \o UnpackOne("iid") \o UnpackBallot("promise_ballot")
     \o UnpackBallot("value_ballot") \o UnpackOne("value"),
   PAXOS_CHOSEN |-> UnpackOne("iid") \o UnpackBallot("ballot") \o UnpackOne("value"),
   PAXOS_PREEMPTED |->
     UnpackOne("aid") \o UnpackOne("iid") \o UnpackBallot("attempted_ballot")
     \o UnpackBallot("acceptor_current_ballot"),
   PAXOS_REPEAT |-> UnpackOne("from") \o UnpackOne("to"),
   PAXOS_TRIM |-> UnpackOne("iid"),
   PAXOS_PROPOSER_STATE |->
     UnpackOne("proposer_id") \o UnpackOne("trim_instance")
     \o UnpackOne("max_chosen_instance") \o UnpackOne("next_prepare_instance"),
   PAXOS_ACCEPTOR_STATE |->
     UnpackOne("aid") \o UnpackOne("trim_iid") \o UnpackOne("current_instance"),
   PAXOS_CLIENT_VALUE |-> UnpackOne("value")]

UnpackedEpoch ==
  [STANDARD_PREPARE |-> UnpackOne("iid") \o UnpackBallot("ballot"),
   EPOCH_BALLOT_PREPARE |->
     UnpackOne("instance") \o UnpackEpochBallot("epoch_ballot_requested"),
   EPOCH_BALLOT_PROMISE |->
     UnpackOne("acceptor_id") \o UnpackOne("instance")
     \o UnpackEpochBallot("promised_epoch_ballot")
     \o UnpackEpochBallot("last_accepted_ballot") \o UnpackOne("last_accepted_value"),
   EPOCH_BALLOT_ACCEPT |->
     UnpackOne("instance") \o UnpackEpochBallot("epoch_ballot_requested")
     \o UnpackOne("value_to_accept"),
   EPOCH_BALLOT_ACCEPTED |->
     UnpackOne("acceptor_id") \o UnpackOne("instance")
     \o UnpackEpochBallot("accepted_epoch_ballot") \o UnpackOne("accepted_value"),
   EPOCH_BALLOT_PREEMPTED |->
     UnpackOne("acceptor_id") \o UnpackOne("instance")
     \o UnpackEpochBallot("requested_epoch_ballot")
     \o UnpackEpochBallot("acceptors_current_epoch_ballot"),
   EPOCH_NOTIFICATION |-> UnpackOne("new_epoch"),
   INSTANCE_CHOSEN_AT_EPOCH_BALLOT |->
     UnpackOne("instance") \o UnpackEpochBallot("chosen_epoch_ballot")
     \o UnpackOne("chosen_value"),
   PAXOS_PROPOSER_STATE |->
     UnpackOne("proposer_id") \o UnpackOne("trim_instance")
     \o UnpackOne("max_chosen_instance") \o UnpackOne("next_prepare_instance")
     \o UnpackOne("current_epoch"),
   REPEAT |-> UnpackOne("from") \o UnpackOne("to"),
   INSTANCE_TRIM |-> UnpackOne("iid"),
   ACCEPTOR_STATE |->
     UnpackOne("aid") \o UnpackOne("trim_iid") \o UnpackOne("current_epoch"),
   CLIENT_VALUE |-> UnpackOne("value")]

Unpacked == [standard |-> UnpackedStandard, epoch |-> UnpackedEpoch]

-----------------------------------------------------------------------------
(* The state of an epoch proposer is packed with the number the standard   *)
(* protocol has for it.                                                    *)
PackedNumber(proto, t) ==
  Number(IF t = "PAXOS_PROPOSER_STATE" THEN StandardTypes ELSE Types[proto], t)

(* The objects a message becomes: send_paxos_message with the pack         *)
(* function of the type.                                                   *)
Objects(proto, msg) ==
  LET array == Packed[proto][msg.type]
  IN <<[kind |-> "array", data |-> array.size],
       [kind |-> "int", data |-> PackedNumber(proto, msg.type)]>>
     \o [k \in DOMAIN array.fields |->
           [kind |-> "object", data |-> msg.contents[array.fields[k]]]]

(* msgpack_unpack_next: the objects of the first message of a buffer, when *)
(* all of them are there.                                                  *)
NextSize(buffer) == IF buffer[1].kind = "array" THEN buffer[1].data + 1 ELSE 1

HasNext(buffer) == /\ buffer # <<>>
                   /\ Len(buffer) >= NextSize(buffer)

(* The message in a complete array: the type by its number, the fields in  *)
(* order.  What is not an array of a known type leaves nothing to read, an *)
(* element past the end of the array is not one the sender wrote, and a    *)
(* field that is not unpacked keeps what on_read has on its stack.         *)
UnpackMessage(proto, objects) ==
  LET number == IF Len(objects) >= 2 /\ objects[2].kind = "int"
                THEN objects[2].data ELSE GARBAGE
      known == \E k \in DOMAIN Types[proto] : number = k - 1
      type == Types[proto][number + 1]
      fields == Unpacked[proto][type]
  IN IF known
     THEN [type |-> type,
           contents |-> [path \in Paths(proto, type) |->
             IF \E k \in DOMAIN fields : fields[k] = path /\ k + 2 <= Len(objects)
             THEN objects[2 + CHOOSE k \in DOMAIN fields : fields[k] = path].data
             ELSE GARBAGE]]
     ELSE [type |-> GARBAGE, contents |-> <<>>]

(* on_read: messages are taken from the buffer and dispatched as long as   *)
(* recv_paxos_message finds one; what is left stays for the next read.     *)
(* OnRead_One: one message per event.                                      *)
OnRead_One(proto, buffer) ==
  IF ~HasNext(buffer) THEN [handled |-> <<>>, rest |-> buffer]
  ELSE LET n == NextSize(buffer)
       IN [handled |-> <<UnpackMessage(proto, SubSeq(buffer, 1, n))>>,
           rest |-> SubSeq(buffer, n + 1, Len(buffer))]

RECURSIVE OnRead(_, _)
OnRead(proto, buffer) ==
  IF ~HasNext(buffer) THEN [handled |-> <<>>, rest |-> buffer]
  ELSE LET n == NextSize(buffer)
           more == OnRead(proto, SubSeq(buffer, n + 1, Len(buffer)))
       IN [handled |-> <<UnpackMessage(proto, SubSeq(buffer, 1, n))>> \o more.handled,
           rest |-> more.rest]
=============================================================================
