-------------------------------- MODULE Peers --------------------------------
(***************************************************************************)
(* The connections of a process (evpaxos/standard_paxos_peers.c; the epoch *)
(* protocol has the same code in writeahead_epoch_paxos_peers.c).  Each    *)
(* process connects to others and listens for others.  The pairs do not    *)
(* touch each other, so this is one listening process, an acceptor, and    *)
(* the processes that connect to it.                                       *)
(*                                                                         *)
(* On the connecting side a peer has one bufferevent at a time; after an   *)
(* error it gets a new one and a timer to connect it.  On the listening    *)
(* side every accepted connection is an entry of `clients', in which an    *)
(* entry knows its own index.  libevent and TCP are external: a connection *)
(* carries objects in order, may break at any time with any tail of what   *)
(* is under way lost, and its two ends learn of that on their own.         *)
(***************************************************************************)
EXTENDS Integers, PaxosTypesPack

CONSTANTS Connectors,      \* the processes that connect
          MaxConnections,  \* bound: the bufferevents of a connector
          MaxBroadcasts,   \* bound: the most messages of the listening process
          AcceptorCount,   \* the acceptors of the configuration
          Self,            \* the id of the one that is modelled
          Partner,         \* the acceptor at each connector's side, or -1
          Group,           \* to how many acceptors a message goes
          Scenarios        \* records of the protocol, the messages each connector has
                           \* to send, the connections it may use and the messages
                           \* the listener may send

ASSUME PeersAssumption == /\ MaxConnections \in Nat \ {0}
                          /\ MaxBroadcasts \in Nat
                          /\ AcceptorCount \in Nat \ {0}
                          /\ Self \in 0 .. AcceptorCount - 1
                          /\ Partner \in [Connectors -> -1 .. AcceptorCount - 1]
                          /\ Group \in 1 .. AcceptorCount

VARIABLES proto,          \* the protocol of the deployment
          connections,    \* bound: the last of these does not fail
          peers,          \* of a connector: its acceptors, in order of use
          status,         \* of its peer for the listener: the last event
          bev,            \* the bufferevent of that peer
          reconnect_ev,   \* whether the peer's timer is pending
          link,           \* what has become of each bufferevent
          backlog,        \* connections the listener has not accepted yet
          clients,        \* the listener's table of [id, bev]
          freed,          \* bufferevents of clients that were freed
          wire,           \* objects written and not read, by direction
          input,          \* objects read and not yet a whole message
          script,         \* what a connector still has to send
          broadcasts,     \* bound: messages the listener may still send
          sent, handled   \* what was written and handled, by direction

vars == <<proto, connections, peers, status, bev, reconnect_ev, link, backlog, clients,
          freed, wire, input, script, broadcasts, sent, handled>>

scenario == <<proto, connections>>

Bufferevents == Connectors \X (1 .. MaxConnections)

(* The two directions of a connection, named for where they lead.          *)
Channels == Bufferevents \X {"listener", "connector"}

Current(c) == <<c, bev[c]>>

-----------------------------------------------------------------------------
(* peers_connect_to_acceptors: the acceptors by id, the partner swapped to *)
(* the front.                                                              *)
ConnectToAcceptors(partner) ==
  [i \in 1 .. AcceptorCount |->
    CASE partner >= 0 /\ i = 1 -> partner
      [] partner >= 0 /\ i = partner + 1 -> 0
      [] OTHER -> i - 1]

Init ==
  /\ \E s \in Scenarios : /\ proto = s.proto
                          /\ script = s.messages
                          /\ connections = s.connections
                          /\ broadcasts = s.broadcasts
  /\ peers = [c \in Connectors |-> ConnectToAcceptors(Partner[c])]
  /\ status = [c \in Connectors |-> "EOF"]
  /\ bev = [c \in Connectors |-> 1]
  /\ reconnect_ev = [c \in Connectors |-> FALSE]
  /\ link = [b \in Bufferevents |-> IF b[2] = 1 THEN "connecting" ELSE "idle"]
  /\ backlog = {}
  /\ clients = <<>>
  /\ freed = {}
  /\ wire = [ch \in Channels |-> <<>>]
  /\ input = [ch \in Channels |-> <<>>]
  /\ sent = [ch \in Channels |-> <<>>]
  /\ handled = [ch \in Channels |-> <<>>]

-----------------------------------------------------------------------------
(* peers_for_n_acceptor: shuffle the first n - 1 of the table, or of what  *)
(* follows the partner, and send to the first n.                           *)
(* Shuffled_All: n of them.                                                *)
Shuffled_All(order, n, partnership) ==
  LET first == IF partnership THEN 2 ELSE 1
      moved == first .. first + n - 1
  IN {[i \in DOMAIN order |-> IF i \in moved THEN order[p[i]] ELSE order[i]] :
       p \in {p \in [moved -> moved] : \A i, j \in moved : p[i] = p[j] => i = j}}

Shuffled(order, n, partnership) ==
  LET first == IF partnership THEN 2 ELSE 1
      moved == first .. first + n - 2
  IN {[i \in DOMAIN order |-> IF i \in moved THEN order[p[i]] ELSE order[i]] :
       p \in {p \in [moved -> moved] : \A i, j \in moved : p[i] = p[j] => i = j}}

(* Whom a connector sends to.                                              *)
Addressed(c) == {peers[c][i] : i \in 1 .. Group}

(* What is written to a bufferevent that lost its connection goes nowhere; *)
(* before the connection is there it waits.                                *)
Written(channels, msg) ==
  /\ sent' = [ch \in Channels |->
       IF ch \in channels THEN Append(sent[ch], msg) ELSE sent[ch]]
  /\ wire' = [ch \in Channels |->
       IF ch \in channels /\ link[ch[1]] \notin {"broken", "refused"}
       THEN wire[ch] \o Objects(proto, msg) ELSE wire[ch]]

(* A connector's handler or timer sends its next message.                  *)
PeersForNAcceptor(c) ==
  /\ script[c] # <<>>
  /\ \E order \in Shuffled(peers[c], Group, Partner[c] >= 0) :
       peers' = [peers EXCEPT ![c] = order]
  /\ script' = [script EXCEPT ![c] = Tail(script[c])]
  /\ Written(IF Self \in {peers'[c][i] : i \in 1 .. Group}
             THEN {<<Current(c), "listener">>} ELSE {}, Head(script[c]))
  /\ UNCHANGED <<scenario, status, bev, reconnect_ev, link, backlog, clients, freed, input,
                 broadcasts, handled>>

(* peers_foreach_client: a message of the listener to all its clients.     *)
PeersForeachClient(msg) ==
  /\ broadcasts > 0
  /\ broadcasts' = broadcasts - 1
  /\ Written({<<clients[i].bev, "connector">> : i \in DOMAIN clients}, msg)
  /\ UNCHANGED <<scenario, peers, status, bev, reconnect_ev, link, backlog, clients, freed,
                 input, script, handled>>

-----------------------------------------------------------------------------
(* The network, external.  A failure costs a bufferevent; the bound leaves *)
(* every connector a last one that does not fail.                          *)
MayFail(b) == b[2] < connections

Establish(b) ==
  /\ link[b] = "connecting"
  /\ link' = [link EXCEPT ![b] = "up"]
  /\ backlog' = backlog \cup {b}
  /\ UNCHANGED <<scenario, peers, status, bev, reconnect_ev, clients, freed, wire, input,
                 script, broadcasts, sent, handled>>

Refuse(b) ==
  /\ link[b] = "connecting"
  /\ MayFail(b)
  /\ link' = [link EXCEPT ![b] = "refused"]
  /\ wire' = [ch \in Channels |-> IF ch[1] = b THEN <<>> ELSE wire[ch]]
  /\ UNCHANGED <<scenario, peers, status, bev, reconnect_ev, backlog, clients, freed, input,
                 script, broadcasts, sent, handled>>

(* The connection breaks.  Each end may still read some of what was under  *)
(* way before it is told.                                                  *)
Break(b) ==
  /\ link[b] = "up"
  /\ MayFail(b)
  /\ link' = [link EXCEPT ![b] = "broken"]
  /\ UNCHANGED <<scenario, peers, status, bev, reconnect_ev, backlog, clients, freed, wire,
                 input, script, broadcasts, sent, handled>>

(* The listening process dies and starts again, with an empty table.       *)
Restart ==
  LET lost == {b \in Bufferevents : link[b] = "up"}
  IN /\ lost # {}
     /\ \A b \in lost : MayFail(b)
     /\ link' = [b \in Bufferevents |-> IF b \in lost THEN "broken" ELSE link[b]]
     /\ backlog' = {}
     /\ clients' = <<>>
     /\ freed' = freed \cup {clients[i].bev : i \in DOMAIN clients}
     /\ wire' = [ch \in Channels |->
          IF ch[2] = "listener" /\ link'[ch[1]] = "broken" THEN <<>> ELSE wire[ch]]
     /\ input' = [ch \in Channels |-> IF ch[2] = "listener" THEN <<>> ELSE input[ch]]
     /\ UNCHANGED <<scenario, peers, status, bev, reconnect_ev, script, broadcasts, sent,
                    handled>>

-----------------------------------------------------------------------------
(* The connecting side.                                                    *)

(* on_peer_event, BEV_EVENT_CONNECTED.                                     *)
OnPeerConnected(c) ==
  /\ link[Current(c)] = "up"
  /\ status[c] # "CONNECTED"
  /\ status' = [status EXCEPT ![c] = "CONNECTED"]
  /\ UNCHANGED <<scenario, peers, bev, reconnect_ev, link, backlog, clients, freed, wire, input,
                 script, broadcasts, sent, handled>>

(* on_peer_event, BEV_EVENT_ERROR and BEV_EVENT_EOF: the bufferevent and   *)
(* all it holds is freed, the new one waits for the timer.                 *)
(* OnPeerError_SameInput: the new one is given the input of the old.       *)
(* OnPeerError_Connected: the timer is for connections that were there.    *)
OnPeerError_SameInput(c) ==
  /\ link[Current(c)] \in {"broken", "refused"}
  /\ bev' = [bev EXCEPT ![c] = @ + 1]
  /\ reconnect_ev' = [reconnect_ev EXCEPT ![c] = TRUE]
  /\ status' = [status EXCEPT ![c] = "ERROR"]
  /\ wire' = [wire EXCEPT ![<<Current(c), "connector">>] = <<>>]
  /\ input' = [input EXCEPT ![<<Current(c), "connector">>] = <<>>,
                            ![<<<<c, bev'[c]>>, "connector">>] =
                              input[<<Current(c), "connector">>]]
  /\ UNCHANGED <<scenario, peers, link, backlog, clients, freed, script, broadcasts, sent,
                 handled>>

OnPeerError_Connected(c) ==
  /\ link[Current(c)] \in {"broken", "refused"}
  /\ bev' = [bev EXCEPT ![c] = @ + 1]
  /\ reconnect_ev' = [reconnect_ev EXCEPT ![c] = status[c] = "CONNECTED"]
  /\ status' = [status EXCEPT ![c] = "ERROR"]
  /\ wire' = [wire EXCEPT ![<<Current(c), "connector">>] = <<>>]
  /\ input' = [input EXCEPT ![<<Current(c), "connector">>] = <<>>]
  /\ UNCHANGED <<scenario, peers, link, backlog, clients, freed, script, broadcasts, sent,
                 handled>>

OnPeerError(c) ==
  /\ link[Current(c)] \in {"broken", "refused"}
  /\ bev' = [bev EXCEPT ![c] = @ + 1]
  /\ reconnect_ev' = [reconnect_ev EXCEPT ![c] = TRUE]
  /\ status' = [status EXCEPT ![c] = "ERROR"]
  /\ wire' = [wire EXCEPT ![<<Current(c), "connector">>] = <<>>]
  /\ input' = [input EXCEPT ![<<Current(c), "connector">>] = <<>>]
  /\ UNCHANGED <<scenario, peers, link, backlog, clients, freed, script, broadcasts, sent,
                 handled>>

(* on_connection_timeout: connect_peer.                                    *)
OnConnectionTimeout(c) ==
  /\ reconnect_ev[c]
  /\ reconnect_ev' = [reconnect_ev EXCEPT ![c] = FALSE]
  /\ link' = [link EXCEPT ![Current(c)] = "connecting"]
  /\ UNCHANGED <<scenario, peers, status, bev, backlog, clients, freed, wire, input, script,
                 broadcasts, sent, handled>>

-----------------------------------------------------------------------------
(* The listening side.                                                     *)

OnAccept(b) ==
  /\ b \in backlog
  /\ backlog' = backlog \ {b}
  /\ clients' = Append(clients, [id |-> Len(clients), bev |-> b])
  /\ UNCHANGED <<scenario, peers, status, bev, reconnect_ev, link, freed, wire, input, script,
                 broadcasts, sent, handled>>

(* on_client_event takes out the entry at the index its peer has for       *)
(* itself, and tells those behind their new index.                         *)
(* WithoutClient_SameIds: without telling them.                            *)
WithoutClient_SameIds(table, id) ==
  [i \in 1 .. Len(table) - 1 |-> IF i <= id THEN table[i] ELSE table[i + 1]]

WithoutClient(table, id) ==
  [i \in 1 .. Len(table) - 1 |->
    IF i <= id THEN table[i] ELSE [table[i + 1] EXCEPT !.id = i - 1]]

OnClientEvent(b) ==
  /\ link[b] = "broken"
  /\ b \notin freed
  /\ \E i \in DOMAIN clients :
       /\ clients[i].bev = b
       /\ clients' = WithoutClient(clients, clients[i].id)
  /\ freed' = freed \cup {b}
  /\ wire' = [wire EXCEPT ![<<b, "listener">>] = <<>>]
  /\ input' = [input EXCEPT ![<<b, "listener">>] = <<>>]
  /\ UNCHANGED <<scenario, peers, status, bev, reconnect_ev, link, backlog, script, broadcasts,
                 sent, handled>>

-----------------------------------------------------------------------------
(* on_read: some objects arrive, the whole messages are handled.           *)
Read(ch) ==
  \E n \in 1 .. Len(wire[ch]) :
    \E r \in {OnRead(proto, input[ch] \o SubSeq(wire[ch], 1, n))} :
      /\ wire' = [wire EXCEPT ![ch] = SubSeq(@, n + 1, Len(@))]
      /\ input' = [input EXCEPT ![ch] = r.rest]
      /\ handled' = [handled EXCEPT ![ch] = @ \o r.handled]
      /\ UNCHANGED <<scenario, peers, status, bev, reconnect_ev, link, backlog, clients, freed,
                     script, broadcasts, sent>>

ReadByListener(b) ==
  /\ \E i \in DOMAIN clients : clients[i].bev = b
  /\ Read(<<b, "listener">>)

ReadByConnector(c) ==
  /\ status[c] = "CONNECTED"
  /\ Read(<<Current(c), "connector">>)

-----------------------------------------------------------------------------
(* A message of a type, told apart from others by a number in every field. *)
Message(protocol, type, n) ==
  [type |-> type, contents |-> [path \in Paths(protocol, type) |-> <<path, n>>]]

(* What the listener broadcasts: something short.                          *)
Announcement(protocol, n) ==
  Message(protocol, IF protocol = "standard" THEN "PAXOS_TRIM" ELSE "INSTANCE_TRIM", n)

Next ==
  \/ \E c \in Connectors : PeersForNAcceptor(c)
  \/ PeersForeachClient(Announcement(proto, broadcasts))
  \/ \E b \in Bufferevents : Establish(b)
  \/ \E b \in Bufferevents : Refuse(b)
  \/ \E b \in Bufferevents : Break(b)
  \/ Restart
  \/ \E c \in Connectors : OnPeerConnected(c)
  \/ \E c \in Connectors : OnPeerError(c)
  \/ \E c \in Connectors : OnConnectionTimeout(c)
  \/ \E b \in Bufferevents : OnAccept(b)
  \/ \E b \in Bufferevents : OnClientEvent(b)
  \/ \E b \in Bufferevents : ReadByListener(b)
  \/ \E c \in Connectors : ReadByConnector(c)

(* libevent calls back for what is ready and for timers that are due; the  *)
(* network answers a connection attempt one way or the other.  Nothing     *)
(* obliges a process to send, or a connection to break.                    *)
Fairness ==
  /\ \A b \in Bufferevents :
       /\ WF_vars(Establish(b) \/ Refuse(b))
       /\ WF_vars(OnAccept(b))
       /\ WF_vars(OnClientEvent(b))
       /\ WF_vars(ReadByListener(b))
  /\ \A c \in Connectors :
       /\ WF_vars(OnPeerConnected(c))
       /\ WF_vars(OnPeerError(c))
       /\ WF_vars(OnConnectionTimeout(c))
       /\ WF_vars(ReadByConnector(c))

Spec == Init /\ [][Next]_vars /\ Fairness

-----------------------------------------------------------------------------
(* The acceptor's state of the epoch protocol has a field that is neither  *)
(* packed nor unpacked; ev_epoch_proposer_handle_acceptor_state, the one    *)
(* handler, reads the others only.                                         *)
Unread(type) == IF type = "ACCEPTOR_STATE" THEN {<<"current_instance">>} ELSE {}

Carried(msg) ==
  [msg EXCEPT !.contents = Restrict(@, DOMAIN @ \ Unread(msg.type))]

AllCarried(messages) == [k \in DOMAIN messages |-> Carried(messages[k])]

CarriedMessages ==
  {Carried(m) : m \in
    UNION {UNION {Range(s.messages[c]) : c \in Connectors} : s \in Scenarios}
    \cup {Announcement(p, n) : p \in {"standard", "epoch"}, n \in 1 .. MaxBroadcasts}}

(* Every direction of every connection is a channel: handlers see whole    *)
(* messages, the ones that were sent, in order, without a gap and at most  *)
(* once, however the objects arrive in pieces and whenever the connection  *)
(* breaks; nothing of a lost connection shows on the next one (on_read,    *)
(* recv_paxos_message, on_peer_event and the pack and unpack functions of  *)
(* every type).  Every field of every struct arrives, the one that no      *)
(* handler reads excepted.                                                 *)
MessageChannel == INSTANCE Channel WITH
  Messages <- CarriedMessages,
  sent <- [ch \in Channels |-> AllCarried(sent[ch])],
  handled <- [ch \in Channels |-> AllCarried(handled[ch])]

ImplementsChannel == MessageChannel!Spec

(* An entry of the table of clients knows where it is, and is not one that *)
(* was freed: a write to all clients, and the removal of one of them,      *)
(* touch live entries only (on_client_event, on_accept).                   *)
ClientsAreLive ==
  \A i \in DOMAIN clients : /\ clients[i].id = i - 1
                            /\ clients[i].bev \notin freed

(* A process that sends to a group of the acceptors sends to the same ones *)
(* for good, its partner among them: shuffling changes the order inside    *)
(* the group only (shuffle, peers_for_n_acceptor).  An acceptor outside it *)
(* is never asked, even when one inside does not answer.                   *)
GroupIsFixed ==
  [][\A c \in Connectors : /\ Addressed(c)' = Addressed(c)
                           /\ Partner[c] >= 0 => Partner[c] \in Addressed(c)]_peers

(* Once connections stop failing, every connector is connected, and the    *)
(* listener has it as a client (on_peer_event, on_connection_timeout).     *)
Reconnects ==
  \A c \in Connectors :
    <>[](/\ status[c] = "CONNECTED"
         /\ link[Current(c)] = "up"
         /\ \E i \in DOMAIN clients : clients[i].bev = Current(c))

(* Once nothing more is sent, every message written to a connection is     *)
(* handled unless the connection was lost: none stays in a buffer because  *)
(* several came at once, or because one came in pieces (on_read).          *)
SentIsHandled ==
  <>[](\A ch \in Channels : \/ Len(handled[ch]) = Len(sent[ch])
                            \/ link[ch[1]] \in {"broken", "refused"})
=============================================================================
