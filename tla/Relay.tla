-------------------------------- MODULE Relay --------------------------------
(***************************************************************************)
(* Messages between servers (crates/libp2p): a client publishes on the     *)
(* topic of clients through the event loop of its RelayClient; a server's  *)
(* relay checks and stores what it receives, one message at a time, and    *)
(* publishes on the topic of peers what came from a client or from its own *)
(* gRPC server. Gossipsub brings a publication to the other servers, in    *)
(* any order and each at most once, or loses it.                           *)
(*                                                                         *)
(* What a server checks is in Messaging; here its two steps, the check     *)
(* against the committed entity and the write, are apart, as a request of  *)
(* the gRPC server and the relay's loop may be under way together. The     *)
(* content of a message is its timestamp, 0 for a message without one. A   *)
(* payload that is no typed data ends the loop of a relay (an unwrap): it  *)
(* is not among the inputs.                                                *)
(***************************************************************************)
EXTENDS Integers, Sequences, FiniteSets, Bags, BagsExt, SequencesExt

CONSTANTS
    Server,
    Timestamp,      \* the messages clients send
    None,
    MaxPublish,     \* bound: messages of clients
    MaxRequests,    \* bound: requests of the gRPC servers
    MaxLost,        \* bound: publications that miss a server
    MaxPeerTraffic  \* bound: publications on the topic of peers

VARIABLES
    commands,   \* RelayClient: the channel of commands
    waiting,    \* commands_queue
    ready,      \* is_relay_ready
    running,    \* the client's event loop is running
    sent,       \* history: what the client's callers asked to publish
    published,  \* history: what the client's loop published
    inbox,      \* publications on their way to a server
    loop,       \* what a relay's loop is processing
    cross,      \* cross_messaging_rx of a relay
    request,    \* the request a gRPC server is processing
    stored,     \* timestamp of the committed entity of a server
    requests, lost,
    traffic,    \* history: publications on the topic of peers
    relayed,    \* history: messages accepted from a client or by publish_message
    newest      \* history: the newest message a server ever stored

vars == <<commands, waiting, ready, running, sent, published, inbox, loop, cross, request,
          stored, requests, lost, traffic, relayed, newest>>

clientVars == <<commands, waiting, ready, running, sent, published>>
grpcVars == <<request, requests>>
historyVars == <<traffic, relayed, newest>>

MESSAGING_TOPIC == "message"
PEERS_MESSAGING_TOPIC == "peers"

Free == None
Delivery(topic, t) == [topic |-> topic, timestamp |-> t]

(* Messaging!NewerThan: the only check that depends on the entity. *)
Accepts(s, t) == stored[s] # 0 => t > stored[s]

-----------------------------------------------------------------------------
(* gossipsub.publish, external: every server in `to' receives it once *)

Reaches(to, topic, t) ==
    inbox' = [s \in Server |->
                 IF s \in to THEN BagAdd(inbox[s], Delivery(topic, t)) ELSE inbox[s]]

Lose(s, d) ==
    /\ BagIn(d, inbox[s])
    /\ lost < MaxLost
    /\ lost' = lost + 1
    /\ inbox' = [inbox EXCEPT ![s] = BagRemove(@, d)]
    /\ UNCHANGED <<clientVars, loop, cross, grpcVars, stored, historyVars>>

ForwardToPeers(s, t) ==
    /\ traffic < MaxPeerTraffic
    /\ traffic' = traffic + 1
    /\ Reaches(Server \ {s}, PEERS_MESSAGING_TOPIC, t)

-----------------------------------------------------------------------------
(* libp2p/client: CommandSender.publish and the event loop *)

publish(t) ==
    /\ Len(sent) < MaxPublish
    /\ sent' = Append(sent, t)
    /\ commands' = Append(commands, t)
    /\ UNCHANGED <<waiting, ready, running, published, inbox, loop, cross, grpcVars, stored,
                   lost, historyVars>>

(* handle_command: publish, or queue while the relay is not ready. *)
HandleCommand ==
    /\ running
    /\ commands # << >>
    /\ commands' = Tail(commands)
    /\ IF ready
       THEN /\ published' = Append(published, Head(commands))
            /\ Reaches(Server, MESSAGING_TOPIC, Head(commands))
            /\ UNCHANGED waiting
       ELSE /\ waiting' = Append(waiting, Head(commands))
            /\ UNCHANGED <<published, inbox>>
    /\ UNCHANGED <<ready, running, sent, loop, cross, grpcVars, stored, lost, historyVars>>

(* The order in which the queued commands are handled. *)
Drained(q) == q

(* The first confirmation of a subscription: everything queued is published at
   once. *)
Subscribed ==
    /\ running
    /\ ~ready
    /\ ready' = TRUE
    /\ waiting' = << >>
    /\ published' = published \o Drained(waiting)
    /\ inbox' = [s \in Server |->
          FoldLeft(LAMBDA b, t : BagAdd(b, Delivery(MESSAGING_TOPIC, t)), inbox[s], waiting)]
    /\ UNCHANGED <<commands, running, sent, loop, cross, grpcVars, stored, lost, historyVars>>

(* ConnectionClosed by a keep-alive timeout: the loop returns, and the commands
   in its queue are dropped. *)
ConnectionClosed ==
    /\ running
    /\ running' = FALSE
    /\ waiting' = << >>
    /\ UNCHANGED <<commands, ready, sent, published, inbox, loop, cross, grpcVars, stored,
                   lost, historyVars>>

-----------------------------------------------------------------------------
(* libp2p/relay: Relay.run *)

(* The arm of cross_messaging_rx. *)
CrossMessage(s) ==
    /\ loop[s] = Free
    /\ cross[s] # << >>
    /\ ForwardToPeers(s, Head(cross[s]))
    /\ cross' = [cross EXCEPT ![s] = Tail(@)]
    /\ UNCHANGED <<clientVars, loop, grpcVars, stored, lost, relayed, newest>>

(* A gossip message: validated against the entity; refused ones are dropped. *)
Receive(s, d) ==
    /\ loop[s] = Free
    /\ BagIn(d, inbox[s])
    /\ inbox' = [inbox EXCEPT ![s] = BagRemove(@, d)]
    /\ loop' = [loop EXCEPT ![s] = IF Accepts(s, d.timestamp) THEN d ELSE Free]
    /\ UNCHANGED <<clientVars, cross, grpcVars, stored, lost, historyVars>>

Store(s, t) ==
    /\ stored' = [stored EXCEPT ![s] = t]
    /\ newest' = [newest EXCEPT ![s] = IF t > @ THEN t ELSE @]

(* Only messages of clients are published to the peers. *)
Forwards(d) == d.topic = MESSAGING_TOPIC

(* It is verified and set, and published to the peers. *)
SetMessage(s) ==
    /\ loop[s] # Free
    /\ Store(s, loop[s].timestamp)
    /\ IF Forwards(loop[s])
       THEN /\ ForwardToPeers(s, loop[s].timestamp)
            /\ relayed' = relayed \cup {loop[s].timestamp}
       ELSE UNCHANGED <<inbox, traffic, relayed>>
    /\ loop' = [loop EXCEPT ![s] = Free]
    /\ UNCHANGED <<clientVars, cross, grpcVars, lost>>

(* The signature is not valid, or the provider fails. *)
RefuseMessage(s) ==
    /\ loop[s] # Free
    /\ lost < MaxLost
    /\ lost' = lost + 1
    /\ loop' = [loop EXCEPT ![s] = Free]
    /\ UNCHANGED <<clientVars, inbox, cross, grpcVars, stored, historyVars>>

-----------------------------------------------------------------------------
(* publish_message of the gRPC server hands its message to the relay;
   publish_message_batch and the GraphQL mutation do not. *)

Request(s, t, endpoint) ==
    /\ request[s] = Free
    /\ requests < MaxRequests
    /\ requests' = requests + 1
    /\ Accepts(s, t)
    /\ request' = [request EXCEPT ![s] = [endpoint |-> endpoint, timestamp |-> t]]
    /\ UNCHANGED <<clientVars, inbox, loop, cross, stored, lost, historyVars>>

(* Mutant: the message of a request is not handed to the relay. *)
HandsOver_never(r) == FALSE

HandsOver(r) == r.endpoint = "publish_message"

Respond(s) ==
    /\ request[s] # Free
    /\ Store(s, request[s].timestamp)
    /\ IF HandsOver(request[s])
       THEN cross' = [cross EXCEPT ![s] = Append(@, request[s].timestamp)]
       ELSE UNCHANGED cross
    /\ relayed' = relayed \cup {t \in {request[s].timestamp} : request[s].endpoint = "publish_message"}
    /\ request' = [request EXCEPT ![s] = Free]
    /\ UNCHANGED <<clientVars, inbox, loop, requests, lost, traffic>>

-----------------------------------------------------------------------------
Init ==
    /\ commands = << >> /\ waiting = << >> /\ ready = FALSE /\ running = TRUE
    /\ sent = << >> /\ published = << >>
    /\ inbox = [s \in Server |-> EmptyBag]
    /\ loop = [s \in Server |-> Free]
    /\ cross = [s \in Server |-> << >>]
    /\ request = [s \in Server |-> Free]
    /\ stored = [s \in Server |-> 0]
    /\ requests = 0 /\ lost = 0 /\ traffic = 0
    /\ relayed = {}
    /\ newest = [s \in Server |-> 0]

Next ==
    \/ \E t \in Timestamp : publish(t)
    \/ HandleCommand
    \/ Subscribed
    \/ ConnectionClosed
    \/ \E s \in Server :
         \/ CrossMessage(s)
         \/ \E d \in DOMAIN inbox[s] : Receive(s, d) \/ Lose(s, d)
         \/ SetMessage(s)
         \/ RefuseMessage(s)
         \/ \E t \in Timestamp, e \in {"publish_message", "publish_message_batch", "graphql"} :
              Request(s, t, e)
         \/ Respond(s)

Spec == Init /\ [][Next]_vars

-----------------------------------------------------------------------------
(* Properties *)

(* The client publishes in the order in which it was asked to, before and after
   the relay is ready, and leaves nothing out. *)
PublishedInOrder ==
    /\ published = SubSeq(sent, 1, Len(published))
    /\ running => published \o waiting \o commands = sent

Quiet ==
    \A s \in Server :
        inbox[s] = EmptyBag /\ loop[s] = Free /\ cross[s] = << >> /\ request[s] = Free

(* Servers that forward to each other do not keep a message alive: each message
   of a client is published to the peers at most once by every server, each
   request once ("otherwise recursion hell"). *)
TrafficDiesOut ==
    traffic <= Cardinality(Server) * Len(published) + requests

(* When nothing is under way and nothing was lost, every server has stored, at
   some time, the newest message that any of them accepted for relaying. *)
RelayedEverywhere ==
    Quiet /\ lost = 0 => \A s \in Server, t \in relayed : newest[s] >= t
=============================================================================
