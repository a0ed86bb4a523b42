----------------------------- MODULE MCServices -----------------------------
(***************************************************************************)
(* What goes on beside the indexing of events, for TLC: messages signed by *)
(* users and their relay between servers, metadata of tokens and of the    *)
(* world, controllers found on chain, the calls of clients, the images of  *)
(* tokens, and the process with its servers.  As in MCTables, no variable  *)
(* is shared by two of them: `service' is the one that moves.              *)
(***************************************************************************)
EXTENDS Messaging, Runner, TLC

CONSTANTS
    Failed, Panic, Empty,
    sa, sb,                         \* servers
    collection, w1, w2, ua, ub,     \* a token contract, resources, URIs
    raster, svg, ca, cb             \* formats of images and clients that ask for them

VARIABLES
    service,
    commands, waiting, ready, running, sent, published, inbox, loop, cross, r_request, stored,
    r_requests, lost, traffic, relayed, newest,
    config, registered, unreadable, version, t_chain, t_pos, t_phase, tasks, t_db, t_disk, t_faults,
    expected, overlapping, disturbed,
    has_icon, sets, w_pos, processed, retrievals, rows, saved, w_faults,
    d_chain, known, known0, d_pos, todo, attempt, failed, tx, d_db, d_faults,
    document, wire,
    now, token, files, i_late, task, copy, stale, served, i_faults, i_disturbed

relayVars == <<commands, waiting, ready, running, sent, published, inbox, loop, cross, r_request,
               stored, r_requests, lost, traffic, relayed, newest>>
tokenVars == <<config, registered, unreadable, version, t_chain, t_pos, t_phase, tasks, t_db, t_disk,
               t_faults, expected, overlapping, disturbed>>
worldVars == <<has_icon, sets, w_pos, processed, retrievals, rows, saved, w_faults>>
deploymentVars == <<d_chain, known, known0, d_pos, todo, attempt, failed, tx, d_db, d_faults>>
imageVars == <<now, token, files, i_late, task, copy, stale, served, i_faults, i_disturbed>>

-----------------------------------------------------------------------------
Servers == {sa, sb}

Peers == INSTANCE Relay WITH
    Server <- Servers, Timestamp <- 0..2,
    MaxPublish <- 2, MaxRequests <- 1, MaxLost <- 1, MaxPeerTraffic <- 6,
    request <- r_request, requests <- r_requests

Tokens == INSTANCE MetadataUpdates WITH
    Nft <- {1, 2}, Contract <- collection,
    Registered <- {{1, 2, collection}, {1}}, Unreadable <- {{}, {1, 2, collection}},
    MaxEvents <- 2, MaxFaults <- 1,
    chain <- t_chain, pos <- t_pos, phase <- t_phase, db <- t_db, disk <- t_disk, faults <- t_faults

Resources == INSTANCE ResourceMetadata WITH
    World <- w1, Other <- w2, Uri <- {ua, ub}, MaxSets <- 3, MaxFaults <- 1, pos <- w_pos, faults <- w_faults

(* One calldata of a known form and one that has none. *)
Accounts == INSTANCE Deployments WITH
    Address <- {1, 2}, Username <- {"u"}, NoName <- "no-name!",
    Calldata <- {<<0, 3, 7, 1>>, <<0, 3, 7, 2>>}, Batch <- 2, MaxFaults <- 4, MaxEvents <- 3,
    chain <- d_chain, pos <- d_pos, db <- d_db, faults <- d_faults

Documents == INSTANCE MetadataFetch WITH MaxRetries <- 2, MaxText <- 5, case <- document

Calls == INSTANCE Grpc WITH Radix <- 3, Width <- 2, Depth <- 6, CallDepth <- 4, case <- wire

(* A client that wants images in full size and one that wants small ones. *)
Images == INSTANCE StaticImages WITH
    Request <- Client, SizeOf <- (ca :> "base") @@ (cb :> "small"), Raster <- raster, Svg <- svg,
    MaxVersion <- 2, MaxTime <- 2, MaxServed <- 2, MaxFaults <- 1,
    late <- i_late, faults <- i_faults, disturbed <- i_disturbed

(* A client of GraphQL and one of the other services behind the proxy. *)
MCKind == (ca :> "graphql") @@ (cb :> "other")

-----------------------------------------------------------------------------
(* The choices that belong to a service which does not move are fixed. *)
Init ==
    /\ service \in {"messages", "relay", "tokens", "world", "deployments", "documents", "calls", "images",
                    "process"}
    /\ MessagingInit
    /\ Peers!Init
    /\ Tokens!Init
    /\ service # "tokens" => ~config.async /\ ~config.only_at_head /\ registered = {1} /\ unreadable = {}
    /\ Resources!Init /\ (service # "world" => has_icon = {})
    /\ IF service = "deployments" THEN Accounts!Init
       ELSE /\ d_chain = << >> /\ known = {} /\ known0 = {} /\ d_pos = 0 /\ todo = None
            /\ attempt = None /\ failed = FALSE /\ tx = None /\ d_db = None /\ d_faults = 0
    /\ IF service = "documents" THEN Documents!Init ELSE document = None
    /\ IF service = "calls" THEN Calls!Init \/ Calls!CallInit ELSE wire = None
    /\ Images!Init /\ (service # "images" => token.format = raster)
    /\ RunnerInit /\ (service # "process" => dir)

Next ==
    \/ service = "messages" /\ MessagingNext
        /\ UNCHANGED <<service, relayVars, tokenVars, worldVars, deploymentVars, document, wire, imageVars, runnerVars>>
    \/ service = "relay" /\ Peers!Next
        /\ UNCHANGED <<service, messagingVars, tokenVars, worldVars, deploymentVars, document, wire, imageVars, runnerVars>>
    \/ service = "tokens" /\ Tokens!Next
        /\ UNCHANGED <<service, messagingVars, relayVars, worldVars, deploymentVars, document, wire, imageVars, runnerVars>>
    \/ service = "world" /\ Resources!Next
        /\ UNCHANGED <<service, messagingVars, relayVars, tokenVars, deploymentVars, document, wire, imageVars, runnerVars>>
    \/ service = "deployments" /\ Accounts!Next
        /\ UNCHANGED <<service, messagingVars, relayVars, tokenVars, worldVars, document, wire, imageVars, runnerVars>>
    \/ service = "documents" /\ Documents!Next
        /\ UNCHANGED <<service, messagingVars, relayVars, tokenVars, worldVars, deploymentVars, wire, imageVars, runnerVars>>
    \/ service = "calls" /\ Calls!Next
        /\ UNCHANGED <<service, messagingVars, relayVars, tokenVars, worldVars, deploymentVars, document, imageVars, runnerVars>>
    \/ service = "images" /\ Images!Next
        /\ UNCHANGED <<service, messagingVars, relayVars, tokenVars, worldVars, deploymentVars, document, wire, runnerVars>>
    \/ service = "process" /\ RunnerNext
        /\ UNCHANGED <<service, messagingVars, relayVars, tokenVars, worldVars, deploymentVars, document, wire, imageVars>>

vars == <<service, messagingVars, relayVars, tokenVars, worldVars, deploymentVars, document, wire, imageVars, runnerVars>>

Spec == Init /\ [][Next]_vars

-----------------------------------------------------------------------------
(* The relay's client publishes in the order of its callers; servers that forward
   to each other do not keep a message alive, and when all is quiet each of them
   has stored the newest message that was relayed (RelayClient, Relay). *)
RelayedEverywhere ==
    service = "relay" =>
        Peers!PublishedInOrder /\ Peers!TrafficDiesOut /\ Peers!RelayedEverywhere

(* The metadata of a token is as new as the last event about it
   (erc4906_metadata_update.rs); that of the world is the document of the URI it
   is stored with (metadata_update.rs); and a URI is found if a method answers in
   time, the metadata of a token is the document if it is served in time, and the
   text of a data URI has no control characters and no quotes inside of its
   strings when it is read (erc.rs, fetch.rs). *)
MetadataFollowsEvents ==
    /\ service = "tokens" => Tokens!MetadataFollowsEvents
    /\ service = "world" => Resources!DocumentOfUri
    /\ service = "documents" => Documents!FetchCorrect

(* The controllers deployed in a batch are stored with it (controller.rs). *)
ControllersFound == service = "deployments" => Accounts!ControllersFound

(* What a client of the gRPC server asks for is what the storage is asked, and what
   it gets is what the storage answers, but for what the encoding cannot express
   (proto, grpc). *)
CallsAgree == service = "calls" => Calls!WireKeeps /\ Calls!CallsAgree

(* No old image of a token stays in the directory or with a client that asks
   again (static.rs). *)
ImagesCurrent == service = "images" => Images!ImagesCurrent
=============================================================================
