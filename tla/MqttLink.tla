------------------------------ MODULE MqttLink ------------------------------
(***************************************************************************)
(* The MQTT side of the orchestrator (src/mqtt_handler.py): the callbacks  *)
(* that paho runs on its network thread, statement by statement, and what  *)
(* the broker holds of the client.  The event loop reads mqtt_connected    *)
(* and mqtt_client between any two of these statements, and subscribes or  *)
(* unsubscribes zones through the client meanwhile.                        *)
(*                                                                         *)
(* Sessions are clean (a client without an id): the broker forgets what    *)
(* was subscribed when the link goes, and a request made then is lost.     *)
(* paho reconnects by itself, on the same thread, once on_disconnect ran.  *)
(***************************************************************************)
EXTENDS Naturals, Sequences

CONSTANTS
    ZoneTopics,     \* the telemetry topics of the zones
    MaxAttempts     \* bound: answered connection attempts in a behaviour

ASSUME LinkAssumption == MaxAttempts \in Nat /\ {"+", "veto"} \cap ZoneTopics = {}

VARIABLES
    link,       \* "off", "up", or "lost" until paho notices
    subs,       \* topics the broker delivers: of zones, "+" for all of them, "veto"
    handler,    \* statements the running callback has yet to execute
    connected,  \* orchestrator.mqtt_connected
    client,     \* whether orchestrator.mqtt_client is set
    tells,      \* broadcasts scheduled on the event loop and not yet run
    attempts    \* connection attempts so far, for the bound

linkVars == <<link, subs, handler, connected, client, tells, attempts>>

Topics == ZoneTopics \cup {"+", "veto"}

(* Fault: topics are subscribed by the first connection only. *)
OnConnect_Once ==
    IF attempts = 0 THEN <<"online", "setClient", "subscribeAll", "subscribeVeto", "tell">>
                    ELSE <<"online", "setClient", "tell">>

OnConnect == <<"online", "setClient", "subscribeAll", "subscribeVeto", "tell">>

(* Faults: the dashboards are not told; the client is kept. *)
OnDisconnect_Silent == <<"offline", "clearClient">>
OnDisconnect_KeepsClient == <<"offline", "tell">>

OnDisconnect == <<"offline", "clearClient", "tell">>
OnRefused == <<"offline", "clearClient", "tell">>

Statements == {"online", "setClient", "subscribeAll", "subscribeVeto", "tell", "offline", "clearClient"}

LinkTypeOK ==
    /\ link \in {"off", "up", "lost"}
    /\ subs \subseteq Topics
    /\ handler \in Seq(Statements)
    /\ connected \in BOOLEAN
    /\ client \in BOOLEAN
    /\ tells \in Nat
    /\ attempts \in 0..MaxAttempts

LinkInit ==
    /\ link = "off"
    /\ subs = {}
    /\ handler = <<>>
    /\ connected = FALSE
    /\ client = FALSE
    /\ tells = 0
    /\ attempts = 0

-----------------------------------------------------------------------------
(* The network and the broker. *)

Attempt ==
    /\ link = "off" /\ handler = <<>>
    /\ attempts < MaxAttempts
    /\ attempts' = attempts + 1

Accepted ==
    /\ Attempt
    /\ link' = "up"
    /\ subs' = {}
    /\ handler' = OnConnect
    /\ UNCHANGED <<connected, client, tells>>

(* A refusal also ends the connection, and may be reported as such. *)
Refused ==
    /\ Attempt
    /\ link' \in {"off", "lost"}
    /\ handler' = OnRefused
    /\ UNCHANGED <<subs, connected, client, tells>>

Drop ==
    /\ link = "up"
    /\ link' = "lost"
    /\ subs' = {}
    /\ UNCHANGED <<handler, connected, client, tells, attempts>>

Noticed ==
    /\ link = "lost" /\ handler = <<>>
    /\ link' = "off"
    /\ handler' = OnDisconnect
    /\ UNCHANGED <<subs, connected, client, tells, attempts>>

-----------------------------------------------------------------------------
(* Requests through the client, by either thread. *)

Subscribe(topic) == subs' = IF link = "up" THEN subs \cup {topic} ELSE subs
Unsubscribe(topic) == subs' = subs \ {topic}

(* The callbacks. *)

Executes(statement) ==
    /\ handler # <<>> /\ Head(handler) = statement
    /\ handler' = Tail(handler)

SetConnected ==
    \E online \in BOOLEAN :
        /\ Executes(IF online THEN "online" ELSE "offline")
        /\ connected' = online
        /\ UNCHANGED <<link, subs, client, tells, attempts>>

SetClient ==
    \E set \in BOOLEAN :
        /\ Executes(IF set THEN "setClient" ELSE "clearClient")
        /\ client' = set
        /\ UNCHANGED <<link, subs, connected, tells, attempts>>

SubscribeAll ==
    /\ Executes("subscribeAll")
    /\ Subscribe("+")
    /\ UNCHANGED <<link, connected, client, tells, attempts>>

SubscribeVeto ==
    /\ Executes("subscribeVeto")
    /\ Subscribe("veto")
    /\ UNCHANGED <<link, connected, client, tells, attempts>>

ScheduleBroadcast ==
    /\ Executes("tell")
    /\ tells' = tells + 1
    /\ UNCHANGED <<link, subs, connected, client, attempts>>

Callback == SetConnected \/ SetClient \/ SubscribeAll \/ SubscribeVeto \/ ScheduleBroadcast

LinkStep == Accepted \/ Refused \/ Drop \/ Noticed \/ Callback

-----------------------------------------------------------------------------
(* The event loop. *)

BroadcastRuns ==
    /\ tells > 0
    /\ tells' = tells - 1
    /\ UNCHANGED <<link, subs, handler, connected, client, attempts>>

LoopRequest(t) ==
    /\ Subscribe(t) \/ Unsubscribe(t)
    /\ UNCHANGED <<link, handler, connected, client, tells, attempts>>

LinkNext == LinkStep \/ BroadcastRuns \/ \E t \in ZoneTopics : LoopRequest(t)

LinkSpec == LinkInit /\ [][LinkNext]_linkVars

-----------------------------------------------------------------------------
(* Properties. *)

(* Whatever was dropped or refused before, and wherever in a callback, a   *)
(* link that is up with no callback running delivers telemetry and vetoes. *)
ListensWhenUp == link = "up" /\ handler = <<>> => {"+", "veto"} \subseteq subs

(* Once paho has noticed and reported what happened, the flag shown on the *)
(* dashboards and the client used for requests tell the link's state.      *)
FlagsTellLink == link # "lost" /\ handler = <<>> => connected = (link = "up") /\ client = connected
=============================================================================
