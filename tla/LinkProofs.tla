---------------------------- MODULE LinkProofs ----------------------------
(***************************************************************************)
(* What the MQTT callbacks achieve, for any number of connections, losses  *)
(* and refusals, at whichever statement the link breaks.                   *)
(***************************************************************************)
EXTENDS MqttLink, TLAPS

(* What is left of a callback that has executed some of its statements. *)
Connect2 == <<"setClient", "subscribeAll", "subscribeVeto", "tell">>
Connect3 == <<"subscribeAll", "subscribeVeto", "tell">>
Connect4 == <<"subscribeVeto", "tell">>
Disconnect2 == <<"clearClient", "tell">>
Last == <<"tell">>

Connecting == {OnConnect, Connect2, Connect3, Connect4}
Disconnecting == {OnDisconnect, Disconnect2}

Arranged ==
    /\ link = "up" => {"+", "veto"} \subseteq subs
    /\ link # "lost" => connected = (link = "up") /\ client = connected

(* How far each callback has come, statement by statement. *)
LinkInv ==
    /\ handler \in Connecting \cup Disconnecting \cup {Last, <<>>}
    /\ handler \in Connecting => link \in {"up", "lost"}
    /\ handler \in Disconnecting => link \in {"off", "lost"}
    /\ handler \in {Connect2, Connect3, Connect4} => connected
    /\ handler \in {Connect3, Connect4} => client
    /\ handler = Connect4 /\ link = "up" => "+" \in subs
    /\ handler = Disconnect2 => ~connected
    /\ handler \in {Last, <<>>} => Arranged

LEMMA Positions ==
    /\ Head(OnConnect) = "online" /\ Tail(OnConnect) = Connect2
    /\ Head(Connect2) = "setClient" /\ Tail(Connect2) = Connect3
    /\ Head(Connect3) = "subscribeAll" /\ Tail(Connect3) = Connect4
    /\ Head(Connect4) = "subscribeVeto" /\ Tail(Connect4) = Last
    /\ Head(OnDisconnect) = "offline" /\ Tail(OnDisconnect) = Disconnect2
    /\ Head(Disconnect2) = "clearClient" /\ Tail(Disconnect2) = Last
    /\ Head(Last) = "tell" /\ Tail(Last) = <<>>
    /\ OnRefused = OnDisconnect
  BY DEF OnConnect, Connect2, Connect3, Connect4, OnDisconnect, Disconnect2, Last, OnRefused

(* The positions are told apart by their length and first statement. *)
LEMMA PositionsDiffer ==
    /\ \A h \in Connecting \cup Disconnecting \cup {Last} : h # <<>>
    /\ Last \notin Connecting \cup Disconnecting
    /\ <<>> \notin Connecting \cup Disconnecting
    /\ Connecting \cap Disconnecting = {}
    /\ OnConnect \notin {Connect2, Connect3, Connect4}
    /\ Connect2 \notin {Connect3, Connect4} /\ Connect3 # Connect4
    /\ OnDisconnect # Disconnect2
  <1>. USE DEF OnConnect, Connect2, Connect3, Connect4, OnDisconnect, Disconnect2, Last
  <1>1. \A h \in Connecting \cup Disconnecting \cup {Last} : h # <<>>
    BY DEF Connecting, Disconnecting
  <1>2. Last \notin Connecting \cup Disconnecting
    BY Positions DEF Connecting, Disconnecting
  <1>3. Connecting \cap Disconnecting = {}
    BY Positions DEF Connecting, Disconnecting
  <1>. QED  BY <1>1, <1>2, <1>3, Positions

LEMMA LinkStepKeeps == LinkTypeOK /\ LinkInv /\ [LinkNext]_linkVars => LinkInv'
  <1>. SUFFICES ASSUME LinkTypeOK, LinkInv, [LinkNext]_linkVars PROVE LinkInv'
    OBVIOUS
  <1>. USE Positions, PositionsDiffer
  <1>1. CASE Accepted
    BY <1>1 DEF Accepted, LinkInv, Connecting
  <1>2. CASE Refused
    BY <1>2 DEF Refused, LinkInv, Disconnecting
  <1>3. CASE Drop
    BY <1>3 DEF Drop, LinkInv, Arranged, Connecting, Disconnecting
  <1>4. CASE Noticed
    BY <1>4 DEF Noticed, LinkInv, Disconnecting
  <1>5. CASE SetConnected
    <2>1. PICK online \in BOOLEAN :
            /\ Executes(IF online THEN "online" ELSE "offline")
            /\ connected' = online /\ link' = link
      BY <1>5 DEF SetConnected
    <2>2. CASE online
      <3>1. handler = OnConnect /\ handler' = Connect2
        BY <2>1, <2>2 DEF Executes, LinkInv, Connecting, Disconnecting
      <3>. QED  BY <2>1, <2>2, <3>1 DEF LinkInv, Connecting
    <2>3. CASE ~online
      <3>1. handler = OnDisconnect /\ handler' = Disconnect2
        BY <2>1, <2>3 DEF Executes, LinkInv, Connecting, Disconnecting
      <3>. QED  BY <2>1, <2>3, <3>1 DEF LinkInv, Disconnecting
    <2>. QED  BY <2>2, <2>3
  <1>6. CASE SetClient
    <2>1. PICK set \in BOOLEAN :
            /\ Executes(IF set THEN "setClient" ELSE "clearClient")
            /\ client' = set /\ link' = link /\ connected' = connected
      BY <1>6 DEF SetClient
    <2>2. CASE set
      <3>1. handler = Connect2 /\ handler' = Connect3
        BY <2>1, <2>2 DEF Executes, LinkInv, Connecting, Disconnecting
      <3>. QED  BY <2>1, <2>2, <3>1 DEF LinkInv, Connecting
    <2>3. CASE ~set
      <3>1. handler = Disconnect2 /\ handler' = Last
        BY <2>1, <2>3 DEF Executes, LinkInv, Connecting, Disconnecting
      <3>2. Arranged'
        <4>1. connected' = FALSE /\ client' = FALSE
          BY <2>1, <2>3, <3>1 DEF LinkInv, LinkTypeOK
        <4>2. link' # "up"
          BY <2>1, <3>1 DEF LinkInv, Disconnecting
        <4>. QED  BY <4>1, <4>2 DEF Arranged
      <3>. QED  BY <3>1, <3>2 DEF LinkInv
    <2>. QED  BY <2>2, <2>3
  <1>7. CASE SubscribeAll
    <2>1. handler = Connect3 /\ handler' = Connect4
      BY <1>7 DEF SubscribeAll, Executes, LinkInv, Connecting, Disconnecting
    <2>2. link \in {"up", "lost"} /\ connected /\ client
      BY <2>1 DEF LinkInv, Connecting
    <2>3. /\ link' = link /\ connected' = connected /\ client' = client
          /\ link = "up" => "+" \in subs'
      BY <1>7 DEF SubscribeAll, Subscribe
    <2>. QED  BY <2>1, <2>2, <2>3 DEF LinkInv, Connecting
  <1>8. CASE SubscribeVeto
    <2>1. handler = Connect4 /\ handler' = Last
      BY <1>8 DEF SubscribeVeto, Executes, LinkInv, Connecting, Disconnecting
    <2>2. link \in {"up", "lost"} /\ connected /\ client /\ (link = "up" => "+" \in subs)
      BY <2>1 DEF LinkInv, Connecting
    <2>3. /\ link' = link /\ connected' = connected /\ client' = client
          /\ link = "up" => subs' = subs \cup {"veto"}
      BY <1>8 DEF SubscribeVeto, Subscribe
    <2>4. Arranged'
      BY <2>2, <2>3 DEF Arranged
    <2>. QED  BY <2>1, <2>4 DEF LinkInv
  <1>9. CASE ScheduleBroadcast
    BY <1>9 DEF ScheduleBroadcast, Executes, LinkInv, Arranged, Connecting, Disconnecting
  <1>10. CASE BroadcastRuns
    BY <1>10 DEF BroadcastRuns, LinkInv, Arranged
  <1>11. ASSUME NEW t \in ZoneTopics, LoopRequest(t) PROVE LinkInv'
    <2>1. t # "+" /\ t # "veto"
      BY LinkAssumption
    <2>. QED  BY <1>11, <2>1 DEF LoopRequest, Subscribe, Unsubscribe, LinkInv, Arranged
  <1>12. CASE UNCHANGED linkVars
    BY <1>12 DEF linkVars, LinkInv, Arranged
  <1>. QED  BY <1>1, <1>2, <1>3, <1>4, <1>5, <1>6, <1>7, <1>8, <1>9, <1>10, <1>11, <1>12
            DEF LinkNext, LinkStep, Callback

LEMMA LinkStarts == LinkInit => LinkTypeOK /\ LinkInv
  <1>. SUFFICES ASSUME LinkInit PROVE LinkTypeOK /\ LinkInv
    OBVIOUS
  <1>1. LinkTypeOK
    <2>1. <<>> \in Seq(Statements)
      OBVIOUS
    <2>2. attempts \in 0..MaxAttempts /\ tells \in Nat
      BY LinkAssumption DEF LinkInit
    <2>. QED  BY <2>1, <2>2 DEF LinkInit, LinkTypeOK
  <1>2. handler = <<>> /\ Arranged
    BY DEF LinkInit, Arranged
  <1>. QED  BY <1>1, <1>2, PositionsDiffer DEF LinkInv, Connecting, Disconnecting

LEMMA LinkTypeKeeps == LinkTypeOK /\ [LinkNext]_linkVars => LinkTypeOK'
  <1>. SUFFICES ASSUME LinkTypeOK, [LinkNext]_linkVars PROVE LinkTypeOK'
    OBVIOUS
  <1>. USE LinkAssumption DEF LinkTypeOK
  <1>1. CASE Accepted \/ Refused
    <2>1. OnConnect \in Seq(Statements) /\ OnRefused \in Seq(Statements)
      BY DEF OnConnect, OnRefused, Statements
    <2>2. attempts' \in 0..MaxAttempts
      BY <1>1 DEF Accepted, Refused, Attempt
    <2>. QED  BY <1>1, <2>1, <2>2 DEF Accepted, Refused
  <1>2. CASE Drop \/ Noticed
    <2>1. OnDisconnect \in Seq(Statements)
      BY DEF OnDisconnect, Statements
    <2>. QED  BY <1>2, <2>1 DEF Drop, Noticed
  <1>3. CASE SetConnected \/ SetClient
    BY <1>3 DEF SetConnected, SetClient, Executes
  <1>4. CASE SubscribeAll \/ SubscribeVeto
    BY <1>4 DEF SubscribeAll, SubscribeVeto, Executes, Subscribe, Topics
  <1>5. CASE ScheduleBroadcast \/ BroadcastRuns
    BY <1>5 DEF ScheduleBroadcast, BroadcastRuns, Executes
  <1>6. ASSUME NEW t \in ZoneTopics, LoopRequest(t) PROVE LinkTypeOK'
    BY <1>6 DEF LoopRequest, Subscribe, Unsubscribe, Topics
  <1>7. CASE UNCHANGED linkVars
    BY <1>7 DEF linkVars
  <1>. QED  BY <1>1, <1>2, <1>3, <1>4, <1>5, <1>6, <1>7 DEF LinkNext, LinkStep, Callback

LEMMA LinkInvHolds == LinkSpec => [](LinkTypeOK /\ LinkInv)
  BY LinkStarts, LinkTypeKeeps, LinkStepKeeps, PTL DEF LinkSpec

(* A link that is up, with its callback done, delivers telemetry and       *)
(* vetoes, however often it was lost or refused before.                    *)
THEOREM VetoTopicIsHeard == LinkSpec => []ListensWhenUp
  <1>1. LinkInv => ListensWhenUp
    BY PositionsDiffer DEF LinkInv, ListensWhenUp, Arranged
  <1>. QED  BY <1>1, LinkInvHolds, PTL

(* The flag on the dashboards and the client agree with the link once its  *)
(* last change has been reported.                                          *)
THEOREM FlagsAreRight == LinkSpec => []FlagsTellLink
  <1>1. LinkInv => FlagsTellLink
    BY PositionsDiffer DEF LinkInv, FlagsTellLink, Arranged
  <1>. QED  BY <1>1, LinkInvHolds, PTL
=============================================================================
