------------------------- MODULE ReplyRoutingProofs -------------------------
(***************************************************************************)
(* Theorems about ReplyRouting for any number of networks.                 *)
(***************************************************************************)
EXTENDS ReplyRouting, TLAPS

\* Between the arrival of a datagram and the next, the interface that was
\* chosen is the one Interface names for it; a reply has left only when Handle
\* is through with it; and the process is down only for want of an interface.
Chosen == IF GivesInterface(req) THEN Interface ELSE NoLink

RoutingInv ==
  /\ RouteTypeOK
  /\ (at \in {"serve", "choose", "frame", "write"} \/ sent # Nothing) => Arrives(req)
  /\ at \in {"frame", "write"} => woob = Chosen
  /\ at = "frame" => p \in Peers
  /\ at # "idle" => sent = Nothing
  /\ at = "down" => srv.bound = NoLink /\ ~srv.informs
  /\ ReplyReachesClient

\* The interface a reply is sent on, if there is one, is on the network its
\* request came from.
LEMMA InterfaceIsClients ==
  ASSUME srv \in Server, req \in Request, Arrives(req), Interface # NoLink
  PROVE  Interface = req.link
BY DEF Interface, Arrives

LEMMA InterfaceType ==
  ASSUME srv \in Server, req \in Request
  PROVE  Interface \in Links \cup {NoLink}
BY DEF Interface, Server, Request

LEMMA RoutingInit == RouteInit => RoutingInv
BY DEF RouteInit, RoutingInv, RouteTypeOK, Nothing, Replies, ReplyReachesClient

LEMMA RoutingNext == RoutingInv /\ [RouteNext]_routeVars => RoutingInv'
<1> SUFFICES ASSUME RoutingInv, [RouteNext]_routeVars PROVE RoutingInv'
  OBVIOUS
<1> USE DEF RoutingInv
<1>1. CASE Serve
  BY <1>1 DEF Serve, RouteTypeOK, Replies, Nothing, ReplyReachesClient, Arrives
<1>2. CASE Ignore
  BY <1>2 DEF Ignore, Drop, RouteTypeOK, ReplyReachesClient, Heard, LeftToRoutes, Arrives
<1>3. CASE Answer
  BY <1>3 DEF Answer, RouteTypeOK, ReplyReachesClient, Heard, LeftToRoutes, Arrives
<1>4. CASE Choose
  <2>1. /\ at = "choose" /\ p' = Peer(req) /\ woob' = Chosen
        /\ UNCHANGED <<srv, req, sent>>
        /\ at' = CASE ~UseEthernet(req) -> "write"
                   [] UseEthernet(req) /\ woob' # NoLink -> "frame"
                   [] OTHER -> "down"
    BY <1>4 DEF Choose, Chosen
  <2>2. srv \in Server /\ req \in Request /\ sent = Nothing /\ Arrives(req)
    BY <2>1 DEF RouteTypeOK
  <2>3. woob' \in Links \cup {NoLink} /\ p' \in Peers
    BY <2>1, <2>2, InterfaceType DEF Chosen, Peer, Peers
  <2>4. /\ at' \in {"write", "frame", "down"}
        /\ at' = "frame" => woob' # NoLink
        /\ at' = "down" => UseEthernet(req) /\ woob' = NoLink
    BY <2>1
  <2>5. at' = "down" => srv.bound = NoLink /\ ~srv.informs
    <3> SUFFICES ASSUME at' = "down" PROVE srv.bound = NoLink /\ ~srv.informs
      OBVIOUS
    <3>1. Interface = NoLink
      BY <2>1, <2>4 DEF Chosen, GivesInterface
    <3> QED BY <3>1, <2>2, RoutingAssumption DEF Interface, Server, Request
  <2>6. RouteTypeOK'
    BY <2>1, <2>2, <2>3, <2>4 DEF RouteTypeOK, Replies
  <2>7. ReplyReachesClient' /\ Arrives(req)' /\ Chosen' = Chosen
    BY <2>1, <2>2 DEF ReplyReachesClient, Nothing, Arrives, Chosen, Interface,
                      GivesInterface, UseEthernet, Peer
  <2> QED BY <2>1, <2>2, <2>3, <2>4, <2>5, <2>6, <2>7
<1>5. CASE SendEthernet
  <2>1. /\ at = "frame" /\ at' = "idle" /\ UNCHANGED <<srv, req, p, woob>>
        /\ sent' = [how |-> "frame", to |-> p, link |-> woob]
    BY <1>5 DEF SendEthernet
  <2>2. srv \in Server /\ req \in Request /\ Arrives(req) /\ woob = Chosen
        /\ woob # NoLink
    BY <2>1 DEF RouteTypeOK
  <2>3. woob = req.link
    BY <2>2, InterfaceIsClients DEF Chosen
  <2>4. woob \in Links /\ p \in Peers
    BY <2>1, <2>2 DEF RouteTypeOK
  <2>5. sent' \in Replies
    BY <2>1, <2>4 DEF Replies
  <2>6. RouteTypeOK'
    BY <2>1, <2>5 DEF RouteTypeOK
  <2>7. ReplyReachesClient'
    BY <2>1, <2>3 DEF ReplyReachesClient, Heard
  <2> QED BY <2>1, <2>2, <2>6, <2>7 DEF Arrives
<1>6. CASE FallBack
  BY <1>6
     DEF FallBack, RouteTypeOK, Peers, ReplyReachesClient, Heard, LeftToRoutes, Arrives,
         Nothing, Chosen, Interface
<1>7. CASE WriteTo
  <2> DEFINE Out == CASE woob # NoLink -> woob
                      [] woob = NoLink /\ srv.bound # NoLink -> srv.bound
                      [] OTHER -> srv.default
  <2>1. /\ at = "write" /\ at' = "idle" /\ UNCHANGED <<srv, req, woob>>
        /\ p' = "broadcast"
        /\ sent' = [how |-> "datagram", to |-> "broadcast", link |-> Out]
    BY <1>7 DEF WriteTo
  <2>2. /\ srv \in Server /\ req \in Request /\ Arrives(req) /\ woob = Chosen
        /\ woob \in Links \cup {NoLink}
    BY <2>1 DEF RouteTypeOK
  <2>3. Out \in Links
    BY <2>2 DEF Server
  <2>4. ASSUME ~req.relayed, ~LeftToRoutes
        PROVE  Out = req.link
    <3>1. CASE woob # NoLink
      BY <2>2, <3>1, InterfaceIsClients DEF Chosen
    <3>2. CASE woob = NoLink /\ srv.bound # NoLink
      BY <2>2, <3>2 DEF Arrives
    <3>3. CASE woob = NoLink /\ srv.bound = NoLink
      <4>1. srv.informs /\ GivesInterface(req)
        BY <2>4, <3>3, <2>2 DEF LeftToRoutes, GivesInterface, UseEthernet, Peer, Request
      <4> QED BY <4>1, <3>3, <2>2, RoutingAssumption DEF Chosen, Interface, Request
    <3> QED BY <3>1, <3>2, <3>3
  <2>5. ASSUME ~req.relayed, LeftToRoutes
        PROVE  Out = srv.default
    <3>1. srv.informs => ~GivesInterface(req)
      BY <2>2, <2>5 DEF LeftToRoutes, GivesInterface, UseEthernet, Peer, Request
    <3>2. woob = NoLink
      BY <3>1, <2>2, <2>5 DEF Chosen, Interface, LeftToRoutes
    <3> QED BY <3>2, <2>5 DEF LeftToRoutes
  <2>6. ReplyReachesClient'
    BY <2>1, <2>4, <2>5 DEF ReplyReachesClient, Heard, LeftToRoutes
  <2>7. RouteTypeOK'
    BY <2>1, <2>3 DEF RouteTypeOK, Replies, Peers
  <2> QED BY <2>1, <2>2, <2>6, <2>7 DEF Arrives
<1>8. CASE WriteFails
  BY <1>8 DEF WriteFails, Drop, RouteTypeOK, ReplyReachesClient, Heard, LeftToRoutes, Arrives
<1>9. CASE Boot
  BY <1>9 DEF Boot, RouteTypeOK, Replies, Nothing, ReplyReachesClient, Arrives
<1>10. CASE UNCHANGED routeVars
  BY <1>10
     DEF routeVars, RouteTypeOK, ReplyReachesClient, Heard, LeftToRoutes, Arrives,
         Chosen, Interface
<1> QED
  BY <1>1, <1>2, <1>3, <1>4, <1>5, <1>6, <1>7, <1>8, <1>9, <1>10 DEF RouteNext

\* Every reply that leaves is sent on the network of the client that asked, unless
\* a relay passed the request on, or the socket is bound to no interface and either
\* the kernel does not say where datagrams come from or the client has an address
\* that is not link-local: then it goes where the routing table sends broadcasts.
THEOREM RepliesArrive == RouteSpec => []ReplyReachesClient
<1>1. RoutingInv => ReplyReachesClient
  BY DEF RoutingInv
<1> QED BY <1>1, RoutingInit, RoutingNext, PTL DEF RouteSpec

\* A request ends the process only where neither the socket nor the kernel names
\* an interface.
THEOREM RequestsDoNotKill == RouteSpec => []NoRequestKills
<1>1. RoutingInv => NoRequestKills
  BY DEF RoutingInv, NoRequestKills
<1> QED BY <1>1, RoutingInit, RoutingNext, PTL DEF RouteSpec

\* Every reachable state is well typed; in particular a frame is sent, and a
\* reply leaves, on an interface.
THEOREM RoutingTyped == RouteSpec => []RouteTypeOK
<1>1. RoutingInv => RouteTypeOK
  BY DEF RoutingInv
<1> QED BY <1>1, RoutingInit, RoutingNext, PTL DEF RouteSpec

=============================================================================
