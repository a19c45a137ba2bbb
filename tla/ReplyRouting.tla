---------------------------- MODULE ReplyRouting ----------------------------
(***************************************************************************)
(* handler4.Handle: what becomes of one datagram, from its arrival to the  *)
(* frame or datagram that answers it, and on which network it goes out.    *)
(* The handlers' decision is reduced to whether there is a reply and       *)
(* whether it carries an address (DhcpServer has the rest).                *)
(***************************************************************************)
EXTENDS Naturals

CONSTANTS
  Links,        \* the networks the host has an interface on
  NoLink        \* no interface: index 0, or no control message

\* What a datagram and its reply are reduced to.
Request ==
  [link : Links,          \* where the client, or its relay, is
   valid : BOOLEAN,       \* it parses, and is a boot request of a handled type
   relayed : BOOLEAN,     \* giaddr is set
   addressed : BOOLEAN,   \* ciaddr is set
   broadcast : BOOLEAN,   \* the broadcast flag is set
   linkLocal : BOOLEAN,   \* the relay's or the client's address is link-local
   answer : {"none", "panic", "empty", "address"}]   \* what the handler makes

\* The host and its configuration.
Server ==
  [listenOnly : BOOLEAN,
   bound : Links \cup {NoLink},  \* the interface the socket is bound to
   default : Links,              \* where the routing table sends broadcasts
   informs : BOOLEAN,            \* the kernel says where a datagram came from
   named : BOOLEAN,              \* instance.ip is an address
   raw : BOOLEAN]                \* raw frames can be sent (Linux, privileges)

ASSUME RoutingAssumption == NoLink \notin Links

VARIABLES
  srv,     \* the server
  req,     \* the datagram being handled
  at,      \* where Handle is
  p,       \* the peer the reply is for
  woob,    \* the interface of the control message to send with, or NoLink
  sent     \* the reply: how it left, to whom, and on which link

routeVars == <<srv, req, at, p, woob, sent>>

Peers == {"relay", "client", "broadcast"}

Nothing == [how |-> "nothing", to |-> "nobody", link |-> NoLink]
Replies ==
  {Nothing} \cup [how : {"frame", "datagram"}, to : Peers, link : Links]

RouteTypeOK ==
  /\ srv \in Server
  /\ req \in Request
  /\ at \in {"idle", "serve", "choose", "frame", "write", "down"}
  /\ p \in Peers \cup {"nobody"}
  /\ woob \in Links \cup {NoLink}
  /\ at = "frame" => woob # NoLink
  /\ sent \in Replies

\* A socket bound to an interface receives from it only.
Arrives(r) == srv.bound # NoLink => r.link = srv.bound

RouteInit ==
  /\ srv \in Server
  /\ req \in Request
  /\ at = "idle"
  /\ p = "nobody"
  /\ woob = NoLink
  /\ sent = Nothing

(***************************************************************************)
(* Handle.                                                                 *)
(***************************************************************************)

Drop == at' = "idle" /\ UNCHANGED <<srv, req, p, woob, sent>>

\* Serve reads a datagram and starts a goroutine on it.
Serve ==
  /\ at = "idle"
  /\ req' \in Request /\ Arrives(req')
  /\ at' = "serve"
  /\ p' = "nobody"
  /\ woob' = NoLink
  /\ sent' = Nothing
  /\ UNCHANGED srv

\* Mutant: a panic of a handler is not recovered.
IgnoreUnrecovered ==
  /\ at = "serve"
  /\ srv.listenOnly \/ ~req.valid \/ req.answer \in {"none", "panic"}
  /\ at' = IF req.valid /\ ~srv.listenOnly /\ req.answer = "panic"
             THEN "down" ELSE "idle"
  /\ UNCHANGED <<srv, req, p, woob, sent>>

\* Listen-only mode, a datagram that does not parse, one that is no boot request
\* or of a type without a handler, a handler without a reply, and one that
\* panics, which recoverMiddleware4 turns into no reply.
Ignore ==
  /\ at = "serve"
  /\ srv.listenOnly \/ ~req.valid \/ req.answer \in {"none", "panic"}
  /\ Drop

Answer ==
  /\ at = "serve"
  /\ ~(srv.listenOnly \/ ~req.valid \/ req.answer \in {"none", "panic"})
  /\ at' = "choose"
  /\ UNCHANGED <<srv, req, p, woob, sent>>

\* useEthernet: a client that can only be reached by its MAC address.  (There
\* is no branch for NAKs: no handler makes one.)
UseEthernet(r) == ~r.relayed /\ ~r.addressed /\ ~r.broadcast

\* The address a request from a relay came from; else the client's, which is
\* ciaddr or what the reply gives it; else the broadcast address.
Peer(r) ==
  CASE r.relayed -> "relay"
    [] ~r.relayed /\ (r.addressed \/ ~r.broadcast) -> "client"
    [] OTHER -> "broadcast"

\* The interface to send on is only given for broadcasts, link-local addresses
\* and frames.
GivesInterface(r) ==
  \/ UseEthernet(r)
  \/ Peer(r) = "broadcast"
  \/ (r.relayed \/ r.addressed) /\ r.linkLocal

\* Mutant: the control message is not consulted.
InterfaceBound == srv.bound

\* The bound interface, else the one of the control message, which is asked for
\* only if the socket is not bound.
Interface ==
  IF srv.bound # NoLink THEN srv.bound
  ELSE IF srv.informs THEN req.link ELSE NoLink

\* Without an interface the reply to such a client dereferences a nil woob,
\* after the handler and its recover have returned: the process dies.
Choose ==
  /\ at = "choose"
  /\ p' = Peer(req)
  /\ woob' = IF GivesInterface(req) THEN Interface ELSE NoLink
  /\ at' = CASE ~UseEthernet(req) -> "write"
             [] UseEthernet(req) /\ woob' # NoLink -> "frame"
             [] OTHER -> "down"
  /\ UNCHANGED <<srv, req, sent>>

\* sendEthernet: gopacket refuses to serialise a packet without a source or a
\* destination address, and the raw socket may be refused.
SendEthernet ==
  /\ at = "frame"
  /\ srv.named /\ srv.raw /\ req.answer = "address"
  /\ sent' = [how |-> "frame", to |-> p, link |-> woob]
  /\ at' = "idle"
  /\ UNCHANGED <<srv, req, p, woob>>

\* InterfaceByIndex or sendEthernet fails, for these or for other reasons.
FallBack ==
  /\ at = "frame"
  /\ at' = "write"
  /\ p' = "broadcast"
  /\ UNCHANGED <<srv, req, woob, sent>>

\* Mutant: interface index 0 is sent on like any other.
WriteToIndex ==
  /\ at = "write"
  /\ p' = "broadcast"
  /\ sent' = [how |-> "datagram", to |-> p', link |-> woob]
  /\ at' = "idle"
  /\ UNCHANGED <<srv, req, woob>>

\* Mutant: the reply is written without the control message.
WriteToDefault ==
  /\ at = "write"
  /\ p' = "broadcast"
  /\ sent' = [how |-> "datagram", to |-> p',
              link |-> IF srv.bound # NoLink THEN srv.bound ELSE srv.default]
  /\ at' = "idle"
  /\ UNCHANGED <<srv, req, woob>>

\* Whatever was chosen above, the datagram is broadcast to the client port: on
\* the interface of the control message, or of the socket, or of the routing
\* table.
WriteTo ==
  /\ at = "write"
  /\ p' = "broadcast"
  /\ sent' = [how |-> "datagram", to |-> p',
              link |-> CASE woob # NoLink -> woob
                         [] woob = NoLink /\ srv.bound # NoLink -> srv.bound
                         [] OTHER -> srv.default]
  /\ at' = "idle"
  /\ UNCHANGED <<srv, req, woob>>

\* WriteTo fails.
WriteFails == at = "write" /\ Drop

\* Somebody starts the process again.
Boot ==
  /\ at = "down"
  /\ at' = "idle"
  /\ p' = "nobody"
  /\ woob' = NoLink
  /\ sent' = Nothing
  /\ UNCHANGED <<srv, req>>

RouteNext ==
  \/ Serve \/ Ignore \/ Answer
  \/ Choose
  \/ SendEthernet \/ FallBack
  \/ WriteTo \/ WriteFails
  \/ Boot

RouteSpec == RouteInit /\ [][RouteNext]_routeVars

(***************************************************************************)
(* Properties.                                                             *)
(***************************************************************************)

\* A client hears what is sent on its link; a relay listens on the server port
\* of its own address, and hears none of it.
Heard == ~req.relayed /\ sent.link = req.link

\* Handle leaves it to the routing table where a reply goes: the socket is bound
\* to no interface, and either the kernel does not say where datagrams come from,
\* or the client has an address (ciaddr), which is not link-local.
LeftToRoutes ==
  srv.bound = NoLink /\ (~srv.informs \/ (req.addressed /\ ~req.linkLocal))

\* A reply that leaves reaches the client that asked, whichever of the two ways
\* it takes and whichever fails first, with two exceptions: a relay passed the
\* request on, or Handle leaves the link to the routing table (LeftToRoutes),
\* and then it is the one where the table sends broadcasts.
ReplyReachesClient ==
  sent.how # "nothing" =>
    \/ Heard
    \/ req.relayed
    \/ LeftToRoutes /\ sent.link = srv.default

\* No request ends the process as long as the socket is bound to an interface
\* or the kernel names the one a datagram came from: a handler's panic is
\* recovered, and woob is never nil where it is dereferenced.
NoRequestKills ==
  srv.bound # NoLink \/ srv.informs => at # "down"

\* A request that comes through a relay is answered through it, as the comment
\* in Handle says: the reply goes to the address the request came from.
RelayIsAnswered == sent.how # "nothing" /\ req.relayed => sent.to = "relay"

=============================================================================
