------------------------------ MODULE MCCalls -------------------------------
(***************************************************************************)
(* Reply routing and the vendor database in one model.  They share nothing *)
(* and run one or the other: side says which, and never changes.           *)
(***************************************************************************)
EXTENDS ReplyRouting, OuiDb

VARIABLE side

\* Two vendors' prefixes of three octets, and a block of one of them.
SomeOuis == {<<0, 80, 194>>, <<0, 80, 195>>, <<0, 80, 194, 16>>}

\* An address of each, one of nobody, and one of eight octets.
SomeAddresses ==
  {<<0, 80, 194, 16, 1, 2>>, <<0, 80, 195, 0, 0, 1>>, <<0, 81, 194, 0, 0, 1>>,
   <<0, 80, 194, 16, 1, 2, 3, 4>>}

Routing == side = "routing" /\ RouteNext /\ UNCHANGED <<ouiVars, side>>
Vendor == side = "vendor" /\ OuiNext /\ UNCHANGED <<routeVars, side>>

Init ==
  /\ RouteInit
  /\ OuiInit
  /\ side \in {"routing", "vendor"}
  /\ side = "vendor" => srv = (CHOOSE s \in Server : TRUE)
                        /\ req = (CHOOSE r \in Request : TRUE)

Next == Routing \/ Vendor

Spec == Init /\ [][Next]_<<routeVars, ouiVars, side>>

=============================================================================
