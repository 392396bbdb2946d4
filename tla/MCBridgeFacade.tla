--------------------------- MODULE MCBridgeFacade ---------------------------
(***************************************************************************)
(* Instances of BridgeFacade.                                               *)
(***************************************************************************)
EXTENDS BridgeFacade

Entry(key, case, bytes) == [key |-> key, case |-> case, bytes |-> bytes]

\* None, one, two at both limits, two keys that differ in case, one too many,
\* and a byte too many.
MCConfigs ==
    {<<>>, <<Entry("root", "lower", 1)>>,
     <<Entry("root", "lower", 2), Entry("bucket", "lower", 2)>>,
     <<Entry("root", "lower", 1), Entry("root", "upper", 1)>>,
     <<Entry("root", "lower", 1), Entry("bucket", "lower", 1), Entry("region", "lower", 1)>>,
     <<Entry("root", "lower", 2), Entry("bucket", "lower", 3)>>}

\* Around both limits of a listing.
MCListings == {<<>>, <<1>>, <<2, 2>>, <<2, 3>>, <<5>>, <<1, 1, 1>>}
=============================================================================
