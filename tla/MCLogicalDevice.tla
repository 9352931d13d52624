--------------------------- MODULE MCLogicalDevice ---------------------------
(* Two subscribers with their flows, 802.1X and one multicast stream.      *)
EXTENDS LogicalDevice

MCUnis == {5, 6}

Service(u) == <<UpInner(u), UpOuter(u, SVid), DownOuter(u), DownInner(u)>>

MCProvisioned == Service(5) \o Service(6) \o <<ToController, Multicast(1)>>

(* One subscriber may be moved to another outer tag.                       *)
MCFlowMods == ToSet(MCProvisioned) \cup {UpOuter(5, SVid + 1)}

MCBucketLists ==
    { <<>>,
      << [out |-> 5, acts |-> <<>>] >>,
      << [out |-> 5, acts |-> <<>>], [out |-> 6, acts |-> <<>>] >> }
=============================================================================
