------------------------- MODULE MCOpportunityScan -------------------------
(* Small instances of OpportunityScan: two pools of the pair (t1, t2) on   *)
(* two venues, both of which DexScreener lists for either token.           *)
EXTENDS OpportunityScan, TLC

CONSTANTS p, q, t1, t2, v1, v2, s1, s2, r

BothLists == [t \in Token |-> {p, q}]
Venues == (p :> v1) @@ (q :> v2)
Estimates == (p :> 20000) @@ (q :> 200)

Both(a, b) == (p :> a) @@ (q :> b)
Setting(actors, order, venues, may, listings, markets) ==
  [actors |-> actors, order |-> order, venues |-> venues, may |-> may,
   listings |-> listings, markets |-> markets]

\* Two scans over a listing that changes, a scan and a reader over one, two
\* scans and a scan of two tokens whose requests fail, and a scan with all that
\* may go wrong with pools and quotes.
Dying == {Both(20000, 20000), Both(50, 20000)}

SafetySettings ==
  { Setting({s1, s2}, <<t1>>, {v1}, {"relist"}, Dying, {Both(105, 100)}),
    Setting({s1, r}, <<t1>>, {}, {"relist", "throw"}, Dying, {Both(105, 100)}),
    Setting({s1, s2}, <<t1>>, Venue, {"retry", "throw"}, {Both(50, 0)}, {Both(105, 105)}),
    Setting({s1}, <<t1, t2>>, {v1}, {"relist", "throw"}, Dying, {Both(105, 105)}),
    Setting({s1}, <<t1>>, Venue, {"trade", "adapter", "quote", "scan"}, [Pool -> {0, 50, 20000}],
            [Pool -> Price]) }

\* One scan of V3 pools in a market that stands still.
QuietSettings ==
  {Setting({s1}, <<t1>>, Venue, {"quote"}, {Both(20000, 20000)}, [Pool -> Price])}
=============================================================================
