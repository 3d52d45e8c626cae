---------------------------- MODULE MCDiscovery -----------------------------
(* Discovery for TLC: three pools, relays shared by two of them, and a      *)
(* ledger that changes once.                                                *)
EXTENDS Discovery, TLC

Names(type, domain, ipv4, ipv6, port) ==
  [type |-> type, domain |-> domain, ipv4 |-> ipv4, ipv6 |-> ipv6, port |-> port]
IPv4(n, port) == Names("ipv4", 0, n, 0, port)
IPv6(n, port) == Names("ipv6", 0, 0, n, port)
Domain(n, port) == Names("domain", n, 0, 0, port)

(* Shares of a stake of 27 in all. *)
Pool(pool, stake, relays) ==
  [pool |-> pool, stake |-> stake, share |-> [num |-> stake, den |-> 27], relays |-> relays]

Relays1 == <<IPv4(1, 0), Domain(2, 0)>>
Relays2 == <<Names("srv", 3, 0, 0, 0), Names("none", 0, 0, 0, 0), Domain(0, 3001), IPv6(4, 4001)>>
Relays3 == <<Domain(2, 3001), Domain(5, 4001)>>

(* Relays with more than one name. *)
Relays4 == <<Names("ipv4", 0, 1, 4, 3001), Names("domain", 2, 1, 0, 0), Names("none", 5, 0, 4, 4001)>>

(* Nine tenths exactly and nearly, ties, pools without stake, no stake.    *)
MCStakes == {<<9, 1, 0>>, <<9, 1, 1>>, <<0, 0, 0>>, <<10, 10, 1>>, <<1, 9, 10>>, <<0, 5, 5>>}

(* In the second ledger pool 2 is gone, and pool 1 has two entries; or      *)
(* there is no pool.                                                        *)
MCChains ==
  LET first(s) == <<Pool(1, s[1], Relays1), Pool(2, s[2], Relays2), Pool(3, s[3], Relays3)>>
      second(s) == <<Pool(1, s[2], Relays3), Pool(3, s[1], Relays2), Pool(1, s[3], Relays1)>>
  IN {<<first(s), second(s)>> : s \in MCStakes} \cup {<< <<Pool(1, 9, Relays4)>>, <<>> >>}

Config(enabled, allow, provider, auth) ==
  [enabled |-> enabled, allowUnsupported |-> allow, provider |-> provider,
   authenticatorMissing |-> auth]
MCConfigs ==
  {Config(TRUE, allow, provider, FALSE) :
     allow \in BOOLEAN, provider \in {"none", "denied", "query"}}
  \cup {Config(TRUE, TRUE, provider, FALSE) : provider \in {"staked", "relay", "unset"}}
  \cup {Config(FALSE, FALSE, "none", FALSE), Config(FALSE, FALSE, "none", TRUE)}

MCTopology == [localRoots |-> <<<<1, 3001>>>>, publicRoots |-> <<<<5, 3001>>, <<5, 3001>>>>,
               bootstrapPeers |-> <<<<5, 3001>>>>]

Static(source, host, port, addr) ==
  [source |-> source, host |-> host, port |-> port, addr |-> addr, pool |-> 0, stake |-> 0]
MCStaticPeers ==
  <<Static("static", 4, 3001, <<0, 0>>), Static("", 2, 0, <<2, 3001>>),
    Static("static", 0, 0, <<0, 0>>)>>

MCSymmetry == Permutations(Callers)

MCQuota == [topology |-> 2, sharing |-> 1, ledger |-> 2, big |-> 0]
=============================================================================
