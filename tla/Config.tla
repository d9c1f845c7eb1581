------------------------------- MODULE Config -------------------------------
(***************************************************************************)
(* The configuration files (pkg/config/config.go) and what is made of      *)
(* them (transport.New, crypto.New), as operators.                         *)
(*                                                                         *)
(* A port string is the sequence of its parts between the dashes, each a   *)
(* number or NaN, and <<>> when it is empty.  A name is a tuple of its     *)
(* parts between the underscores: <<"web", 0>> is "web_0".                 *)
(***************************************************************************)
EXTENDS Integers, Sequences, SequencesExt

CONSTANTS
  MaxPort,      \* 65535
  MaxTunnels,   \* 32
  DefTunnels    \* 8

ASSUME ConfigAssumption ==
  /\ MaxPort \in Nat \ {0} /\ MaxTunnels \in Nat /\ DefTunnels \in 1..MaxTunnels

NaN == -1
Invalid == [Start |-> 0, End |-> 0]   \* instead of an error

InRange(p) == p >= 1 /\ p <= MaxPort

\* ParsePortRange
ParsePortRange(s) ==
  IF /\ Len(s) \in {1, 2}
     /\ InRange(s[1]) /\ InRange(s[Len(s)]) /\ s[1] <= s[Len(s)]
  THEN [Start |-> s[1], End |-> s[Len(s)]]
  ELSE Invalid

Count(r) == r.End - r.Start + 1

\* Deliberate bug: the last port is left out.
PortsShort(r) == [i \in 1..(r.End - r.Start) |-> r.Start + i - 1]

Ports(r) == [i \in 1..Count(r) |-> r.Start + i - 1]

\* Expand fails: an invalid range, or ranges of different sizes.
ExpandFails(p) ==
  LET l == ParsePortRange(p.LocalPort)
      r == ParsePortRange(p.RemotePort)
  IN l = Invalid \/ r = Invalid \/ Count(l) # Count(r)

\* Expand: one proxy per pair of ports, numbered when there are several.
Expand(p) ==
  LET l == Ports(ParsePortRange(p.LocalPort))
      r == Ports(ParsePortRange(p.RemotePort))
  IN [i \in 1..Len(l) |->
        [Name |-> IF Len(l) > 1 THEN Append(p.Name, i - 1) ELSE p.Name,
         LocalPort |-> l[i], RemotePort |-> r[i]]]

\* client.New: the expanded proxies of all entries by name, the last one
\* of a name stays.
ProxyTable(list) ==
  LET all == FlattenSeq([i \in 1..Len(list) |-> Expand(list[i])])
      names == {all[i].Name : i \in 1..Len(all)}
  IN [n \in names |-> LET last == SelectLastInSeq(all, LAMBDA e : e.Name = n)
                      IN all[last]]

\* LoadServerConfig and LoadClientConfig refuse settings.
Tunnels(s) == IF s.tunnels <= 0 THEN DefTunnels ELSE s.tunnels
LoadFails(s) == s.mtmux /\ (Tunnels(s) > MaxTunnels \/ s.transport = "quic")

\* LoadServerConfig and LoadClientConfig fill in the defaults.
Defaults(s) ==
  [s EXCEPT !.transport = IF @ = "" THEN "net" ELSE @,
            !.crypto = IF @ = "" THEN "tls" ELSE @,
            !.tunnels = IF s.mtmux THEN Tunnels(s) ELSE @]

\* transport.New and transport.NewWithQUICConfig
TransportNew(t) == IF t \in {"gnet", "quic"} THEN t ELSE "net"

\* crypto.New
CryptoNew(t) == IF t \in {"chacha20", "none"} THEN t ELSE "tls"

\* The encryption server.New and client.New choose: none over QUIC.
CryptOf(cfg) == IF cfg.transport = "quic" THEN "none" ELSE CryptoNew(cfg.crypto)
=============================================================================
