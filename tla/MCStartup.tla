----------------------------- MODULE MCStartup ------------------------------
(***************************************************************************)
(* Startup with small configuration files.                                 *)
(***************************************************************************)
EXTENDS Startup

\* Every kind of port string: one port, a range, none, and what is neither,
\* with the ports next to the limits.
PortStrings ==
  {<<>>, <<1, 2, 3>>} \cup {<<p>> : p \in {NaN} \cup 0..(MaxPort + 1)}
    \cup {<<p, q>> : p, q \in {NaN} \cup 0..(MaxPort + 1)}

\* One entry with any two port strings; two entries with names that may
\* be equal when they are expanded.
MCProxyLists ==
  {<<>>}
  \cup {<<[Name |-> <<"web">>, LocalPort |-> l, RemotePort |-> r]>> :
          l, r \in PortStrings}
  \cup [1..2 -> [Name : {<<"web">>, <<"web", 0>>, <<"web", 1>>},
                 LocalPort : {<<1>>, <<1, 2>>},
                 RemotePort : {<<2>>, <<2, 3>>}]]
=============================================================================
