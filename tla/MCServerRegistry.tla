-------------------------- MODULE MCServerRegistry --------------------------
(***************************************************************************)
(* Instances of ServerRegistry for TLC.                                    *)
(***************************************************************************)
EXTENDS ServerRegistry, TLC

CONSTANTS
  h1, h2,         \* connections
  tokA, tokB,     \* tokens with the same first 8 bytes
  tokC,           \* a token with another prefix
  tokS,           \* a token of fewer than 8 bytes
  idA, idS,       \* client ids
  web, ssh        \* proxy names

\* Reconnects of one client, and one short token.
MCTokens == {tokA, tokS}
MCClientID == [t \in MCTokens |-> IF t = tokS THEN idS ELSE idA]

\* Reconnects of one client, which may use either of two tokens that have
\* the same id.
MCTokens1 == {tokA, tokB}
MCClientID1 == [t \in MCTokens1 |-> idA]

\* Two clients with different ids that want the same port.
MCTokens2 == {tokA, tokC}
MCClientID2 == [t \in MCTokens2 |-> t]

\* Every proxy has a port of its own; ports and ids are only compared.
MCPort == [n \in Names |-> n]

\* Connections are interchangeable; so are the names (which stand for their
\* ports too), and the tokens (which stand for their ids) of MCTokens2.
Symm == Permutations(Handlers)
SymmAll == Symm \cup Permutations(Names) \cup Permutations(MCTokens2)
=============================================================================
