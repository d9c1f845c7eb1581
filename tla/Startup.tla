------------------------------- MODULE Startup ------------------------------
(***************************************************************************)
(* The start of a server and of a client that are configured alike, up to  *)
(* the encrypted connection between them, with crashes and restarts of the *)
(* server: main, config.Load*, server.New, client.New, CertManager         *)
(* (pkg/crypto/cert.go) and WrapConn of TLSCrypto (tls_crypto.go).         *)
(*                                                                         *)
(* A certificate and its key are the two halves of an identity, a number.  *)
(* The manager keeps them in two files, which os.WriteFile truncates       *)
(* before it writes, and which survive a crash.                            *)
(***************************************************************************)
EXTENDS Config, FiniteSets

CONSTANTS
  Transports, Cryptos,   \* what the files may say, "" for nothing
  TunnelCounts,          \* the mtmux.tunnels the files may say
  ProxyLists,            \* the proxies the client's file may list
  MaxStarts              \* bound: starts of the server

\* A tuple of anything.
Tuple(s) == Len(s) \in Nat /\ s = [j \in 1..Len(s) |-> s[j]]

ASSUME StartupAssumption == MaxStarts \in Nat /\ <<>> \in ProxyLists
ASSUME ListsAssumption ==
  \A l \in ProxyLists :
    /\ Tuple(l)
    /\ \A i \in 1..Len(l) :
         Tuple(l[i].Name) /\ {l[i].LocalPort, l[i].RemotePort} \subseteq Seq(Int)

Settings == [transport : Transports, crypto : Cryptos, mtmux : BOOLEAN,
             tunnels : TunnelCounts]

\* Contents of a file besides half an identity, and the operator's identity.
Absent == -1
Torn == -2
Operator == 0
Identities == 0..MaxStarts

VARIABLES
  settings,    \* the common part of the two files
  certPath,    \* the cert_file of the server's file is not empty
  keyPath,     \* its key_file is not empty
  skipVerify,  \* the skip_verify of the client's file
  caCert,      \* its ca_cert: "", "missing" or "file"
  caSigned,    \* an authority of the client's system has signed the
               \* operator's certificate, for the server's address
  list,        \* its proxies
  certFile,    \* what the file of the certificate holds
  keyFile,     \* what the file of the key holds
  server,      \* where the server is
  identity,    \* what CertManager holds, Absent without a manager
  starts,      \* starts of the server
  saveFailed,  \* saveCert has failed in this start
  failures,    \* history: failed saves
  client,      \* "down", "up", "refused"
  proxies,     \* Client.proxies
  conn,        \* the last connection: "none", "secured", "failed"
  seen         \* history: the identities clients were shown

fileVars == <<settings, certPath, keyPath, skipVerify, caCert, caSigned, list>>
diskVars == <<certFile, keyFile>>
serverVars == <<server, identity, starts, saveFailed, failures>>
clientVars == <<client, proxies>>
vars == <<fileVars, diskVars, serverVars, clientVars, conn, seen>>

SaveSteps == {"cert", "certdata", "key", "keydata"}
Contents == Identities \cup {Absent, Torn}

TypeOK ==
  /\ settings \in Settings
  /\ {certPath, keyPath, skipVerify, caSigned, saveFailed} \subseteq BOOLEAN
  /\ caCert \in {"", "missing", "file"}
  /\ certFile \in Contents /\ keyFile \in Contents
  /\ server \in {"down", "refused", "pair", "up"} \cup SaveSteps
  /\ identity \in Identities \cup {Absent}
  /\ starts \in 0..MaxStarts /\ failures \in 0..MaxStarts
  /\ client \in {"down", "up", "refused"}
  /\ conn \in {"none", "secured", "failed"}
  /\ seen \subseteq Identities

\* The files are there when both paths are given.  To keep the runs small
\* the proxies vary with one of the settings only.
Init ==
  /\ settings \in {s \in Settings : s.mtmux \/ \A n \in TunnelCounts : s.tunnels <= n}
  /\ certPath \in BOOLEAN /\ keyPath \in BOOLEAN
  /\ skipVerify \in BOOLEAN /\ caCert \in {"", "missing", "file"}
  /\ caSigned \in BOOLEAN /\ (caSigned => certPath /\ keyPath)
  /\ list \in ProxyLists
  /\ \/ list = <<>>
     \/ /\ settings.transport = "" /\ settings.crypto = "" /\ ~settings.mtmux
        /\ ~certPath /\ ~keyPath /\ skipVerify /\ caCert = ""
  /\ certFile \in (IF certPath /\ keyPath THEN {Absent, Operator} ELSE {Absent})
  /\ keyFile \in (IF certPath /\ keyPath THEN {Absent, Operator} ELSE {Absent})
  /\ server = "down" /\ identity = Absent /\ starts = 0
  /\ saveFailed = FALSE /\ failures = 0
  /\ client = "down" /\ proxies = <<>>
  /\ conn = "none" /\ seen = {}

cfg == Defaults(settings)
BothPaths == certPath /\ keyPath

\* tls.LoadX509KeyPair succeeds: the files hold the halves of one identity.
PairLoads == BothPaths /\ certFile = keyFile /\ certFile \in Identities

(***************************************************************************)
(* The server                                                              *)
(***************************************************************************)

\* Deliberate bug: a manager only when both paths are missing.
NeedsManagerAnd ==
  \/ cfg.transport = "quic"
  \/ cfg.crypto = "tls" /\ ~certPath /\ ~keyPath

\* server.New creates a CertManager.
NeedsManager ==
  \/ cfg.transport = "quic"
  \/ cfg.crypto = "tls" /\ ~(certPath /\ keyPath)

\* main: LoadServerConfig, then New up to NewCertManager.
StartServer ==
  /\ server = "down" /\ starts < MaxStarts
  /\ starts' = starts + 1
  /\ server' = IF LoadFails(settings) THEN "refused"
               ELSE IF NeedsManager THEN "pair" ELSE "up"
  /\ identity' = Absent /\ saveFailed' = FALSE
  /\ UNCHANGED <<fileVars, diskVars, failures, clientVars, conn, seen>>

\* NewCertManager: the pair is loaded.
LoadPair ==
  /\ server = "pair" /\ PairLoads
  /\ identity' = certFile
  /\ server' = "up"
  /\ UNCHANGED <<fileVars, diskVars, starts, saveFailed, failures, clientVars,
                 conn, seen>>

\* Deliberate bug: the files are not looked at.
GenerateAlways ==
  /\ server = "pair"
  /\ identity' = starts
  /\ server' = IF BothPaths THEN "cert" ELSE "up"
  /\ UNCHANGED <<fileVars, diskVars, starts, saveFailed, failures, clientVars,
                 conn, seen>>

\* NewCertManager: generateSelfSignedCert makes a new identity, which is
\* saved when both paths are given.
Generate ==
  /\ server = "pair" /\ ~PairLoads
  /\ identity' = starts
  /\ server' = IF BothPaths THEN "cert" ELSE "up"
  /\ UNCHANGED <<fileVars, diskVars, starts, saveFailed, failures, clientVars,
                 conn, seen>>

\* saveCert: the two halves of os.WriteFile(certFile)
WriteCert ==
  /\ \/ server = "cert" /\ certFile' = Torn /\ server' = "certdata"
     \/ server = "certdata" /\ certFile' = identity /\ server' = "key"
  /\ UNCHANGED <<fileVars, keyFile, identity, starts, saveFailed, failures,
                 clientVars, conn, seen>>

\* Deliberate bug: the server is up before the key is written.
WriteKeyLater ==
  /\ \/ server = "key" /\ keyFile' = Torn /\ server' = "up"
     \/ server = "up" /\ keyFile = Torn /\ keyFile' = identity /\ server' = "up"
  /\ UNCHANGED <<fileVars, certFile, identity, starts, saveFailed, failures,
                 clientVars, conn, seen>>

\* saveCert: the two halves of os.WriteFile(keyFile)
WriteKey ==
  /\ \/ server = "key" /\ keyFile' = Torn /\ server' = "keydata"
     \/ server = "keydata" /\ keyFile' = identity /\ server' = "up"
  /\ UNCHANGED <<fileVars, certFile, identity, starts, saveFailed, failures,
                 clientVars, conn, seen>>

\* saveCert returns the error of a WriteFile, which is only logged.
SaveFails ==
  /\ server \in SaveSteps
  /\ saveFailed' = TRUE /\ failures' = failures + 1
  /\ server' = "up"
  /\ UNCHANGED <<fileVars, diskVars, identity, starts, clientVars, conn, seen>>

\* The server is stopped or crashes, in the middle of a save perhaps.
Crash ==
  /\ server \in {"pair", "up"} \cup SaveSteps
  /\ server' = "down" /\ identity' = Absent
  /\ UNCHANGED <<fileVars, diskVars, starts, saveFailed, failures, clientVars,
                 conn, seen>>

(***************************************************************************)
(* The client and the connection                                           *)
(***************************************************************************)

\* main: LoadClientConfig and client.New, which fails with the first entry
\* that does not expand.
StartClient ==
  /\ client = "down"
  /\ IF LoadFails(settings) \/ \E i \in 1..Len(list) : ExpandFails(list[i])
     THEN client' = "refused" /\ UNCHANGED proxies
     ELSE client' = "up" /\ proxies' = ProxyTable(list)
  /\ UNCHANGED <<fileVars, diskVars, serverVars, conn, seen>>

\* The identity wrapServer or the QUIC listener shows: the manager's, or
\* the one in the files, which are loaded for every connection.
Shown ==
  IF identity # Absent THEN identity ELSE IF PairLoads THEN certFile ELSE Absent

\* The dial of QUIC takes the server's name from the address and verifies what
\* is shown by the system's roots, so a signed certificate is accepted.
QuicVerifies == caSigned /\ Shown = Operator

\* The client accepts what the server shows.  WrapConn: the file of ca_cert
\* must be readable, and without skip_verify tls.Client fails, for it is given
\* no ServerName.
ClientTrusts ==
  IF CryptOf(cfg) = "tls" THEN skipVerify /\ caCert # "missing"
  ELSE skipVerify \/ QuicVerifies

\* A connection of the client: WrapConn at both ends, or the handshake of
\* QUIC.  ChaCha20 and none have no handshake.
Connect ==
  /\ server = "up" /\ client = "up"
  /\ IF CryptOf(cfg) = "tls" \/ TransportNew(cfg.transport) = "quic"
     THEN /\ conn' = IF Shown # Absent /\ ClientTrusts THEN "secured" ELSE "failed"
          /\ seen' = IF Shown # Absent THEN seen \cup {Shown} ELSE seen
     ELSE conn' = "secured" /\ UNCHANGED seen
  /\ UNCHANGED <<fileVars, diskVars, serverVars, clientVars>>

-----------------------------------------------------------------------------

Next ==
  \/ StartServer \/ LoadPair \/ Generate \/ WriteCert \/ WriteKey \/ SaveFails
  \/ Crash \/ StartClient \/ Connect

Spec == Init /\ [][Next]_vars

(***************************************************************************)
(* Properties                                                              *)
(***************************************************************************)

\* A server that is up with a manager has its identity in the files, unless
\* saving it failed in this start or no files are configured.
ServesSaved ==
  (server = "up" /\ identity # Absent /\ BothPaths /\ ~saveFailed)
    => certFile = identity /\ keyFile = identity

\* A save replaces a pair that does not load by one that was not there
\* before, the certificate first.
SaveProgress ==
  /\ certFile <= starts /\ keyFile <= starts /\ failures <= starts
  /\ server \in {"pair", "cert", "certdata"} => certFile < starts
  /\ server \in {"pair"} \cup SaveSteps => keyFile < starts /\ failures < starts
  /\ server \in SaveSteps => identity = starts /\ BothPaths /\ ~PairLoads
  /\ server \in {"key", "keydata"} => certFile = identity

\* A manager is there when it is needed, and holds the pair if one loads.
ManagerHolds ==
  /\ server \in {"pair"} \cup SaveSteps => NeedsManager
  /\ identity # Absent => NeedsManager /\ server \in {"up"} \cup SaveSteps
  /\ server = "up" /\ NeedsManager => identity # Absent
  /\ server = "up" /\ identity # Absent /\ PairLoads => identity = certFile

\* What the server shows now, or after a restart, without a new identity.
MayShow ==
  (IF server = "up" /\ identity # Absent THEN {identity} ELSE {})
    \cup (IF PairLoads THEN {certFile} ELSE {})

\* Every failed save costs an identity, and so does a pair that loads.
IdentitiesPaid ==
  BothPaths =>
    Cardinality(seen \cup MayShow) <= failures + (IF PairLoads THEN 1 ELSE 0)

\* A client that trusts is refused only by a server without a manager.
RefusedUnmanaged ==
  conn = "failed" /\ skipVerify /\ caCert # "missing"
    => ~NeedsManager /\ ~PairLoads

\* The invariant of the start.
StartupInv ==
  /\ TypeOK /\ ServesSaved
  /\ SaveProgress /\ ManagerHolds /\ IdentitiesPaid /\ RefusedUnmanaged

\* Where the identity is kept in files, clients are shown a new one only
\* after a save has failed: a crash at any step of a save, and any number
\* of restarts, show them no other.
FewIdentities == BothPaths => Cardinality(seen) <= 1 + failures

\* What an entry of the client's file stands for: the ports between the first
\* and the last part of its strings, which must be as many, and ports.
Span(s) == IF Len(s) \in {1, 2} THEN s[1]..s[Len(s)] ELSE {}
Size(p) == Cardinality(Span(p.LocalPort))
Good(p) ==
  /\ Size(p) > 0 /\ Size(p) = Cardinality(Span(p.RemotePort))
  /\ Span(p.LocalPort) \cup Span(p.RemotePort) \subseteq 1..MaxPort

\* The proxies of a list of entries: an entry and an offset into its ports.
Slots(l) == {x \in (1..Len(l)) \X (0..MaxPort) : x[2] < Size(l[x[1]])}
SlotName(l, x) ==
  IF Size(l[x[1]]) = 1 THEN l[x[1]].Name ELSE Append(l[x[1]].Name, x[2])
SlotProxy(l, x) ==
  [Name |-> SlotName(l, x), LocalPort |-> l[x[1]].LocalPort[1] + x[2],
   RemotePort |-> l[x[1]].RemotePort[1] + x[2]]

\* The proxies of the client are what its file says: it does not start when
\* an entry is not good; else every entry and every offset gives a proxy with
\* the ports at that offset, unless a later entry takes the same name.
ProxiesAsConfigured ==
  /\ client = "refused" => settings.mtmux \/ \E i \in 1..Len(list) : ~Good(list[i])
  /\ client = "up" =>
       /\ \A i \in 1..Len(list) : Good(list[i])
       /\ DOMAIN proxies = {SlotName(list, x) : x \in Slots(list)}
       /\ \A x \in Slots(list) :
            \/ proxies[SlotName(list, x)] = SlotProxy(list, x)
            \/ \E y \in Slots(list) :
                 y[1] > x[1] /\ SlotName(list, y) = SlotName(list, x)

\* A client with the settings of the server and skip_verify is connected,
\* unless the server was told to use certificate files that do not match,
\* or a crypto nobody knows, which means TLS, without files.
MatchedConnects ==
  (conn = "failed" /\ skipVerify /\ caCert # "missing")
    => /\ settings.transport # "quic" /\ ~PairLoads
       /\ BothPaths \/ settings.crypto \notin {"", "tls"}
=============================================================================
