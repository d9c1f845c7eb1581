---------------------------- MODULE StartupProofs ---------------------------
(***************************************************************************)
(* Proofs about the start of server and client, for any settings, any      *)
(* number of starts, crashes and failed saves anywhere, and any list of    *)
(* proxies.                                                                *)
(***************************************************************************)
EXTENDS Startup, FiniteSetTheorems, WellFoundedInduction, TLAPS

USE DEF fileVars, diskVars, serverVars, clientVars, vars

-----------------------------------------------------------------------------
(* What the steps leave alone *)

\* The settings in the terms of the files.
LEMMA SettingsRead ==
  ASSUME TypeOK
  PROVE  /\ cfg.transport = "quic" <=> settings.transport = "quic"
         /\ cfg.crypto = "tls" <=> settings.crypto \in {"", "tls"}
BY DEF TypeOK, Settings, cfg, Defaults

\* No step changes the files of the configuration.
LEMMA ConfigKept ==
  ASSUME UNCHANGED fileVars
  PROVE  /\ NeedsManager' <=> NeedsManager
         /\ BothPaths' <=> BothPaths
BY DEF NeedsManager, BothPaths, cfg

\* Nor most steps what the files of the pair hold.
LEMMA PairKept ==
  ASSUME UNCHANGED <<fileVars, diskVars>>
  PROVE  PairLoads' <=> PairLoads
BY DEF PairLoads, BothPaths

\* The types of the numbers.
LEMMA NumberTypes ==
  ASSUME TypeOK
  PROVE  /\ starts \in Nat /\ failures \in Nat /\ MaxStarts \in Nat
         /\ certFile \in Int /\ keyFile \in Int
<1>1. starts \in 0..MaxStarts /\ failures \in 0..MaxStarts /\ MaxStarts \in Nat
  BY StartupAssumption DEF TypeOK
<1>2. certFile \in Contents /\ keyFile \in Contents
  BY DEF TypeOK
<1>3. \A c \in Contents : c \in Int
  BY <1>1 DEF Contents, Identities, Absent, Torn
<1> QED
  BY <1>1, <1>2, <1>3

-----------------------------------------------------------------------------
(* Counting identities *)

\* The sets that are counted are finite.
LEMMA FewFinite ==
  ASSUME TypeOK
  PROVE  /\ IsFiniteSet(Identities) /\ IsFiniteSet(seen \cup MayShow)
         /\ seen \cup MayShow \subseteq Identities
<1>1. IsFiniteSet(Identities)
  BY FS_Interval, StartupAssumption DEF Identities
<1>2. seen \cup MayShow \subseteq Identities
  BY DEF TypeOK, MayShow, PairLoads
<1> QED
  BY <1>1, <1>2, FS_Subset

\* Fewer identities are fewer.
LEMMA FewerShown ==
  ASSUME NEW S \in SUBSET Identities, NEW T \in SUBSET S
  PROVE  Cardinality(T) \in Nat /\ Cardinality(S) \in Nat /\ Cardinality(T) <= Cardinality(S)
<1>1. IsFiniteSet(Identities)
  BY FS_Interval, StartupAssumption DEF Identities
<1>2. IsFiniteSet(S)
  BY <1>1, FS_Subset
<1> QED
  BY <1>2, FS_Subset, FS_CardinalityType

\* One more costs at most one.
LEMMA OneMoreShown ==
  ASSUME NEW S \in SUBSET Identities, NEW i
  PROVE  Cardinality(S \cup {i}) \in Nat /\ Cardinality(S \cup {i}) <= Cardinality(S) + 1
<1>1. IsFiniteSet(Identities)
  BY FS_Interval, StartupAssumption DEF Identities
<1>2. IsFiniteSet(S)
  BY <1>1, FS_Subset
<1>3. Cardinality(S) \in Nat
  BY <1>2, FS_CardinalityType
<1>4. Cardinality(S \cup {i}) = IF i \in S THEN Cardinality(S) ELSE Cardinality(S) + 1
  BY <1>2, FS_AddElement
<1> QED
  BY <1>3, <1>4

-----------------------------------------------------------------------------
(* The invariant *)

\* The initial state satisfies the invariant.
LEMMA InvariantInit ==
  ASSUME Init PROVE StartupInv
<1>1. /\ starts = 0 /\ failures = 0 /\ server = "down" /\ identity = Absent /\ seen = {}
      /\ conn = "none"
      /\ certFile \in {Absent, Operator} /\ keyFile \in {Absent, Operator}
  BY DEF Init
<1>2. TypeOK
  <2>1. settings \in Settings
    BY DEF Init
  <2>2. {certPath, keyPath, skipVerify, caSigned, saveFailed} \subseteq BOOLEAN
    BY DEF Init
  <2>3. certFile \in Contents /\ keyFile \in Contents
    BY <1>1, StartupAssumption DEF Contents, Identities, Absent, Operator
  <2>4. starts \in 0..MaxStarts /\ failures \in 0..MaxStarts
    BY <1>1, StartupAssumption
  <2>5. caCert \in {"", "missing", "file"} /\ client \in {"down", "up", "refused"}
    BY DEF Init
  <2> QED
    BY <1>1, <2>1, <2>2, <2>3, <2>4, <2>5 DEF TypeOK
<1>3. SaveProgress /\ ManagerHolds /\ ServesSaved /\ RefusedUnmanaged
  BY <1>1 DEF SaveProgress, ManagerHolds, ServesSaved, RefusedUnmanaged, SaveSteps, Absent, Operator
<1>4. IdentitiesPaid
  <2>1. CASE PairLoads
    <3>1. seen \cup MayShow = {certFile}
      BY <1>1, <2>1 DEF MayShow
    <3>2. Cardinality({certFile}) = 1
      BY FS_Singleton
    <3> QED
      BY <1>1, <2>1, <3>1, <3>2 DEF IdentitiesPaid
  <2>2. CASE ~PairLoads
    <3>1. seen \cup MayShow = {}
      BY <1>1, <2>2 DEF MayShow
    <3>2. Cardinality({}) = 0
      BY FS_EmptySet
    <3> QED
      BY <1>1, <2>2, <3>1, <3>2 DEF IdentitiesPaid
  <2> QED
    BY <2>1, <2>2
<1> QED
  BY <1>2, <1>3, <1>4 DEF StartupInv

\* The bill is paid by a step after which no more can be shown and that
\* leaves the pair alone.
LEMMA PaidKept ==
  ASSUME StartupInv, TypeOK', UNCHANGED fileVars, PairLoads' <=> PairLoads,
         failures' = failures,
         BothPaths => seen' \cup MayShow' \subseteq seen \cup MayShow
  PROVE  IdentitiesPaid'
<1>1. SUFFICES ASSUME BothPaths
               PROVE  Cardinality(seen' \cup MayShow')
                        <= failures + (IF PairLoads THEN 1 ELSE 0)
  BY ConfigKept DEF IdentitiesPaid
<1>2. PICK S \in SUBSET Identities : S = seen \cup MayShow
  BY FewFinite DEF StartupInv
<1>3. PICK T \in SUBSET S : T = seen' \cup MayShow'
  BY <1>1, <1>2
<1>4. Cardinality(S) <= failures + (IF PairLoads THEN 1 ELSE 0)
  BY <1>1, <1>2 DEF StartupInv, IdentitiesPaid
<1>5. /\ Cardinality(T) \in Nat /\ Cardinality(S) \in Nat /\ failures \in Nat
      /\ Cardinality(T) <= Cardinality(S)
  BY FewerShown, NumberTypes DEF StartupInv
<1>6. CASE PairLoads
  BY <1>3, <1>4, <1>5, <1>6
<1>7. CASE ~PairLoads
  BY <1>3, <1>4, <1>5, <1>7
<1> QED
  BY <1>6, <1>7

\* StartServer, and the steps of the client that do not connect.
LEMMA StartServerStep ==
  ASSUME StartupInv, StartServer
  PROVE  StartupInv'
<1>1. /\ server = "down" /\ starts < MaxStarts /\ starts' = starts + 1
      /\ identity' = Absent /\ saveFailed' = FALSE
      /\ server' \in {"refused", "pair", "up"}
      /\ server' = "pair" => NeedsManager
      /\ server' = "up" => ~NeedsManager
      /\ UNCHANGED <<fileVars, diskVars, failures, clientVars, conn, seen>>
  BY DEF StartServer
<1>2. TypeOK /\ starts \in Nat /\ failures \in Nat /\ MaxStarts \in Nat
  BY NumberTypes DEF StartupInv
<1>3. TypeOK'
  <2>1. starts' \in 0..MaxStarts
    BY <1>1, <1>2
  <2>2. server' \in {"down", "refused", "pair", "up"} \cup SaveSteps
    BY <1>1
  <2>3. {certPath, keyPath, skipVerify, caSigned, saveFailed}' \subseteq BOOLEAN
    BY <1>1, <1>2 DEF TypeOK
  <2> QED
    BY <1>1, <1>2, <2>1, <2>2, <2>3 DEF TypeOK
<1>4. (NeedsManager' <=> NeedsManager) /\ (PairLoads' <=> PairLoads)
  BY <1>1, ConfigKept, PairKept
<1>5. SaveProgress'
  <2>1. certFile \in Int /\ keyFile \in Int
    BY <1>2, NumberTypes
  <2>2. certFile <= starts /\ keyFile <= starts /\ failures <= starts
    BY DEF StartupInv, SaveProgress
  <2>3. certFile < starts' /\ keyFile < starts' /\ failures < starts' /\ starts' \in Nat
    BY <1>1, <1>2, <2>1, <2>2
  <2> QED
    BY <1>1, <1>2, <2>1, <2>3 DEF SaveProgress, SaveSteps
<1>6. ManagerHolds' /\ ServesSaved'
  BY <1>1, <1>4 DEF ManagerHolds, ServesSaved, SaveSteps
<1>7. RefusedUnmanaged'
  BY <1>1, <1>4 DEF StartupInv, RefusedUnmanaged
<1>8. IdentitiesPaid'
  <2>1. seen' \cup MayShow' \subseteq seen \cup MayShow
    BY <1>1, <1>4 DEF MayShow
  <2> QED
    BY <1>1, <1>3, <1>4, <2>1, PaidKept
<1> QED
  BY <1>3, <1>5, <1>6, <1>7, <1>8 DEF StartupInv

\* NewCertManager loads the pair.
LEMMA LoadPairStep ==
  ASSUME StartupInv, LoadPair
  PROVE  StartupInv'
<1>1. /\ server = "pair" /\ PairLoads /\ identity' = certFile /\ server' = "up"
      /\ UNCHANGED <<fileVars, diskVars, starts, saveFailed, failures, clientVars, conn, seen>>
  BY DEF LoadPair
<1>2. TypeOK /\ NeedsManager
  BY <1>1 DEF StartupInv, ManagerHolds
<1>3. identity' \in Identities /\ identity' # Absent /\ keyFile = certFile
  BY <1>1, StartupAssumption DEF PairLoads, Identities, Absent
<1>4. TypeOK'
  BY <1>1, <1>2, <1>3 DEF TypeOK
<1>5. (NeedsManager' <=> NeedsManager) /\ (PairLoads' <=> PairLoads)
  BY <1>1, ConfigKept, PairKept
<1>6. SaveProgress' /\ ManagerHolds' /\ ServesSaved'
  BY <1>1, <1>2, <1>3, <1>5 DEF StartupInv, SaveProgress, ManagerHolds, ServesSaved, SaveSteps
<1>7. RefusedUnmanaged'
  BY <1>1, <1>5 DEF StartupInv, RefusedUnmanaged
<1>8. IdentitiesPaid'
  <2>1. seen' \cup MayShow' \subseteq seen \cup MayShow
    BY <1>1, <1>5 DEF MayShow
  <2> QED
    BY <1>1, <1>4, <1>5, <2>1, PaidKept
<1> QED
  BY <1>4, <1>6, <1>7, <1>8 DEF StartupInv

\* generateSelfSignedCert: nothing can be shown before it is saved.
LEMMA GenerateStep ==
  ASSUME StartupInv, Generate
  PROVE  StartupInv'
<1>1. /\ server = "pair" /\ ~PairLoads /\ identity' = starts
      /\ server' = IF BothPaths THEN "cert" ELSE "up"
      /\ UNCHANGED <<fileVars, diskVars, starts, saveFailed, failures, clientVars, conn, seen>>
  BY DEF Generate
<1>2. TypeOK /\ NeedsManager /\ starts \in 0..MaxStarts /\ starts \in Nat
  BY <1>1, NumberTypes DEF StartupInv, ManagerHolds, TypeOK
<1>3. identity' \in Identities /\ identity' # Absent
  BY <1>1, <1>2 DEF Identities, Absent
<1>4. TypeOK'
  BY <1>1, <1>2, <1>3 DEF TypeOK, SaveSteps
<1>5. (NeedsManager' <=> NeedsManager) /\ (PairLoads' <=> PairLoads) /\ (BothPaths' <=> BothPaths)
  BY <1>1, ConfigKept, PairKept
<1>6. SaveProgress'
  BY <1>1, <1>5 DEF StartupInv, SaveProgress, SaveSteps
<1>7. ManagerHolds' /\ ServesSaved'
  BY <1>1, <1>2, <1>3, <1>5 DEF ManagerHolds, ServesSaved, SaveSteps
<1>8. RefusedUnmanaged'
  BY <1>1, <1>5 DEF StartupInv, RefusedUnmanaged
<1>9. IdentitiesPaid'
  <2>1. BothPaths => seen' \cup MayShow' \subseteq seen \cup MayShow
    BY <1>1, <1>5 DEF MayShow
  <2> QED
    BY <1>1, <1>4, <1>5, <2>1, PaidKept
<1> QED
  BY <1>4, <1>6, <1>7, <1>8, <1>9 DEF StartupInv

\* saveCert writes the certificate: the pair does not load, before or after.
LEMMA WriteCertStep ==
  ASSUME StartupInv, WriteCert
  PROVE  StartupInv'
<1>1. /\ \/ server = "cert" /\ certFile' = Torn /\ server' = "certdata"
         \/ server = "certdata" /\ certFile' = identity /\ server' = "key"
      /\ UNCHANGED <<fileVars, keyFile, identity, starts, saveFailed, failures, clientVars,
                     conn, seen>>
  BY DEF WriteCert
<1>2. /\ TypeOK /\ NeedsManager /\ BothPaths /\ ~PairLoads /\ identity = starts
      /\ keyFile < starts /\ keyFile <= starts /\ failures < starts /\ failures <= starts
      /\ identity # Absent => NeedsManager
  BY <1>1 DEF StartupInv, ManagerHolds, SaveProgress, SaveSteps
<1>3. starts \in Nat /\ keyFile \in Int /\ starts \in 0..MaxStarts
  BY <1>2, NumberTypes DEF TypeOK
<1>4. certFile' \in Contents /\ certFile' <= starts
  BY <1>1, <1>2, <1>3 DEF Contents, Identities, Torn
<1>5. TypeOK'
  BY <1>1, <1>2, <1>4 DEF TypeOK, SaveSteps
<1>6. (NeedsManager' <=> NeedsManager) /\ (BothPaths' <=> BothPaths)
  BY <1>1, ConfigKept
<1>7. ~PairLoads'
  BY <1>1, <1>2, <1>3 DEF PairLoads, Torn, Identities
<1>8. SaveProgress'
  <2>1. server' = "certdata" => certFile' < starts
    BY <1>1, <1>3 DEF Torn
  <2> QED
    BY <1>1, <1>2, <1>4, <1>6, <1>7, <2>1 DEF SaveProgress, SaveSteps
<1>9. ManagerHolds' /\ ServesSaved' /\ RefusedUnmanaged'
  BY <1>1, <1>2, <1>6, <1>7 DEF StartupInv, ManagerHolds, ServesSaved, SaveSteps, RefusedUnmanaged
<1>10. IdentitiesPaid'
  <2>1. seen' \cup MayShow' \subseteq seen \cup MayShow
    BY <1>1, <1>2, <1>7 DEF MayShow
  <2> QED
    BY <1>1, <1>2, <1>5, <1>7, <2>1, PaidKept
<1> QED
  BY <1>5, <1>8, <1>9, <1>10 DEF StartupInv

\* Before the save ends nothing can be shown besides what was seen.
LEMMA SavingShowsNothing ==
  ASSUME StartupInv, server \in SaveSteps
  PROVE  /\ TypeOK /\ NeedsManager /\ BothPaths /\ ~PairLoads
         /\ identity = starts /\ starts \in Nat /\ identity # Absent /\ identity \in Identities
         /\ keyFile \in Int /\ keyFile < starts /\ failures \in Nat /\ failures < starts
         /\ seen \in SUBSET Identities
         /\ Cardinality(seen) \in Nat /\ Cardinality(seen) <= failures
         /\ Cardinality(seen \cup {identity}) <= failures + 1
<1>1. /\ TypeOK /\ NeedsManager /\ BothPaths /\ ~PairLoads /\ identity = starts
      /\ keyFile < starts /\ failures < starts
  BY DEF StartupInv, ManagerHolds, SaveProgress
<1>2. /\ starts \in Nat /\ keyFile \in Int /\ failures \in Nat
      /\ starts \in 0..MaxStarts /\ seen \in SUBSET Identities
  BY <1>1, NumberTypes DEF TypeOK
<1>3. identity # Absent /\ identity \in Identities
  BY <1>1, <1>2 DEF Absent, Identities
<1>4. seen \cup MayShow = seen
  BY <1>1 DEF MayShow, SaveSteps
<1>5. Cardinality(seen) <= failures + 0
  BY <1>1, <1>4 DEF StartupInv, IdentitiesPaid
<1>6. /\ Cardinality(seen) \in Nat /\ Cardinality(seen \cup {identity}) \in Nat
      /\ Cardinality(seen \cup {identity}) <= Cardinality(seen) + 1
  BY <1>2, FewerShown, OneMoreShown
<1>7. Cardinality(seen) <= failures /\ Cardinality(seen \cup {identity}) <= failures + 1
  BY <1>2, <1>5, <1>6
<1> QED
  BY <1>1, <1>2, <1>3, <1>6, <1>7

\* saveCert writes the key: with its last byte the pair loads.
LEMMA WriteKeyStep ==
  ASSUME StartupInv, WriteKey
  PROVE  StartupInv'
<1>1. /\ \/ server = "key" /\ keyFile' = Torn /\ server' = "keydata"
         \/ server = "keydata" /\ keyFile' = identity /\ server' = "up"
      /\ UNCHANGED <<fileVars, certFile, identity, starts, saveFailed, failures, clientVars,
                     conn, seen>>
  BY DEF WriteKey
<1>2. /\ TypeOK /\ NeedsManager /\ BothPaths /\ ~PairLoads
      /\ identity = starts /\ starts \in Nat /\ identity # Absent /\ identity \in Identities
      /\ failures \in Nat /\ failures < starts
      /\ Cardinality(seen \cup {identity}) <= failures + 1
  BY <1>1, SavingShowsNothing DEF SaveSteps
<1>3. certFile = identity /\ certFile <= starts
  BY <1>1 DEF StartupInv, SaveProgress
<1>4. keyFile' \in Contents /\ keyFile' <= starts
  BY <1>1, <1>2 DEF Contents, Torn
<1>5. TypeOK'
  BY <1>1, <1>2, <1>4 DEF TypeOK, SaveSteps
<1>6. (NeedsManager' <=> NeedsManager) /\ (BothPaths' <=> BothPaths)
  BY <1>1, ConfigKept
<1>7. PairLoads' <=> server' = "up"
  BY <1>1, <1>2, <1>3, <1>6 DEF PairLoads, Torn, Identities
<1>8. SaveProgress'
  <2>1. server' = "keydata" => keyFile' < starts
    BY <1>1, <1>2 DEF Torn
  <2>2. failures <= starts
    BY <1>2
  <2> QED
    BY <1>1, <1>2, <1>3, <1>4, <1>6, <1>7, <2>1, <2>2 DEF SaveProgress, SaveSteps
<1>9. ManagerHolds' /\ ServesSaved' /\ RefusedUnmanaged'
  BY <1>1, <1>2, <1>3, <1>6, <1>7 DEF StartupInv, ManagerHolds, ServesSaved, SaveSteps,
     RefusedUnmanaged
<1>10. IdentitiesPaid'
  <2>1. CASE server' = "keydata"
    <3>1. seen' \cup MayShow' \subseteq seen \cup MayShow
      BY <1>1, <1>7, <2>1 DEF MayShow
    <3> QED
      BY <1>1, <1>2, <1>5, <1>7, <2>1, <3>1, PaidKept
  <2>2. CASE server' = "up"
    <3>1. seen' \cup MayShow' = seen \cup {identity}
      BY <1>1, <1>2, <1>3, <1>7, <2>2 DEF MayShow
    <3> QED
      BY <1>1, <1>2, <1>7, <2>2, <3>1 DEF IdentitiesPaid
  <2> QED
    BY <1>1, <2>1, <2>2
<1> QED
  BY <1>5, <1>8, <1>9, <1>10 DEF StartupInv

\* saveCert fails: the new identity is shown, and lost with the process.
LEMMA SaveFailsStep ==
  ASSUME StartupInv, SaveFails
  PROVE  StartupInv'
<1>1. /\ server \in SaveSteps /\ saveFailed' = TRUE /\ failures' = failures + 1 /\ server' = "up"
      /\ UNCHANGED <<fileVars, diskVars, identity, starts, clientVars, conn, seen>>
  BY DEF SaveFails
<1>2. /\ TypeOK /\ NeedsManager /\ BothPaths /\ ~PairLoads
      /\ starts \in Nat /\ identity # Absent
      /\ failures \in Nat /\ failures < starts
      /\ Cardinality(seen \cup {identity}) <= failures + 1
  BY <1>1, SavingShowsNothing
<1>3. starts <= MaxStarts /\ failures' \in Nat /\ failures' <= starts /\ MaxStarts \in Nat
  <2>1. starts \in 0..MaxStarts /\ MaxStarts \in Nat
    BY <1>2, StartupAssumption DEF TypeOK
  <2> QED
    BY <1>1, <1>2, <2>1
<1>4. TypeOK'
  <2>1. failures' \in 0..MaxStarts
    BY <1>2, <1>3
  <2>2. {certPath, keyPath, skipVerify, caSigned, saveFailed}' \subseteq BOOLEAN
    BY <1>1, <1>2 DEF TypeOK
  <2> QED
    BY <1>1, <1>2, <2>1, <2>2 DEF TypeOK
<1>5. (NeedsManager' <=> NeedsManager) /\ (PairLoads' <=> PairLoads)
  BY <1>1, ConfigKept, PairKept
<1>6. SaveProgress'
  BY <1>1, <1>3 DEF StartupInv, SaveProgress, SaveSteps
<1>7. ManagerHolds' /\ ServesSaved' /\ RefusedUnmanaged'
  BY <1>1, <1>2, <1>5 DEF StartupInv, ManagerHolds, ServesSaved, RefusedUnmanaged, SaveSteps
<1>8. IdentitiesPaid'
  <2>1. seen' \cup MayShow' = seen \cup {identity}
    BY <1>1, <1>2, <1>5 DEF MayShow
  <2>2. failures' + 0 = failures + 1
    BY <1>1, <1>2
  <2>3. Cardinality(seen' \cup MayShow') <= failures' + 0
    BY <1>2, <2>1, <2>2
  <2> QED
    BY <1>2, <1>5, <2>3 DEF IdentitiesPaid
<1> QED
  BY <1>4, <1>6, <1>7, <1>8 DEF StartupInv

\* The server stops, in the middle of a save perhaps.
LEMMA CrashStep ==
  ASSUME StartupInv, Crash
  PROVE  StartupInv'
<1>1. /\ server' = "down" /\ identity' = Absent
      /\ UNCHANGED <<fileVars, diskVars, starts, saveFailed, failures, clientVars, conn, seen>>
  BY DEF Crash
<1>2. TypeOK'
  BY <1>1 DEF StartupInv, TypeOK
<1>3. (NeedsManager' <=> NeedsManager) /\ (PairLoads' <=> PairLoads)
  BY <1>1, ConfigKept, PairKept
<1>4. SaveProgress' /\ ManagerHolds' /\ ServesSaved' /\ RefusedUnmanaged'
  BY <1>1, <1>3 DEF StartupInv, SaveProgress, ManagerHolds, ServesSaved, RefusedUnmanaged, SaveSteps
<1>5. IdentitiesPaid'
  <2>1. seen' \cup MayShow' \subseteq seen \cup MayShow
    BY <1>1, <1>3 DEF MayShow
  <2> QED
    BY <1>1, <1>2, <1>3, <2>1, PaidKept
<1> QED
  BY <1>2, <1>4, <1>5 DEF StartupInv

\* Nothing happens at the server; a connection shows what it may show.
LEMMA ConnectStep ==
  ASSUME StartupInv, StartClient \/ Connect \/ UNCHANGED vars
  PROVE  StartupInv'
<1>1. UNCHANGED <<fileVars, diskVars, serverVars>>
  BY DEF StartClient, Connect
<1>2. TypeOK /\ (NeedsManager' <=> NeedsManager) /\ (PairLoads' <=> PairLoads)
      /\ MayShow' = MayShow /\ BothPaths' = BothPaths
  BY <1>1, ConfigKept, PairKept DEF StartupInv, MayShow, PairLoads, BothPaths
<1>3. Connect /\ Shown # Absent => Shown \in MayShow
  BY DEF Connect, Shown, MayShow
<1>4. seen' \subseteq seen \cup MayShow
  BY <1>3 DEF StartClient, Connect
<1>5. MayShow \subseteq Identities
  BY <1>2, FewFinite
<1>6. TypeOK'
  <2>1. seen' \subseteq Identities
    BY <1>2, <1>4, <1>5 DEF TypeOK
  <2>2. conn' \in {"none", "secured", "failed"} /\ client' \in {"down", "up", "refused"}
    BY <1>2 DEF TypeOK, StartClient, Connect
  <2> QED
    BY <1>1, <1>2, <2>1, <2>2 DEF TypeOK
<1>7. SaveProgress' /\ ManagerHolds' /\ ServesSaved'
  BY <1>1, <1>2 DEF StartupInv, SaveProgress, ManagerHolds, ServesSaved, BothPaths
<1>8. RefusedUnmanaged'
  <2>1. CASE conn' = conn
    BY <1>1, <1>2, <2>1 DEF StartupInv, RefusedUnmanaged
  <2>2. CASE Connect /\ conn' = "failed" /\ skipVerify /\ caCert # "missing"
    <3>1. Shown = Absent /\ server = "up"
      <4>1. ClientTrusts
        BY <2>2, ZenonT(30) DEF ClientTrusts
      <4> QED
        BY <2>2, <4>1 DEF Connect
    <3>2. identity = Absent /\ ~PairLoads
      BY <3>1 DEF Shown, PairLoads, Identities, Absent
    <3>3. ~NeedsManager
      BY <3>1, <3>2 DEF StartupInv, ManagerHolds
    <3> QED
      BY <1>2, <3>2, <3>3 DEF RefusedUnmanaged
  <2>3. CASE Connect /\ ~(conn' = "failed" /\ skipVerify /\ caCert # "missing")
    BY <1>1, <2>3 DEF RefusedUnmanaged
  <2> QED
    BY <2>1, <2>2, <2>3 DEF StartClient
<1>9. IdentitiesPaid'
  <2>1. seen' \cup MayShow' \subseteq seen \cup MayShow
    BY <1>2, <1>4
  <2> QED
    BY <1>1, <1>2, <1>6, <2>1, PaidKept
<1> QED
  BY <1>6, <1>7, <1>8, <1>9 DEF StartupInv

-----------------------------------------------------------------------------
(* The entries of the client's file *)

\* Every set of numbers has a least one; induction is done with it below.
LEMMA LeastNumber ==
  ASSUME NEW T \in SUBSET Nat, T # {}
  PROVE  \E m \in T : \A k \in T : m <= k
<1>1. OpToRel(<, Nat) = {ss \in Nat \X Nat : ss[1] < ss[2]}
  BY Zenon DEF OpToRel
<1>2. PICK m \in T : \A k \in T : ~(<<k, m>> \in OpToRel(<, Nat))
  BY WFMin, NatLessThanWellFounded, Zenon
<1>3. \A k \in T : ~(<<k, m>> \in {ss \in Nat \X Nat : ss[1] < ss[2]})
  BY <1>1, <1>2, Zenon
<1>4. ASSUME NEW k \in T PROVE m <= k
  <2>1. k \in Nat /\ m \in Nat
    OBVIOUS
  <2>2. <<k, m>> \in Nat \X Nat /\ <<k, m>>[1] = k /\ <<k, m>>[2] = m
    BY <2>1
  <2>3. ~(k < m)
    BY <1>3, <2>2
  <2> QED
    BY <2>1, <2>3
<1> QED
  BY <1>4

\* An interval inside one that begins at 1.
LEMMA IntervalInside ==
  ASSUME NEW a \in Int, NEW b \in Int, NEW c \in Nat, a <= b
  PROVE  a..b \subseteq 1..c <=> a >= 1 /\ b <= c
<1>1. a \in a..b /\ b \in a..b
  OBVIOUS
<1>2. ASSUME a..b \subseteq 1..c PROVE a >= 1 /\ b <= c
  <2>1. a \in 1..c /\ b \in 1..c
    BY <1>1, <1>2
  <2> QED
    BY <2>1
<1>3. ASSUME a >= 1, b <= c, NEW k \in a..b PROVE k \in 1..c
  BY <1>3
<1> QED
  BY <1>2, <1>3

\* An entry of a client's file.
Entry(p) == Tuple(p.Name) /\ p.LocalPort \in Seq(Int) /\ p.RemotePort \in Seq(Int)

\* ParsePortRange accepts exactly the strings that span ports.
LEMMA ParsedSpan ==
  ASSUME NEW s \in Seq(Int)
  PROVE  /\ Cardinality(Span(s)) \in Nat
         /\ ParsePortRange(s) # Invalid
              <=> Cardinality(Span(s)) > 0 /\ Span(s) \subseteq 1..MaxPort
         /\ ParsePortRange(s) # Invalid =>
              /\ ParsePortRange(s).Start = s[1]
              /\ Count(ParsePortRange(s)) = Cardinality(Span(s))
              /\ Cardinality(Span(s)) <= MaxPort
<1>0. MaxPort \in Nat
  BY ConfigAssumption
<1>1. CASE Len(s) \notin {1, 2}
  <2>1. Span(s) = {} /\ Cardinality({}) = 0
    BY <1>1, FS_EmptySet DEF Span
  <2>2. ParsePortRange(s) = Invalid
    BY <1>1 DEF ParsePortRange
  <2> QED
    BY <2>1, <2>2
<1>2. CASE Len(s) \in {1, 2}
  <2>1. PICK a \in Int, b \in Int : a = s[1] /\ b = s[Len(s)]
    BY <1>2
  <2>2. Span(s) = a..b
    BY <1>2, <2>1 DEF Span
  <2>3. Cardinality(a..b) = IF a > b THEN 0 ELSE b - a + 1
    BY FS_Interval
  <2>4. ParsePortRange(s) = IF a >= 1 /\ a <= MaxPort /\ b >= 1 /\ b <= MaxPort /\ a <= b
                            THEN [Start |-> a, End |-> b] ELSE Invalid
    BY <1>2, <2>1 DEF ParsePortRange, InRange
  <2>5. a..b \subseteq 1..MaxPort /\ a <= b <=> a >= 1 /\ b <= MaxPort /\ a <= b
    <3>1. a <= b => (a..b \subseteq 1..MaxPort <=> a >= 1 /\ b <= MaxPort)
      BY <1>0, IntervalInside
    <3> QED
      BY <3>1, Zenon
  <2>6. CASE a >= 1 /\ b <= MaxPort /\ a <= b
    <3>1. ParsePortRange(s) = [Start |-> a, End |-> b]
      BY <1>0, <2>4, <2>6
    <3>2. ParsePortRange(s) # Invalid
      BY <2>6, <3>1 DEF Invalid
    <3>3. Cardinality(Span(s)) = b - a + 1 /\ b - a + 1 \in Nat /\ b - a + 1 > 0 /\ b - a + 1 <= MaxPort
      BY <1>0, <2>2, <2>3, <2>6
    <3>4. Span(s) \subseteq 1..MaxPort
      BY <2>2, <2>5, <2>6
    <3>5. Count(ParsePortRange(s)) = b - a + 1 /\ ParsePortRange(s).Start = s[1]
      BY <2>1, <3>1 DEF Count
    <3> QED
      BY <3>2, <3>3, <3>4, <3>5
  <2>7. CASE ~(a >= 1 /\ b <= MaxPort /\ a <= b)
    <3>1. ParsePortRange(s) = Invalid
      BY <1>0, <2>4, <2>7
    <3>2. Cardinality(Span(s)) \in Nat
      BY <2>2, <2>3
    <3>3. Cardinality(Span(s)) > 0 => a <= b
      BY <2>2, <2>3
    <3> QED
      BY <2>2, <2>5, <2>7, <3>1, <3>2, <3>3
  <2> QED
    BY <2>6, <2>7
<1> QED
  BY <1>1, <1>2

\* Expand fails for the entries that are not good, and makes of the others one
\* proxy per port.
LEMMA ExpandGood ==
  ASSUME NEW p, Entry(p)
  PROVE  /\ Size(p) \in Nat
         /\ ExpandFails(p) <=> ~Good(p)
         /\ Good(p) =>
              /\ Size(p) > 0 /\ Size(p) <= MaxPort
              /\ Expand(p) =
                   [i \in 1..Size(p) |->
                      [Name |-> IF Size(p) > 1 THEN Append(p.Name, i - 1) ELSE p.Name,
                       LocalPort |-> p.LocalPort[1] + i - 1,
                       RemotePort |-> p.RemotePort[1] + i - 1]]
<1> DEFINE l == p.LocalPort
           r == p.RemotePort
           pl == ParsePortRange(l)
           pr == ParsePortRange(r)
<1>1. l \in Seq(Int) /\ r \in Seq(Int)
  BY DEF Entry
<1>2. /\ Cardinality(Span(l)) \in Nat
      /\ pl # Invalid <=> Cardinality(Span(l)) > 0 /\ Span(l) \subseteq 1..MaxPort
      /\ pl # Invalid =>
              /\ pl.Start = l[1]
              /\ Count(pl) = Cardinality(Span(l))
              /\ Cardinality(Span(l)) <= MaxPort
  BY <1>1, ParsedSpan
<1>3. /\ Cardinality(Span(r)) \in Nat
      /\ pr # Invalid <=> Cardinality(Span(r)) > 0 /\ Span(r) \subseteq 1..MaxPort
      /\ pr # Invalid =>
              /\ pr.Start = r[1]
              /\ Count(pr) = Cardinality(Span(r))
              /\ Cardinality(Span(r)) <= MaxPort
  BY <1>1, ParsedSpan
<1>4. ExpandFails(p) <=> (pl = Invalid \/ pr = Invalid \/ Count(pl) # Count(pr))
  BY DEF ExpandFails
<1>5. Good(p) <=> /\ Cardinality(Span(l)) > 0 /\ Cardinality(Span(l)) = Cardinality(Span(r))
                  /\ Span(l) \subseteq 1..MaxPort /\ Span(r) \subseteq 1..MaxPort
  BY DEF Good, Size
<1>6. Expand(p) = [i \in 1..Len(Ports(pl)) |->
        [Name |-> IF Len(Ports(pl)) > 1 THEN Append(p.Name, i - 1) ELSE p.Name,
         LocalPort |-> Ports(pl)[i], RemotePort |-> Ports(pr)[i]]]
  BY DEF Expand
<1>7. Size(p) = Cardinality(Span(l))
  BY DEF Size
<1> HIDE DEF l, r, pl, pr
<1>8. ExpandFails(p) <=> ~Good(p)
  BY <1>2, <1>3, <1>4, <1>5
<1>9. ASSUME Good(p)
      PROVE  /\ Size(p) > 0 /\ Size(p) <= MaxPort
             /\ Expand(p) =
                   [i \in 1..Size(p) |->
                      [Name |-> IF Size(p) > 1 THEN Append(p.Name, i - 1) ELSE p.Name,
                       LocalPort |-> l[1] + i - 1,
                       RemotePort |-> r[1] + i - 1]]
  <2>1. /\ Count(pl) = Size(p) /\ Count(pr) = Size(p) /\ Size(p) \in Nat
        /\ pl.Start = l[1] /\ pr.Start = r[1] /\ Size(p) > 0 /\ Size(p) <= MaxPort
    BY <1>2, <1>3, <1>5, <1>7, <1>9
  <2>2. /\ Ports(pl) = [i \in 1..Size(p) |-> l[1] + i - 1]
        /\ Ports(pr) = [i \in 1..Size(p) |-> r[1] + i - 1]
    BY <2>1 DEF Ports
  <2>3. Len(Ports(pl)) = Size(p)
    BY <2>1, <2>2
  <2>4. \A i \in 1..Size(p) : Ports(pl)[i] = l[1] + i - 1 /\ Ports(pr)[i] = r[1] + i - 1
    BY <2>2
  <2> QED
    BY <1>6, <2>1, <2>3, <2>4
<1> QED
  BY <1>2, <1>7, <1>8, <1>9 DEF l, r

-----------------------------------------------------------------------------
(* FlattenSeq *)

\* What the concatenation of two sequences is.
LEMMA Joined ==
  ASSUME NEW S, NEW s \in Seq(S), NEW t \in Seq(S)
  PROVE  /\ s \o t \in Seq(S) /\ Len(s \o t) = Len(s) + Len(t)
         /\ \A k \in 1..Len(s) : (s \o t)[k] = s[k]
         /\ \A k \in 1..Len(t) : (s \o t)[Len(s) + k] = t[k]
OBVIOUS

\* F lists the concatenations of the first sequences of ss.
Joins(F, ss) ==
  /\ DOMAIN F = 1..Len(ss)
  /\ \A i \in 1..Len(ss) : F[i] = IF i = 1 THEN ss[1] ELSE F[i - 1] \o ss[i]

\* The concatenations of the first n sequences of ss exist.
LEMMA JoinsExist ==
  ASSUME NEW S, NEW ss \in Seq(Seq(S)), NEW n \in 1..Len(ss)
  PROVE  \E F : /\ DOMAIN F = 1..n
                /\ \A i \in 1..n : F[i] = IF i = 1 THEN ss[1] ELSE F[i - 1] \o ss[i]
<1> DEFINE E(m) == \E F : /\ DOMAIN F = 1..m
                          /\ \A i \in 1..m : F[i] = IF i = 1 THEN ss[1] ELSE F[i - 1] \o ss[i]
           T == {m \in Nat : m >= 1 /\ ~E(m)}
<1>0. Len(ss) \in Nat
  OBVIOUS
<1> SUFFICES ASSUME T # {} PROVE FALSE
  BY <1>0
<1>1. T \in SUBSET Nat
  OBVIOUS
<1>2. PICK m \in T : \A k \in T : m <= k
  <2> HIDE DEF T
  <2> QED
    BY <1>1, LeastNumber
<1>3. m \in Nat /\ m >= 1 /\ ~E(m)
  BY <1>2
<1>4. E(1)
  <2> DEFINE F == [i \in 1..1 |-> ss[1]]
  <2>1. /\ DOMAIN F = 1..1
        /\ \A i \in 1..1 : F[i] = IF i = 1 THEN ss[1] ELSE F[i - 1] \o ss[i]
    OBVIOUS
  <2> HIDE DEF F
  <2> QED
    BY <2>1
<1>5. m # 1
  BY <1>3, <1>4
<1>6. m - 1 \in Nat /\ m - 1 >= 1 /\ m - 1 \notin T
  <2> HIDE DEF T
  <2> QED
    BY <1>2, <1>3, <1>5
<1>7. E(m - 1)
  BY <1>6
<1>8. PICK G : /\ DOMAIN G = 1..(m - 1)
               /\ \A i \in 1..(m - 1) : G[i] = IF i = 1 THEN ss[1] ELSE G[i - 1] \o ss[i]
  BY <1>7
<1> DEFINE v == G[m - 1] \o ss[m]
           F == [i \in 1..m |-> IF i = m THEN v ELSE G[i]]
<1> HIDE DEF E, T
<1>9. ASSUME NEW i \in 1..m PROVE F[i] = IF i = 1 THEN ss[1] ELSE F[i - 1] \o ss[i]
  <2>1. CASE i = m
    <3>1. F[m] = v /\ F[m - 1] = G[m - 1]
      <4> HIDE DEF v
      <4> QED
        BY <1>3, <1>6
    <3> QED
      BY <1>5, <2>1, <3>1
  <2>2. CASE i # m /\ i = 1
    <3>1. F[i] = G[i] /\ i \in 1..(m - 1)
      BY <1>3, <2>2
    <3> QED
      BY <1>8, <2>2, <3>1
  <2>3. CASE i # m /\ i # 1
    <3>1. i \in 1..(m - 1) /\ i - 1 \in 1..m /\ i - 1 # m
      BY <1>3, <2>3
    <3>2. F[i] = G[i] /\ F[i - 1] = G[i - 1]
      <4> HIDE DEF v
      <4> QED
        BY <2>3, <3>1
    <3> QED
      BY <1>8, <2>3, <3>1, <3>2
  <2> QED
    BY <2>1, <2>2, <2>3
<1>10. DOMAIN F = 1..m
  OBVIOUS
<1>11. E(m)
  <2> HIDE DEF F
  <2> QED
    BY <1>9, <1>10 DEF E
<1> QED
  BY <1>3, <1>11

\* FlattenSeq gives the last of the concatenations.
LEMMA FlattenJoins ==
  ASSUME NEW S, NEW ss \in Seq(Seq(S)), ss # <<>>
  PROVE  \E F : Joins(F, ss) /\ FlattenSeq(ss) = F[Len(ss)]
<1>1. Len(ss) \in Nat /\ Len(ss) >= 1 /\ Len(ss) # 0
  OBVIOUS
<1> DEFINE E(f) == f = [i \in 1..Len(ss) |-> IF i = 1 THEN ss[i] ELSE f[i - 1] \o ss[i]]
           flat == CHOOSE f : E(f)
<1>2. PICK G : /\ DOMAIN G = 1..Len(ss)
               /\ \A i \in 1..Len(ss) : G[i] = IF i = 1 THEN ss[1] ELSE G[i - 1] \o ss[i]
  <2>1. Len(ss) \in 1..Len(ss)
    BY <1>1
  <2> QED
    BY <2>1, JoinsExist
<1> DEFINE H == [i \in 1..Len(ss) |-> G[i]]
<1>3. E(H)
  <2>1. \A i \in 1..Len(ss) : i # 1 => i - 1 \in 1..Len(ss)
    BY <1>1
  <2>2. ASSUME NEW i \in 1..Len(ss)
        PROVE  G[i] = IF i = 1 THEN ss[i] ELSE H[i - 1] \o ss[i]
    BY <1>2, <2>1
  <2> QED
    BY <2>2
<1>4. E(flat)
  <2> HIDE DEF H, E
  <2> QED
    BY <1>3
<1>5. FlattenSeq(ss) = flat[Len(ss)]
  BY <1>1 DEF FlattenSeq
<1>6. Joins(flat, ss)
  <2> HIDE DEF flat
  <2> QED
    BY <1>4 DEF Joins
<1> QED
  BY <1>5, <1>6

\* The concatenations are sequences, each one a prefix of the next.
LEMMA JoinTypes ==
  ASSUME NEW S, NEW ss \in Seq(Seq(S)), NEW F, Joins(F, ss)
  PROVE  \A i \in 1..Len(ss) : F[i] \in Seq(S)
<1> DEFINE T == {i \in Nat : i \in 1..Len(ss) /\ F[i] \notin Seq(S)}
<1> SUFFICES ASSUME T # {} PROVE FALSE
  OBVIOUS
<1>1. T \in SUBSET Nat
  OBVIOUS
<1>2. PICK m \in T : \A k \in T : m <= k
  <2> HIDE DEF T
  <2> QED
    BY <1>1, LeastNumber
<1>3. m \in Nat /\ m \in 1..Len(ss) /\ F[m] \notin Seq(S) /\ ss[m] \in Seq(S)
  BY <1>2
<1>4. m # 1
  BY <1>3 DEF Joins
<1>5. m - 1 \in Nat /\ m - 1 \in 1..Len(ss) /\ m - 1 \notin T
  <2>1. m - 1 \notin T
    <3> HIDE DEF T
    <3> QED
      BY <1>2, <1>3
  <2> QED
    BY <1>3, <1>4, <2>1
<1>6. F[m - 1] \in Seq(S)
  BY <1>5
<1>7. F[m] = F[m - 1] \o ss[m]
  BY <1>3, <1>4 DEF Joins
<1> QED
  BY <1>3, <1>6, <1>7, Joined

\* Where the i-th sequence begins in the concatenation.
Begin(F, i) == IF i = 1 THEN 0 ELSE Len(F[i - 1])

\* One more sequence is at the end, and what was there stays.
LEMMA JoinNext ==
  ASSUME NEW S, NEW ss \in Seq(Seq(S)), NEW F, Joins(F, ss), NEW i \in 1..Len(ss)
  PROVE  /\ Begin(F, i) \in Nat /\ Len(ss[i]) \in Nat
         /\ Len(F[i]) = Begin(F, i) + Len(ss[i])
         /\ \A k \in 1..Len(ss[i]) : F[i][Begin(F, i) + k] = ss[i][k]
         /\ i # 1 => \A k \in 1..Len(F[i - 1]) : F[i][k] = F[i - 1][k]
<1>1. i \in Nat /\ F[i] \in Seq(S) /\ ss[i] \in Seq(S) /\ Len(ss[i]) \in Nat
  BY JoinTypes
<1>2. CASE i = 1
  <2>1. F[i] = ss[i] /\ Begin(F, i) = 0
    BY <1>2 DEF Joins, Begin
  <2> QED
    BY <1>1, <1>2, <2>1
<1>3. CASE i # 1
  <2>1. i - 1 \in 1..Len(ss)
    BY <1>3
  <2>2. F[i - 1] \in Seq(S) /\ Len(F[i - 1]) \in Nat
    BY <2>1, JoinTypes
  <2>3. F[i] = F[i - 1] \o ss[i] /\ Begin(F, i) = Len(F[i - 1])
    BY <1>3 DEF Joins, Begin
  <2>4. PICK s \in Seq(S), t \in Seq(S) : s = F[i - 1] /\ t = ss[i]
    BY <1>1, <2>2
  <2>5. /\ Len(s \o t) = Len(s) + Len(t)
        /\ \A k \in 1..Len(s) : (s \o t)[k] = s[k]
        /\ \A k \in 1..Len(t) : (s \o t)[Len(s) + k] = t[k]
    OBVIOUS
  <2>6. F[i] = s \o t /\ Begin(F, i) = Len(s) /\ Len(s) \in Nat
    BY <2>2, <2>3, <2>4
  <2> QED
    BY <1>1, <2>4, <2>5, <2>6, Zenon
<1> QED
  BY <1>2, <1>3

\* A concatenation is a prefix of every longer one.
LEMMA JoinPrefix ==
  ASSUME NEW S, NEW ss \in Seq(Seq(S)), NEW F, Joins(F, ss), NEW i \in 1..Len(ss),
         NEW j \in i..Len(ss)
  PROVE  /\ Len(F[i]) \in Nat /\ Len(F[i]) <= Len(F[j])
         /\ \A k \in 1..Len(F[i]) : F[j][k] = F[i][k]
<1> DEFINE P(m) == Len(F[i]) <= Len(F[m]) /\ \A k \in 1..Len(F[i]) : F[m][k] = F[i][k]
           T == {m \in Nat : m \in i..Len(ss) /\ ~P(m)}
<1>0. Len(F[i]) \in Nat /\ i \in Nat /\ j \in Nat
  BY JoinTypes
<1> SUFFICES ASSUME T # {} PROVE FALSE
  BY <1>0
<1>1. T \in SUBSET Nat
  OBVIOUS
<1>2. PICK m \in T : \A k \in T : m <= k
  <2> HIDE DEF T
  <2> QED
    BY <1>1, LeastNumber
<1>3. m \in Nat /\ m \in i..Len(ss) /\ ~P(m)
  <2> HIDE DEF P
  <2> QED
    BY <1>2
<1>4. m # i
  BY <1>0, <1>3
<1>5. m - 1 \in Nat /\ m - 1 \in i..Len(ss) /\ m - 1 \in 1..Len(ss) /\ m \in 1..Len(ss) /\ m # 1
  BY <1>0, <1>3, <1>4
<1>6. m - 1 \notin T
  <2> HIDE DEF T
  <2> QED
    BY <1>2, <1>3
<1>7. P(m - 1)
  <2> HIDE DEF P
  <2> QED
    BY <1>5, <1>6
<1>8. /\ Len(F[m - 1]) \in Nat /\ Len(ss[m]) \in Nat
      /\ Len(F[m]) = Len(F[m - 1]) + Len(ss[m])
      /\ \A k \in 1..Len(F[m - 1]) : F[m][k] = F[m - 1][k]
  <2>1. /\ Begin(F, m) \in Nat /\ Len(ss[m]) \in Nat
        /\ Len(F[m]) = Begin(F, m) + Len(ss[m])
        /\ m # 1 => \A k \in 1..Len(F[m - 1]) : F[m][k] = F[m - 1][k]
    <3>1. m \in 1..Len(ss)
      BY <1>5
    <3> QED
      BY <3>1, JoinNext, SMTT(30)
  <2>2. Begin(F, m) = Len(F[m - 1])
    BY <1>5 DEF Begin
  <2> QED
    BY <1>5, <2>1, <2>2
<1>9. PICK a \in Nat, b \in Nat, c \in Nat :
        a = Len(F[i]) /\ b = Len(F[m - 1]) /\ c = Len(ss[m]) /\ Len(F[m]) = b + c
  BY <1>0, <1>8
<1>10. a <= b
  BY <1>7, <1>9
<1>11. Len(F[i]) <= Len(F[m])
  <2>1. a <= b + c
    BY <1>10
  <2> QED
    BY <1>9, <2>1, Zenon
<1>12. ASSUME NEW k \in 1..Len(F[i]) PROVE F[m][k] = F[i][k]
  <2>1. k \in 1..a /\ 1..a \subseteq 1..b
    <3>1. \A x \in 1..a : x \in 1..b
      <4> SUFFICES ASSUME NEW x \in 1..a PROVE x \in 1..b
        OBVIOUS
      <4> QED
        BY <1>10
    <3>2. k \in 1..a
      BY <1>9, Zenon
    <3> QED
      BY <3>1, <3>2, Zenon
  <2> QED
    BY <1>7, <1>8, <1>9, <2>1
<1> QED
  BY <1>3, <1>11, <1>12

\* What FlattenSeq computes: the sequences, one after the other.
Laid(all, ss, at) ==
  /\ at \in [1..Len(ss) -> Nat]
  /\ \A i \in 1..Len(ss) : \A k \in 1..Len(ss[i]) :
       at[i] + k \in 1..Len(all) /\ all[at[i] + k] = ss[i][k]
  /\ \A p \in 1..Len(all) : \E i \in 1..Len(ss) : \E k \in 1..Len(ss[i]) : p = at[i] + k
  /\ \A i, j \in 1..Len(ss) : i < j => at[i] + Len(ss[i]) <= at[j]

\* Every element of every sequence has its place in FlattenSeq, in order, and
\* there are no others.
LEMMA FlattenLaid ==
  ASSUME NEW S, NEW ss \in Seq(Seq(S))
  PROVE  FlattenSeq(ss) \in Seq(S) /\ \E at : Laid(FlattenSeq(ss), ss, at)
<1>1. CASE ss = <<>>
  <2>1. FlattenSeq(ss) = <<>> /\ Len(ss) = 0
    BY <1>1 DEF FlattenSeq
  <2> DEFINE at == [i \in 1..Len(ss) |-> 0]
  <2>2. Laid(<<>>, ss, at)
    BY <1>1, <2>1 DEF Laid
  <2> QED
    BY <2>1, <2>2
<1>2. CASE ss # <<>>
  <2>1. PICK F : Joins(F, ss) /\ FlattenSeq(ss) = F[Len(ss)]
    BY <1>2, FlattenJoins
  <2>2. Len(ss) \in Nat /\ Len(ss) \in 1..Len(ss)
    BY <1>2
  <2>3. PICK all \in Seq(S) : all = FlattenSeq(ss) /\ all = F[Len(ss)]
    BY <2>1, <2>2, JoinTypes
  <2> DEFINE at == [i \in 1..Len(ss) |-> Begin(F, i)]
  <2>4. ASSUME NEW i \in 1..Len(ss)
        PROVE  /\ at[i] \in Nat /\ Len(ss[i]) \in Nat /\ Len(F[i]) = at[i] + Len(ss[i])
               /\ \A k \in 1..Len(ss[i]) : F[i][at[i] + k] = ss[i][k]
    BY <2>1, JoinNext
  <2>5. ASSUME NEW i \in 1..Len(ss)
        PROVE  /\ Len(F[i]) \in Nat /\ Len(F[i]) <= Len(all)
               /\ \A k \in 1..Len(F[i]) : all[k] = F[i][k]
    <3>1. Len(ss) \in i..Len(ss)
      BY <2>2
    <3> QED
      BY <2>1, <2>3, <3>1, JoinPrefix
  <2>6. at \in [1..Len(ss) -> Nat]
    BY <2>4
  <2>7. \A i \in 1..Len(ss) : i # 1 => at[i] = Len(F[i - 1])
    BY DEF Begin
  <2>8. 1 \in 1..Len(ss) => at[1] = 0
    BY DEF Begin
  <2> HIDE DEF at
  <2>9. ASSUME NEW i \in 1..Len(ss), NEW k \in 1..Len(ss[i])
        PROVE  at[i] + k \in 1..Len(all) /\ all[at[i] + k] = ss[i][k]
    <3>1. at[i] + k \in 1..Len(F[i])
      <4>1. PICK a \in Nat, n \in Nat : a = at[i] /\ n = Len(ss[i]) /\ Len(F[i]) = a + n
        BY <2>4
      <4>2. k \in 1..n => a + k \in 1..(a + n)
        OBVIOUS
      <4> QED
        BY <4>1, <4>2
    <3>2. Len(all) \in Nat /\ Len(F[i]) \in Nat /\ Len(F[i]) <= Len(all)
      BY <2>3, <2>5
    <3>3. at[i] + k \in 1..Len(all)
      BY <3>1, <3>2
    <3>4. all[at[i] + k] = F[i][at[i] + k] /\ F[i][at[i] + k] = ss[i][k]
      BY <2>4, <2>5, <3>1
    <3> QED
      BY <3>3, <3>4
  <2>10. ASSUME NEW p \in 1..Len(all)
         PROVE  \E i \in 1..Len(ss) : \E k \in 1..Len(ss[i]) : p = at[i] + k
    <3> DEFINE T == {i \in Nat : i \in 1..Len(ss) /\ p <= Len(F[i])}
    <3>1. T \in SUBSET Nat /\ Len(ss) \in T
      BY <2>2, <2>3
    <3>2. PICK i \in T : \A k \in T : i <= k
      <4> HIDE DEF T
      <4> QED
        BY <3>1, LeastNumber
    <3>3. i \in Nat /\ i \in 1..Len(ss) /\ p <= Len(F[i])
      BY <3>2
    <3>4. at[i] < p
      <4>1. CASE i = 1
        BY <2>8, <3>3, <4>1
      <4>2. CASE i # 1
        <5>1. i - 1 \in Nat /\ i - 1 \in 1..Len(ss)
          BY <3>3, <4>2
        <5>2. i - 1 \notin T
          <6> HIDE DEF T
          <6> QED
            BY <3>2, <3>3
        <5>3. ~(p <= Len(F[i - 1])) /\ Len(F[i - 1]) \in Nat
          BY <2>5, <5>1, <5>2
        <5> QED
          BY <2>7, <3>3, <4>2, <5>3
      <4> QED
        BY <4>1, <4>2
    <3>5. PICK a \in Nat, n \in Nat : a = at[i] /\ n = Len(ss[i]) /\ Len(F[i]) = a + n
      BY <2>4, <3>3
    <3>6. p - a \in 1..n /\ p = a + (p - a)
      <4>1. p \in Nat /\ a < p /\ p <= a + n
        <5>1. p \in Nat
          BY <2>3
        <5> QED
          BY <3>3, <3>4, <3>5, <5>1
      <4> QED
        BY <4>1
    <3> QED
      BY <3>3, <3>5, <3>6
  <2>11. ASSUME NEW i \in 1..Len(ss), NEW j \in 1..Len(ss), i < j
         PROVE  at[i] + Len(ss[i]) <= at[j]
    <3>1. j # 1 /\ j - 1 \in i..Len(ss)
      BY <2>2, <2>11
    <3>2. Len(F[i]) <= Len(F[j - 1])
      BY <2>1, <3>1, JoinPrefix
    <3> QED
      BY <2>4, <2>7, <3>1, <3>2
  <2>12. Laid(all, ss, at)
    BY <2>6, <2>9, <2>10, <2>11 DEF Laid
  <2> QED
    BY <2>3, <2>12
<1> QED
  BY <1>1, <1>2

-----------------------------------------------------------------------------
(* The table of the proxies *)

\* A set of indices has a greatest one.
LEMMA MaxIndex ==
  ASSUME NEW N \in Nat, NEW I \in SUBSET (1..N), I # {}
  PROVE  Max(I) \in I /\ \A p \in I : p <= Max(I)
<1> DEFINE T == {N - p : p \in I}
<1>1. T \in SUBSET Nat /\ T # {}
  <2>1. \A p \in I : N - p \in Nat
    OBVIOUS
  <2> QED
    BY <2>1
<1>2. PICK m \in T : \A k \in T : m <= k
  <2> HIDE DEF T
  <2> QED
    BY <1>1, LeastNumber
<1>3. PICK q \in I : m = N - q
  BY <1>2
<1>4. ASSUME NEW p \in I PROVE q >= p
  <2>1. N - p \in T
    OBVIOUS
  <2>2. m <= N - p
    <3> HIDE DEF T
    <3> QED
      BY <1>2, <2>1
  <2> QED
    BY <1>3, <2>2
<1>5. Max(I) \in I /\ \A p \in I : Max(I) >= p
  BY <1>4 DEF Max
<1> QED
  BY <1>5

\* Numbering the proxies of an entry gives different names.
LEMMA NumbersDiffer ==
  ASSUME NEW s, Tuple(s), NEW a \in Nat, NEW b \in Nat, Append(s, a) = Append(s, b)
  PROVE  a = b
<1> DEFINE T == {s[j] : j \in 1..Len(s)} \cup Nat
<1>1. s \in Seq(T) /\ a \in T /\ b \in T
  BY DEF Tuple
<1> HIDE DEF T
<1>2. PICK t \in Seq(T) : t = s
  BY <1>1
<1>3. Append(t, a)[Len(t) + 1] = a /\ Append(t, b)[Len(t) + 1] = b
  BY <1>1
<1> QED
  BY <1>2, <1>3, Zenon

\* The slots of a list of good entries, by entry and place in the entry.
LEMMA SlotPlaces ==
  ASSUME NEW l \in ProxyLists, \A i \in 1..Len(l) : Good(l[i])
  PROVE  /\ Len(l) \in Nat
         /\ \A i \in 1..Len(l) :
              /\ Tuple(l[i].Name) /\ Size(l[i]) \in Nat /\ Size(l[i]) > 0
              /\ Expand(l[i]) = [k \in 1..Size(l[i]) |-> SlotProxy(l, <<i, k - 1>>)]
              /\ \A k \in 1..Size(l[i]) : <<i, k - 1>> \in Slots(l)
         /\ \A x \in Slots(l) :
              /\ x[1] \in 1..Len(l) /\ x[2] \in Nat /\ x[2] + 1 \in 1..Size(l[x[1]])
              /\ x = <<x[1], (x[2] + 1) - 1>>
<1>1. Len(l) \in Nat /\ \A i \in 1..Len(l) : Entry(l[i])
  BY ListsAssumption DEF Tuple, Entry
<1>2. ASSUME NEW i \in 1..Len(l)
      PROVE  /\ Tuple(l[i].Name) /\ Size(l[i]) \in Nat /\ Size(l[i]) > 0
             /\ Expand(l[i]) = [k \in 1..Size(l[i]) |-> SlotProxy(l, <<i, k - 1>>)]
             /\ \A k \in 1..Size(l[i]) : <<i, k - 1>> \in Slots(l)
  <2>1. PICK p : p = l[i]
    OBVIOUS
  <2>2. Entry(p) /\ Good(p)
    BY <1>1, <2>1
  <2>3. /\ Size(p) \in Nat /\ Size(p) > 0 /\ Size(p) <= MaxPort
        /\ Expand(p) =
             [k \in 1..Size(p) |->
                [Name |-> IF Size(p) > 1 THEN Append(p.Name, k - 1) ELSE p.Name,
                 LocalPort |-> p.LocalPort[1] + k - 1,
                 RemotePort |-> p.RemotePort[1] + k - 1]]
    BY <2>2, ExpandGood
  <2>4. p.LocalPort[1] \in Int /\ p.RemotePort[1] \in Int
    <3>1. p.LocalPort \in Seq(Int) /\ p.RemotePort \in Seq(Int)
      BY <2>2 DEF Entry
    <3>2. Len(p.LocalPort) \in {1, 2} /\ Len(p.RemotePort) \in {1, 2}
      BY <2>2, FS_EmptySet DEF Good, Size, Span
    <3> QED
      BY <3>1, <3>2
  <2>5. ASSUME NEW k \in 1..Size(p)
        PROVE  SlotProxy(l, <<i, k - 1>>) =
                 [Name |-> IF Size(p) > 1 THEN Append(p.Name, k - 1) ELSE p.Name,
                  LocalPort |-> p.LocalPort[1] + k - 1,
                  RemotePort |-> p.RemotePort[1] + k - 1]
    <3>1. /\ p.LocalPort[1] + k - 1 = p.LocalPort[1] + (k - 1)
          /\ p.RemotePort[1] + k - 1 = p.RemotePort[1] + (k - 1)
      BY <2>4
    <3>2. Size(p) > 1 <=> Size(p) # 1
      BY <2>3
    <3>3. SlotProxy(l, <<i, k - 1>>) =
            [Name |-> IF Size(p) = 1 THEN p.Name ELSE Append(p.Name, k - 1),
             LocalPort |-> p.LocalPort[1] + (k - 1),
             RemotePort |-> p.RemotePort[1] + (k - 1)]
      BY <2>1 DEF SlotProxy, SlotName
    <3> QED
      BY <3>1, <3>2, <3>3
  <2>6. Expand(p) = [k \in 1..Size(p) |-> SlotProxy(l, <<i, k - 1>>)]
    BY <2>3, <2>5
  <2>7. ASSUME NEW k \in 1..Size(p) PROVE <<i, k - 1>> \in Slots(l)
    <3>1. k - 1 \in 0..MaxPort /\ k - 1 < Size(p)
      BY <2>3, ConfigAssumption
    <3> QED
      BY <2>1, <3>1 DEF Slots
  <2>8. Tuple(p.Name)
    BY <2>2 DEF Entry
  <2> QED
    BY <2>1, <2>3, <2>6, <2>7, <2>8
<1>3. ASSUME NEW x \in Slots(l)
      PROVE  /\ x[1] \in 1..Len(l) /\ x[2] \in Nat /\ x[2] + 1 \in 1..Size(l[x[1]])
             /\ x = <<x[1], (x[2] + 1) - 1>>
  <2>1. /\ x \in (1..Len(l)) \X (0..MaxPort) /\ x[2] < Size(l[x[1]])
    BY DEF Slots
  <2>2. PICK i \in 1..Len(l), k \in Nat : x = <<i, k>>
    BY <2>1
  <2>3. k < Size(l[i]) /\ Size(l[i]) \in Nat
    BY <1>2, <2>1, <2>2
  <2> QED
    BY <2>2, <2>3
<1> QED
  BY <1>1, <1>2, <1>3

\* The expanded entries one after the other: what is where.
Placed(l, all, at) ==
  /\ Len(all) \in Nat
  /\ \A i \in 1..Len(l) : at[i] \in Nat
  /\ \A x \in Slots(l) :
       at[x[1]] + (x[2] + 1) \in 1..Len(all) /\ all[at[x[1]] + (x[2] + 1)] = SlotProxy(l, x)
  /\ \A p \in 1..Len(all) : \E x \in Slots(l) : p = at[x[1]] + (x[2] + 1)
  /\ \A i, j \in 1..Len(l) : i < j => at[i] + Size(l[i]) <= at[j]

\* FlattenSeq of the expanded entries lays out the slots.
LEMMA SlotsPlaced ==
  ASSUME NEW l \in ProxyLists, \A i \in 1..Len(l) : Good(l[i])
  PROVE  \E at : Placed(l, FlattenSeq([i \in 1..Len(l) |-> Expand(l[i])]), at)
<1> DEFINE ss == [i \in 1..Len(l) |-> Expand(l[i])]
           S == {SlotProxy(l, x) : x \in Slots(l)}
           all == FlattenSeq(ss)
<1>1. /\ Len(l) \in Nat
      /\ \A i \in 1..Len(l) :
           /\ Size(l[i]) \in Nat
           /\ Expand(l[i]) = [k \in 1..Size(l[i]) |-> SlotProxy(l, <<i, k - 1>>)]
           /\ \A k \in 1..Size(l[i]) : <<i, k - 1>> \in Slots(l)
  BY SlotPlaces
<1>2. \A x \in Slots(l) :
        /\ x[1] \in 1..Len(l) /\ x[2] \in Nat /\ x[2] + 1 \in 1..Size(l[x[1]])
        /\ x = <<x[1], (x[2] + 1) - 1>>
  BY SlotPlaces
<1>3. ASSUME NEW i \in 1..Len(l)
      PROVE  Expand(l[i]) \in Seq(S) /\ Len(Expand(l[i])) = Size(l[i])
  <2>1. \A k \in 1..Size(l[i]) : SlotProxy(l, <<i, k - 1>>) \in S
    BY <1>1
  <2> HIDE DEF S
  <2>2. Expand(l[i]) = [k \in 1..Size(l[i]) |-> SlotProxy(l, <<i, k - 1>>)]
    BY <1>1
  <2>3. Expand(l[i]) \in [1..Size(l[i]) -> S]
    BY <2>1, <2>2
  <2>4. Size(l[i]) \in Nat
    BY <1>1
  <2> QED
    BY <2>3, <2>4
<1>4. ss \in Seq(Seq(S)) /\ Len(ss) = Len(l)
  <2> HIDE DEF S
  <2> QED
    BY <1>1, <1>3
<1>5. \A i \in 1..Len(l) :
        /\ ss[i] = Expand(l[i]) /\ Len(ss[i]) = Size(l[i])
        /\ \A k \in 1..Size(l[i]) : ss[i][k] = SlotProxy(l, <<i, k - 1>>)
  <2> HIDE DEF S
  <2> QED
    BY <1>1, <1>3
<1> HIDE DEF S, ss
<1>6. all \in Seq(S) /\ \E at : Laid(all, ss, at)
  BY <1>4, FlattenLaid
<1> HIDE DEF all
<1>7. PICK at : Laid(all, ss, at)
  BY <1>6
<1>8. \A i \in 1..Len(l) : at[i] \in Nat
  BY <1>4, <1>7 DEF Laid
<1>9. ASSUME NEW x \in Slots(l)
      PROVE  /\ at[x[1]] + (x[2] + 1) \in 1..Len(all)
             /\ all[at[x[1]] + (x[2] + 1)] = SlotProxy(l, x)
  <2>1. PICK i \in 1..Len(l), k \in Nat :
          i = x[1] /\ k = x[2] + 1 /\ x = <<i, k - 1>> /\ k \in 1..Size(l[i])
    BY <1>2
  <2>2. i \in 1..Len(ss) /\ k \in 1..Len(ss[i]) /\ ss[i][k] = SlotProxy(l, <<i, k - 1>>)
    BY <1>4, <1>5, <2>1
  <2>3. at[i] + k \in 1..Len(all) /\ all[at[i] + k] = ss[i][k]
    BY <1>7, <2>2 DEF Laid
  <2>4. all[at[i] + k] = SlotProxy(l, x)
    BY <2>1, <2>2, <2>3, Zenon
  <2> QED
    BY <2>1, <2>3, <2>4, Zenon
<1>10. ASSUME NEW p \in 1..Len(all)
       PROVE  \E x \in Slots(l) : p = at[x[1]] + (x[2] + 1)
  <2>1. PICK i \in 1..Len(ss) : \E k \in 1..Len(ss[i]) : p = at[i] + k
    BY <1>7 DEF Laid
  <2>2. i \in 1..Len(l) /\ Len(ss[i]) = Size(l[i])
    BY <1>4, <1>5
  <2>3. PICK k \in 1..Size(l[i]) : p = at[i] + k
    BY <2>1, <2>2
  <2>4. <<i, k - 1>> \in Slots(l) /\ (k - 1) + 1 = k
    <3>1. <<i, k - 1>> \in Slots(l)
      BY <1>1, <2>2
    <3>2. (k - 1) + 1 = k
      BY <1>1, <2>2
    <3> QED
      BY <3>1, <3>2
  <2>5. <<i, k - 1>>[1] = i /\ <<i, k - 1>>[2] = k - 1
    OBVIOUS
  <2>6. p = at[<<i, k - 1>>[1]] + (<<i, k - 1>>[2] + 1)
    BY <2>3, <2>4, <2>5, Zenon
  <2> QED
    BY <2>4, <2>6, Zenon
<1>11. ASSUME NEW i \in 1..Len(l), NEW j \in 1..Len(l), i < j
       PROVE  at[i] + Size(l[i]) <= at[j]
  <2>1. i \in 1..Len(ss) /\ j \in 1..Len(ss) /\ Len(ss[i]) = Size(l[i])
    BY <1>4, <1>5
  <2>2. at[i] + Len(ss[i]) <= at[j]
    BY <1>7, <1>11, <2>1 DEF Laid
  <2> QED
    BY <2>1, <2>2
<1>12. Len(all) \in Nat
  BY <1>6
<1>13. Placed(l, all, at)
  BY <1>8, <1>9, <1>10, <1>11, <1>12, Zenon DEF Placed
<1> QED
  BY <1>13 DEF all, ss

\* A slot of a name that is not in a later entry than the slot x of that name,
\* nor before x, is x.
LEMMA LastSlot ==
  ASSUME NEW l \in ProxyLists, \A i \in 1..Len(l) : Good(l[i]), NEW all, NEW at,
         Placed(l, all, at), NEW x \in Slots(l), NEW y \in Slots(l),
         SlotName(l, y) = SlotName(l, x),
         at[x[1]] + (x[2] + 1) <= at[y[1]] + (y[2] + 1)
  PROVE  y[1] > x[1] \/ SlotProxy(l, y) = SlotProxy(l, x)
<1>1. /\ x[1] \in 1..Len(l) /\ x[2] \in Nat /\ x[2] + 1 \in 1..Size(l[x[1]])
      /\ x = <<x[1], (x[2] + 1) - 1>>
  BY SlotPlaces
<1>2. /\ y[1] \in 1..Len(l) /\ y[2] \in Nat /\ y[2] + 1 \in 1..Size(l[y[1]])
      /\ y = <<y[1], (y[2] + 1) - 1>>
  BY SlotPlaces
<1>3. Len(l) \in Nat /\ \A i \in 1..Len(l) : Tuple(l[i].Name) /\ Size(l[i]) \in Nat
  BY SlotPlaces
<1>4. PICK i \in 1..Len(l), a \in Nat : i = x[1] /\ a = x[2] /\ a + 1 \in 1..Size(l[i])
  BY <1>1
<1>5. PICK j \in 1..Len(l), b \in Nat : j = y[1] /\ b = y[2] /\ b + 1 \in 1..Size(l[j])
  BY <1>2
<1>6. at[i] \in Nat /\ at[j] \in Nat /\ Size(l[j]) \in Nat /\ (j < i => at[j] + Size(l[j]) <= at[i])
  BY <1>3 DEF Placed
<1>7. at[i] + (a + 1) <= at[j] + (b + 1)
  BY <1>4, <1>5, Zenon
<1>8. ~(j < i)
  <2> SUFFICES ASSUME j < i PROVE FALSE
    OBVIOUS
  <2>1. PICK u \in Nat, v \in Nat, z \in Nat : u = at[i] /\ v = at[j] /\ z = Size(l[j])
    BY <1>6
  <2>2. v + z <= u /\ u + (a + 1) <= v + (b + 1) /\ b + 1 \in 1..z
    BY <1>5, <1>6, <1>7, <2>1
  <2> QED
    BY <2>2
<1>9. CASE j > i
  BY <1>4, <1>5, <1>9
<1>10. CASE j = i
  <2>1. a = b
    <3>1. CASE Size(l[i]) = 1
      BY <1>4, <1>5, <1>10, <3>1
    <3>2. CASE Size(l[i]) # 1
      <4>1. SlotName(l, x) = Append(l[i].Name, a) /\ SlotName(l, y) = Append(l[i].Name, b)
        BY <1>4, <1>5, <1>10, <3>2 DEF SlotName
      <4>2. Append(l[i].Name, a) = Append(l[i].Name, b)
        BY <4>1
      <4>3. Tuple(l[i].Name)
        BY <1>3
      <4> QED
        BY <4>2, <4>3, NumbersDiffer
    <3> QED
      BY <3>1, <3>2
  <2>2. x[1] = y[1] /\ x[2] = y[2]
    BY <1>4, <1>5, <1>10, <2>1
  <2> QED
    BY <2>2 DEF SlotProxy, SlotName
<1> QED
  BY <1>8, <1>9, <1>10

\* Of the proxies of a name, SelectLastInSeq takes that of the last entry.
LEMMA TableLast ==
  ASSUME NEW l \in ProxyLists, \A i \in 1..Len(l) : Good(l[i]), NEW all, NEW at,
         Placed(l, all, at), NEW x \in Slots(l)
  PROVE  LET q == SelectLastInSeq(all, LAMBDA e : e.Name = SlotName(l, x))
         IN \/ all[q] = SlotProxy(l, x)
            \/ \E y \in Slots(l) : y[1] > x[1] /\ SlotName(l, y) = SlotName(l, x)
<1> DEFINE n == SlotName(l, x)
           I == {p \in 1..Len(all) : all[p].Name = n}
           q == SelectLastInSeq(all, LAMBDA e : e.Name = n)
           p0 == at[x[1]] + (x[2] + 1)
<1>1. q = IF I # {} THEN Max(I) ELSE 0
  BY DEF SelectLastInSeq
<1> HIDE DEF q
<1>2. \A y \in Slots(l) : SlotProxy(l, y).Name = SlotName(l, y)
  BY DEF SlotProxy
<1>3. p0 \in 1..Len(all) /\ all[p0] = SlotProxy(l, x)
  BY DEF Placed
<1>4. p0 \in I
  BY <1>2, <1>3
<1>5. Len(all) \in Nat /\ I \in SUBSET (1..Len(all))
  BY DEF Placed
<1>6. \A p \in I : p \in 1..Len(all) /\ all[p].Name = n
  OBVIOUS
<1> HIDE DEF I, p0
<1>7. q \in I /\ p0 <= q
  BY <1>1, <1>4, <1>5, MaxIndex
<1>8. q \in 1..Len(all) /\ all[q].Name = n
  BY <1>6, <1>7
<1>9. PICK y \in Slots(l) : q = at[y[1]] + (y[2] + 1)
  BY <1>8 DEF Placed
<1>10. all[q] = SlotProxy(l, y)
  BY <1>9 DEF Placed
<1>11. SlotName(l, y) = n
  BY <1>2, <1>8, <1>10
<1>12. at[x[1]] + (x[2] + 1) <= at[y[1]] + (y[2] + 1)
  BY <1>7, <1>9 DEF p0
<1>13. y[1] > x[1] \/ SlotProxy(l, y) = SlotProxy(l, x)
  BY <1>11, <1>12, LastSlot
<1> QED
  BY <1>10, <1>11, <1>13 DEF q

\* The table client.New makes has the names of the slots, and for each slot
\* its proxy, or one of a later entry.
LEMMA TableRight ==
  ASSUME NEW l \in ProxyLists, \A i \in 1..Len(l) : Good(l[i])
  PROVE  /\ DOMAIN ProxyTable(l) = {SlotName(l, x) : x \in Slots(l)}
         /\ \A x \in Slots(l) :
              \/ ProxyTable(l)[SlotName(l, x)] = SlotProxy(l, x)
              \/ \E y \in Slots(l) : y[1] > x[1] /\ SlotName(l, y) = SlotName(l, x)
<1> DEFINE all == FlattenSeq([i \in 1..Len(l) |-> Expand(l[i])])
           names == {all[i].Name : i \in 1..Len(all)}
           last(n) == SelectLastInSeq(all, LAMBDA e : e.Name = n)
<1>1. PICK at : Placed(l, all, at)
  BY SlotsPlaced
<1>2. ProxyTable(l) = [n \in names |-> all[last(n)]]
  BY DEF ProxyTable
<1> HIDE DEF all
<1>3. \A y \in Slots(l) : SlotProxy(l, y).Name = SlotName(l, y)
  BY DEF SlotProxy
<1>4. names = {SlotName(l, x) : x \in Slots(l)}
  <2>1. ASSUME NEW i \in 1..Len(all)
        PROVE  \E x \in Slots(l) : all[i].Name = SlotName(l, x)
    BY <1>1, <1>3 DEF Placed
  <2>2. ASSUME NEW x \in Slots(l)
        PROVE  \E i \in 1..Len(all) : all[i].Name = SlotName(l, x)
    BY <1>1, <1>3 DEF Placed
  <2> QED
    BY <2>1, <2>2
<1>5. ASSUME NEW x \in Slots(l)
      PROVE  \/ ProxyTable(l)[SlotName(l, x)] = SlotProxy(l, x)
             \/ \E y \in Slots(l) : y[1] > x[1] /\ SlotName(l, y) = SlotName(l, x)
  <2>1. \/ all[last(SlotName(l, x))] = SlotProxy(l, x)
        \/ \E y \in Slots(l) : y[1] > x[1] /\ SlotName(l, y) = SlotName(l, x)
    BY <1>1, TableLast
  <2>2. SlotName(l, x) \in names
    BY <1>4
  <2> HIDE DEF last
  <2>3. ProxyTable(l)[SlotName(l, x)] = all[last(SlotName(l, x))]
    BY <1>2, <2>2
  <2> QED
    BY <2>1, <2>3
<1>6. DOMAIN ProxyTable(l) = names
  <2> HIDE DEF names, last
  <2> QED
    BY <1>2
<1> QED
  BY <1>4, <1>5, <1>6

\* The table of a client that is up, and the reason of one that is refused.
Table ==
  /\ list \in ProxyLists
  /\ client \in {"down", "up", "refused"}
  /\ client = "refused" => settings.mtmux \/ \E i \in 1..Len(list) : ~Good(list[i])
  /\ client = "up" => /\ \A i \in 1..Len(list) : Good(list[i])
                      /\ proxies = ProxyTable(list)

\* client.New refuses a bad entry and makes the table of good ones.
LEMMA StartClientTable ==
  ASSUME Table, StartClient PROVE Table'
<1>1. UNCHANGED <<settings, list>> /\ list \in ProxyLists
  BY DEF Table, StartClient, fileVars
<1>2. \A i \in 1..Len(list) : ExpandFails(list[i]) <=> ~Good(list[i])
  <2>1. \A i \in 1..Len(list) : Entry(list[i])
    BY <1>1, ListsAssumption DEF Entry
  <2> QED
    BY <2>1, ExpandGood
<1>3. LoadFails(settings) => settings.mtmux
  BY DEF LoadFails
<1>4. CASE LoadFails(settings) \/ \E i \in 1..Len(list) : ExpandFails(list[i])
  <2>1. client' = "refused"
    BY <1>4 DEF StartClient
  <2>2. settings.mtmux \/ \E i \in 1..Len(list) : ~Good(list[i])
    BY <1>2, <1>3, <1>4
  <2> QED
    BY <1>1, <2>1, <2>2 DEF Table
<1>5. CASE ~(LoadFails(settings) \/ \E i \in 1..Len(list) : ExpandFails(list[i]))
  <2>1. client' = "up" /\ proxies' = ProxyTable(list)
    BY <1>5 DEF StartClient
  <2>2. \A i \in 1..Len(list) : Good(list[i])
    BY <1>2, <1>5
  <2> QED
    BY <1>1, <2>1, <2>2 DEF Table
<1> QED
  BY <1>4, <1>5

-----------------------------------------------------------------------------
(* The theorems *)

\* The invariant of the start: a server that is up serves what its files
\* hold unless saving it failed, whatever crashes happened before
\* (NewCertManager, saveCert).
THEOREM StartupSafety == Spec => []StartupInv
<1>1. Init => StartupInv
  BY InvariantInit
<1>2. StartupInv /\ [Next]_vars => StartupInv'
  BY StartServerStep, LoadPairStep, GenerateStep, WriteCertStep, WriteKeyStep, SaveFailsStep,
     CrashStep, ConnectStep DEF Next
<1> QED
  BY <1>1, <1>2, PTL DEF Spec

\* Clients are shown a new identity only after a save has failed, for any
\* number of crashes and restarts (NewCertManager, saveCert).
THEOREM IdentitiesFew == Spec => []FewIdentities
<1>1. ASSUME StartupInv PROVE FewIdentities
  <2>1. SUFFICES ASSUME BothPaths PROVE Cardinality(seen) <= 1 + failures
    BY DEF FewIdentities
  <2>2. PICK S \in SUBSET Identities : S = seen \cup MayShow
    BY <1>1, FewFinite DEF StartupInv
  <2>3. PICK T \in SUBSET S : T = seen
    BY <2>2
  <2>4. /\ Cardinality(T) \in Nat /\ Cardinality(S) \in Nat /\ failures \in Nat
        /\ Cardinality(T) <= Cardinality(S)
    BY <1>1, FewerShown, NumberTypes DEF StartupInv
  <2>5. Cardinality(S) <= failures + (IF PairLoads THEN 1 ELSE 0)
    BY <1>1, <2>1, <2>2 DEF StartupInv, IdentitiesPaid
  <2>6. CASE PairLoads
    BY <2>3, <2>4, <2>5, <2>6
  <2>7. CASE ~PairLoads
    BY <2>3, <2>4, <2>5, <2>7
  <2> QED
    BY <2>6, <2>7
<1> QED
  BY <1>1, StartupSafety, PTL

\* A client configured like the server, with skip_verify, is refused only for
\* files that do not match or a crypto nobody knows (crypto.New, WrapConn).
THEOREM MatchedClientConnects == Spec => []MatchedConnects
<1>1. ASSUME StartupInv PROVE MatchedConnects
  <2>1. SUFFICES ASSUME conn = "failed", skipVerify, caCert # "missing"
                 PROVE  /\ settings.transport # "quic" /\ ~PairLoads
                        /\ BothPaths \/ settings.crypto \notin {"", "tls"}
    BY DEF MatchedConnects
  <2>2. ~NeedsManager /\ ~PairLoads /\ TypeOK
    BY <1>1, <2>1 DEF StartupInv, RefusedUnmanaged
  <2> QED
    BY <2>2, SettingsRead DEF NeedsManager, BothPaths
<1> QED
  BY <1>1, StartupSafety, PTL

\* The proxies of the client are those its file lists, for any file: ranges
\* keep their order, no port is left out or doubled, and of two entries that
\* take a name the later wins (Expand, client.New).
THEOREM ProxiesRight == Spec => []ProxiesAsConfigured
<1>1. Init => Table
  BY DEF Init, Table
<1>2. Table /\ [Next]_vars => Table'
  <2>1. ASSUME Table, StartClient PROVE Table'
    BY <2>1, StartClientTable
  <2>2. ASSUME Table, UNCHANGED <<fileVars, clientVars>> PROVE Table'
    BY <2>2 DEF Table, fileVars, clientVars
  <2>3. [Next]_vars => StartClient \/ UNCHANGED <<fileVars, clientVars>>
    BY DEF Next, StartServer, LoadPair, Generate, WriteCert, WriteKey, SaveFails, Crash, Connect,
       vars
  <2> QED
    BY <2>1, <2>2, <2>3
<1>3. Table => ProxiesAsConfigured
  BY TableRight DEF Table, ProxiesAsConfigured
<1> QED
  BY <1>1, <1>2, <1>3, PTL DEF Spec
=============================================================================
