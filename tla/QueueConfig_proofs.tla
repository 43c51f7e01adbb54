------------------------- MODULE QueueConfig_proofs -------------------------
(***************************************************************************)
(* Proofs about lib/connections.js: what normalising lets through and what *)
(* is built from it, for any settings and any credentials.                 *)
(***************************************************************************)
EXTENDS QueueConfig, TLAPS

(* What createResource() builds from the config of now.                    *)
ResourceOf(role) ==
  [role |-> role,
   connection |-> IF config.backend = "postgres" THEN config
                  ELSE BuildRedisDescriptor(role),
   options |-> BuildBullMQOptions(role)]

(* The config is what normalising has made of the settings, and a resource *)
(* is built from that config.                                              *)
QInv ==
  /\ settings \in Settings
  /\ credentials \subseteq Secret
  /\ config \in {Missing, NormalizeQueueConfig(settings)}
  /\ built # Missing =>
       /\ config \notin {Missing, Rejected}
       /\ \E role \in Roles : built = ResourceOf(role)

(* Neither depends on what the last step has built.                        *)
LEMMA NormalizingReadsOnlySettings ==
  ASSUME UNCHANGED <<settings, credentials>>
  PROVE  NormalizeQueueConfig(settings)' = NormalizeQueueConfig(settings)
BY DEF NormalizeQueueConfig, NormalizePostgres, NormalizeRedis, ReadSecrets,
       TlsOptions, CommonOk, RedisOk, PostgresOk, ClusterNodesOk,
       SentinelsOk, EndpointOk, PortOk, Backend, OrDefault,
       ParseEndpointList, Tls, SentinelTls, Verify, ToBoolean

LEMMA BuildingReadsOnlyConfig ==
  ASSUME UNCHANGED config, NEW role \in Roles
  PROVE  ResourceOf(role)' = ResourceOf(role)
BY DEF ResourceOf, BuildRedisDescriptor, BuildBullMQOptions, DataOptions,
       RetryValueForRole, IsConsumerRole, TlsOptions

LEMMA NextKeepsQInv == QInv /\ [BuildNext]_buildVars => QInv'
<1> SUFFICES ASSUME QInv, [BuildNext]_buildVars PROVE QInv'
  OBVIOUS
<1>1. UNCHANGED <<settings, credentials>>
  BY DEF BuildNext, Normalize, CreateResource, buildVars
<1>2. NormalizeQueueConfig(settings)' = NormalizeQueueConfig(settings)
  BY <1>1, NormalizingReadsOnlySettings
<1>3. CASE UNCHANGED buildVars
  <2>1. UNCHANGED <<config, built>>
    BY <1>3 DEF buildVars
  <2>2. \A role \in Roles : ResourceOf(role)' = ResourceOf(role)
    BY <2>1, BuildingReadsOnlyConfig
  <2> QED BY <1>1, <1>2, <2>1, <2>2 DEF QInv
<1>4. CASE Normalize
  <2>1. config = Missing /\ config' = NormalizeQueueConfig(settings)
        /\ built' = built
    BY <1>4 DEF Normalize
  <2>2. built = Missing
    BY <2>1 DEF QInv
  <2> QED BY <1>1, <1>2, <2>1, <2>2 DEF QInv
<1>5. ASSUME NEW role \in Roles, CreateResource(role)
      PROVE  QInv'
  <2>1. /\ config \notin {Missing, Rejected} /\ config' = config
        /\ built' = ResourceOf(role)
    BY <1>5 DEF CreateResource, ResourceOf
  <2>2. ResourceOf(role)' = ResourceOf(role)
    BY <2>1, BuildingReadsOnlyConfig
  <2> QED BY <1>1, <1>2, <2>1, <2>2 DEF QInv
<1> QED BY <1>3, <1>4, <1>5 DEF BuildNext

(* What is built comes from the settings, in every reachable state.        *)
THEOREM BuildInvariance == BuildSafety => []QInv
<1>1. settings \in Settings /\ credentials \subseteq Secret /\ BuildInit
        => QInv
  BY DEF BuildInit, QInv
<1> QED BY <1>1, NextKeepsQInv, PTL DEF BuildSafety
-----------------------------------------------------------------------------
(* A config that was accepted has passed the checks of its backend.        *)
LEMMA AcceptedByBackend ==
  ASSUME QInv, config \notin {Missing, Rejected}
  PROVE  \/ /\ Backend(settings) = "postgres" /\ PostgresOk(settings)
            /\ config = NormalizePostgres(settings)
            /\ config.backend = "postgres"
         \/ /\ Backend(settings) = "redis" /\ RedisOk(settings)
            /\ config = NormalizeRedis(settings)
            /\ config.backend = "redis"
<1>1. NormalizePostgres(settings).backend = "postgres"
  BY DEF NormalizePostgres
<1>2. NormalizeRedis(settings).backend = "redis"
  BY DEF NormalizeRedis
<1>3. config = NormalizeQueueConfig(settings) /\ config # Rejected
  BY DEF QInv
<1>4. CASE Backend(settings) = "postgres"
  BY <1>1, <1>3, <1>4 DEF NormalizeQueueConfig
<1>5. CASE Backend(settings) = "redis"
  BY <1>2, <1>3, <1>5 DEF NormalizeQueueConfig
<1>6. CASE Backend(settings) \notin {"postgres", "redis"}
  BY <1>3, <1>6 DEF NormalizeQueueConfig
<1> QED BY <1>4, <1>5, <1>6

(* toBoolean() reads a switch as its forms that say yes are listed, and a  *)
(* blank one as its default.                                               *)
LEMMA SwitchesAreRead ==
  ASSUME NEW v \in Switch
  PROVE  /\ ToBoolean(v, FALSE) \in BOOLEAN /\ ToBoolean(v, TRUE) \in BOOLEAN
         /\ ToBoolean(v, FALSE) = (v \in Affirmative)
         /\ ToBoolean(v, TRUE) = (v \in Affirmative \cup {Blank})
<1>1. CASE v = Blank
  <2>1. Affirmative \subseteq Saved
    BY TextAssumption DEF Affirmative, Saved
  <2>2. v \notin Affirmative /\ v \in Affirmative \cup {Blank}
    BY <1>1, <2>1, BlankAssumption
  <2>3. (ToBoolean(v, FALSE) = FALSE) /\ (ToBoolean(v, TRUE) = TRUE)
    BY <1>1, Zenon DEF ToBoolean
  <2>4. /\ (v \in Affirmative) = FALSE
        /\ (v \in Affirmative \cup {Blank}) = TRUE
    BY <2>2
  <2> QED BY <2>3, <2>4
<1>2. CASE v # Blank
  <2>1. v \in Saved
    BY <1>2 DEF Switch
  <2>2. CASE v \in Affirmative
    <3>1. \/ v.type = "number" /\ v.value # "0"
          \/ v.type # "number" /\ v.value \in {"true", "1", "yes", "on"}
      BY <2>2 DEF Affirmative
    <3>2. \A default : ToBoolean(v, default) = TRUE
      BY <1>2, <3>1 DEF ToBoolean
    <3> QED BY <2>2, <3>2
  <2>3. CASE v \notin Affirmative
    <3>1. \/ v.type = "number" /\ v.value = "0"
          \/ v.type # "number" /\ v.value \notin {"true", "1", "yes", "on"}
      BY <2>1, <2>3 DEF Affirmative, Saved
    <3>2. \A default : ToBoolean(v, default) = FALSE
      BY <1>2, <3>1 DEF ToBoolean
    <3>3. /\ (v \in Affirmative) = FALSE
          /\ (v \in Affirmative \cup {Blank}) = FALSE
      BY <1>2, <2>3
    <3> QED BY <3>2, <3>3
  <2> QED BY <2>2, <2>3
<1> QED BY <1>1, <1>2

(* TLS options are there exactly when TLS is switched on, and say what the *)
(* settings say of verification.                                           *)
LEMMA TlsOptionsFollowTheSwitch ==
  ASSUME NEW verify \in BOOLEAN, NEW secrets, NEW enabled \in BOOLEAN
  PROVE  /\ (TlsOptions(verify, secrets, enabled) # Missing) = enabled
         /\ enabled =>
              TlsOptions(verify, secrets, enabled).rejectUnauthorized = verify
<1>1. [rejectUnauthorized |-> verify, files |-> secrets \cap TlsFile] \in
        [rejectUnauthorized : BOOLEAN, files : SUBSET TlsFile]
  OBVIOUS
<1>2. CASE enabled
  BY <1>1, <1>2, MissingAssumption DEF TlsOptions
<1>3. CASE ~ enabled
  BY <1>3 DEF TlsOptions
<1> QED BY <1>2, <1>3

(* What a resource on Redis was built with, in terms of the settings.      *)
LEMMA RedisResource ==
  ASSUME QInv, built # Missing, config.backend = "redis"
  PROVE  \E role \in Roles :
           /\ built.role = role
           /\ built.connection = BuildRedisDescriptor(role)
           /\ built.options.skipWaitingForReady = ~ IsConsumerRole(role)
<1>1. PICK role \in Roles : built = ResourceOf(role)
  BY DEF QInv
<1>2. /\ ResourceOf(role).role = role
      /\ ResourceOf(role).connection = BuildRedisDescriptor(role)
      /\ ResourceOf(role).options = BuildBullMQOptions(role)
  BY DEF ResourceOf
<1>3. BuildBullMQOptions(role).skipWaitingForReady =
        (~ IsConsumerRole(role) /\ config.backend # "postgres")
  BY DEF BuildBullMQOptions
<1> QED BY <1>1, <1>2, <1>3

(* Every socket to a data node has the options of DataOptions.             *)
LEMMA DescriptorHasDataOptions ==
  ASSUME NEW role \in Roles
  PROVE  BuildRedisDescriptor(role).redisOptions = DataOptions(role)
BY DEF BuildRedisDescriptor

(* Producers fail fast and consumers wait, both in the switch of their     *)
(* BullMQ owner and in the limit of their socket.                          *)
THEOREM RolesFailFast == BuildSafety => []FailFastByRole
<1>1. QInv => FailFastByRole
  <2> SUFFICES ASSUME QInv, built # Missing, config.backend = "redis"
               PROVE  LET waits == built.role \in {"worker", "events"} IN
                        /\ (built.connection.redisOptions.maxRetriesPerRequest
                              = Forever) = waits
                        /\ built.options.skipWaitingForReady = ~ waits
    BY DEF FailFastByRole
  <2>1. PICK role \in Roles :
          /\ built.role = role
          /\ built.connection = BuildRedisDescriptor(role)
          /\ built.options.skipWaitingForReady = ~ IsConsumerRole(role)
    BY RedisResource
  <2>2. built.connection.redisOptions.maxRetriesPerRequest =
          RetryValueForRole(role)
    <3>1. built.connection.redisOptions = DataOptions(role)
      BY <2>1, DescriptorHasDataOptions
    <3>2. DataOptions(role).maxRetriesPerRequest = RetryValueForRole(role)
      BY DEF DataOptions
    <3> QED BY <3>1, <3>2
  <2>3. (RetryValueForRole(role) = Forever) = (role \in {"worker", "events"})
    BY DEF RetryValueForRole, IsConsumerRole, Forever
  <2> QED BY <2>1, <2>2, <2>3 DEF IsConsumerRole
<1> QED BY <1>1, BuildInvariance, PTL

(* Normalising on PostgreSQL reads no field of Redis.                      *)
LEMMA PostgresReadsNoRedis ==
  ASSUME NEW s \in Settings, Backend(s) = "postgres"
  PROVE  NormalizeQueueConfig(WithoutRedis(s)) = NormalizeQueueConfig(s)
<1> DEFINE w == WithoutRedis(s)
<1>1. /\ w.backend = s.backend /\ w.host = s.host /\ w.port = s.port
      /\ w.max = s.max /\ w.verify = s.verify /\ w.tls = s.tls
      /\ w.alias = s.alias /\ w.plaintext = s.plaintext
      /\ w.name = s.name /\ w.keep = s.keep
  BY DEF WithoutRedis, Settings
<1> HIDE DEF w
<1>2. Backend(w) = Backend(s)
  BY <1>1 DEF Backend
<1>3. CommonOk(w) <=> CommonOk(s)
  BY <1>1 DEF CommonOk
<1>4. PostgresOk(w) <=> PostgresOk(s)
  BY <1>1 DEF PostgresOk
<1>5. NormalizePostgres(w) = NormalizePostgres(s)
  BY <1>1 DEF NormalizePostgres, Tls, Verify
<1>6. NormalizeQueueConfig(w) = NormalizeQueueConfig(s)
  BY <1>2, <1>3, <1>4, <1>5 DEF NormalizeQueueConfig
<1> QED BY <1>6 DEF w

(* A flow on PostgreSQL is configured as one without any fields of Redis.  *)
THEOREM RedisFieldsIgnored == BuildSafety => []PostgresIgnoresRedis
<1>1. QInv => PostgresIgnoresRedis
  <2> SUFFICES ASSUME QInv, config # Missing, Backend(settings) = "postgres"
               PROVE  /\ config = NormalizeQueueConfig(WithoutRedis(settings))
                      /\ built # Missing =>
                           built.options = [prefix |-> Blank,
                                            skipWaitingForReady |-> FALSE]
    BY DEF PostgresIgnoresRedis
  <2>1. config = NormalizeQueueConfig(WithoutRedis(settings))
    BY PostgresReadsNoRedis DEF QInv
  <2>2. ASSUME built # Missing
        PROVE  built.options = [prefix |-> Blank, skipWaitingForReady |-> FALSE]
    <3>1. config.backend = "postgres"
      BY <2>2, AcceptedByBackend DEF QInv
    <3>2. PICK role \in Roles : built = ResourceOf(role)
      BY <2>2 DEF QInv
    <3>3. built.options = BuildBullMQOptions(role)
      BY <3>2 DEF ResourceOf
    <3> QED BY <3>1, <3>3 DEF BuildBullMQOptions
  <2> QED BY <2>1, <2>2
<1> QED BY <1>1, BuildInvariance, PTL

(* The switches of a connection to Redis, its kind and its contacts.       *)
LEMMA ConnectionFollowsSettings ==
  ASSUME QInv, built # Missing, config.backend = "redis"
  PROVE  LET c == built.connection IN
         /\ RedisOk(settings)
         /\ c.redisOptions.tls =
              TlsOptions(Verify(settings), config.secrets, Tls(settings))
         /\ \/ /\ c.kind = "cluster"
               /\ c.contacts = config.clusterNodes
               /\ settings.clusterNodes # {} =>
                    config.clusterNodes =
                      ParseEndpointList(settings.clusterNodes, DEFAULT_PORT)
            \/ /\ c.kind = "sentinel"
               /\ c.contacts = config.sentinels
               /\ settings.sentinels # {} =>
                    config.sentinels =
                      ParseEndpointList(settings.sentinels, SENTINEL_PORT)
               /\ c.sentinelTLS =
                    TlsOptions(Verify(settings), config.secrets,
                               SentinelTls(settings))
            \/ c.kind = "single"
<1> DEFINE c == built.connection
<1>1. PICK role \in Roles : c = BuildRedisDescriptor(role)
  BY RedisResource
<1>2. RedisOk(settings) /\ config = NormalizeRedis(settings)
  BY AcceptedByBackend DEF QInv
<1>3. /\ config.verify = Verify(settings) /\ config.tls = Tls(settings)
      /\ config.sentinelTls = SentinelTls(settings)
  BY <1>2 DEF NormalizeRedis
<1>4. c.redisOptions.tls =
        TlsOptions(Verify(settings), config.secrets, Tls(settings))
  <2>1. c.redisOptions = DataOptions(role)
    BY <1>1, DescriptorHasDataOptions
  <2>2. DataOptions(role).tls =
          TlsOptions(config.verify, config.secrets, config.tls)
    BY DEF DataOptions
  <2> QED BY <1>3, <2>1, <2>2
<1>5. /\ settings.clusterNodes # {} =>
           config.clusterNodes =
             ParseEndpointList(settings.clusterNodes, DEFAULT_PORT)
      /\ settings.sentinels # {} =>
           config.sentinels =
             ParseEndpointList(settings.sentinels, SENTINEL_PORT)
  <2>1. \A S, port : S # {} => ParseEndpointList(S, port) # {}
    BY DEF ParseEndpointList
  <2> QED BY <1>2, <2>1 DEF NormalizeRedis
<1>6. CASE config.deployment = "cluster"
  BY <1>1, <1>2, <1>4, <1>5, <1>6 DEF BuildRedisDescriptor
<1>7. CASE config.deployment = "sentinel"
  BY <1>1, <1>2, <1>3, <1>4, <1>5, <1>7 DEF BuildRedisDescriptor
<1>8. CASE config.deployment \notin {"cluster", "sentinel"}
  BY <1>1, <1>2, <1>4, <1>8 DEF BuildRedisDescriptor
<1> QED BY <1>6, <1>7, <1>8

(* The hosts of a list are the hosts of what is parsed from it.            *)
LEMMA ParsingKeepsHosts ==
  ASSUME NEW S, NEW port, NEW e \in S
  PROVE  \E d \in ParseEndpointList(S, port) : d.host = e.host
<1> DEFINE d == [host |-> e.host, port |-> OrDefault(e.port, port)]
<1>1. d \in ParseEndpointList(S, port)
  BY DEF ParseEndpointList
<1> QED BY <1>1

(* A scheme agrees with the switch its list is checked against.            *)
LEMMA SchemesAgree ==
  ASSUME NEW e \in Endpoints, NEW tls \in BOOLEAN, EndpointOk(e, tls)
  PROVE  /\ e.scheme = "rediss" => tls
         /\ e.scheme = "redis" => ~ tls
BY DEF EndpointOk, Endpoints

(* What TlsOptions() makes of a switch is what was asked for.              *)
LEMMA OptionsAsAsked ==
  ASSUME settings \in Settings, NEW switch \in Switch, NEW secrets
  PROVE  TlsAsAsked(TlsOptions(Verify(settings), secrets,
                               ToBoolean(switch, FALSE)), switch)
<1>1. settings.verify \in Switch
  BY DEF Settings
<1>2. Verify(settings) = (settings.verify \in Affirmative \cup {Blank})
  BY <1>1, SwitchesAreRead DEF Verify
<1>3. ToBoolean(switch, FALSE) = (switch \in Affirmative)
  BY SwitchesAreRead
<1>4. Verify(settings) \in BOOLEAN /\ ToBoolean(switch, FALSE) \in BOOLEAN
  BY <1>1, SwitchesAreRead DEF Verify
<1> DEFINE t == TlsOptions(Verify(settings), secrets, ToBoolean(switch, FALSE))
<1>5. /\ (t # Missing) = ToBoolean(switch, FALSE)
      /\ ToBoolean(switch, FALSE) => t.rejectUnauthorized = Verify(settings)
  BY <1>4, TlsOptionsFollowTheSwitch
<1> HIDE DEF t
<1>6. TlsAsAsked(t, switch)
  BY <1>2, <1>3, <1>5 DEF TlsAsAsked
<1> QED BY <1>6 DEF t

(* Endpoints that were let through agree with the switch of their list.    *)
LEMMA ListedAreContacted ==
  ASSUME NEW S \in SUBSET Endpoints, NEW port, NEW contacts,
         NEW enabled \in BOOLEAN, NEW tls, (tls # Missing) = enabled,
         \A e \in S : EndpointOk(e, enabled),
         S # {} => contacts = ParseEndpointList(S, port)
  PROVE  ContactedAsListed(S, contacts, tls)
<1> SUFFICES ASSUME NEW e \in S
             PROVE  /\ e.scheme = "rediss" => tls # Missing
                    /\ e.scheme = "redis" => tls = Missing
                    /\ \E c \in contacts : c.host = e.host
  BY DEF ContactedAsListed
<1>1. contacts = ParseEndpointList(S, port)
  OBVIOUS
<1>2. \E c \in contacts : c.host = e.host
  BY <1>1, ParsingKeepsHosts
<1>3. /\ e.scheme = "rediss" => enabled
      /\ e.scheme = "redis" => ~ enabled
  BY SchemesAgree
<1> QED BY <1>2, <1>3

(* TLS is spoken where the settings ask for it, on either backend, by data *)
(* nodes and by discovery, against no scheme, and verified unless a saved  *)
(* value says otherwise.                                                   *)
THEOREM TransportFollowsSettings == BuildSafety => []TransportAsConfigured
<1>1. QInv => TransportAsConfigured
  <2> SUFFICES ASSUME QInv, built # Missing PROVE TransportAsConfigured
    BY DEF TransportAsConfigured
  <2> DEFINE c == built.connection
  <2>1. /\ settings \in Settings
        /\ settings.tls \in Switch /\ settings.sentinelTls \in Switch
        /\ settings.clusterNodes \in SUBSET Endpoints
        /\ settings.sentinels \in SUBSET Endpoints
    BY DEF QInv, Settings
  <2>2. Tls(settings) \in BOOLEAN /\ SentinelTls(settings) \in BOOLEAN
    BY <2>1, SwitchesAreRead DEF Tls, SentinelTls
  <2>3. ASSUME config.backend = "postgres"
        PROVE  TlsAsAsked(c.ssl, settings.tls)
    <3>1. PICK role \in Roles : built = ResourceOf(role)
      BY DEF QInv
    <3>2. config = NormalizePostgres(settings)
      BY <2>3, AcceptedByBackend DEF QInv
    <3>3. c.ssl = TlsOptions(Verify(settings), credentials, Tls(settings))
      BY <2>3, <3>1, <3>2 DEF ResourceOf, NormalizePostgres
    <3> QED BY <2>1, <3>3, OptionsAsAsked DEF Tls
  <2>4. ASSUME config.backend = "redis"
        PROVE  /\ TlsAsAsked(c.redisOptions.tls, settings.tls)
               /\ c.kind = "cluster" =>
                    ContactedAsListed(settings.clusterNodes, c.contacts,
                                      c.redisOptions.tls)
               /\ c.kind = "sentinel" =>
                    /\ TlsAsAsked(c.sentinelTLS, settings.sentinelTls)
                    /\ ContactedAsListed(settings.sentinels, c.contacts,
                                         c.sentinelTLS)
    <3>1. /\ RedisOk(settings)
          /\ c.redisOptions.tls =
               TlsOptions(Verify(settings), config.secrets, Tls(settings))
      BY <2>4, ConnectionFollowsSettings
    <3>2. TlsAsAsked(c.redisOptions.tls, settings.tls)
      BY <2>1, <3>1, OptionsAsAsked DEF Tls
    <3>3. (c.redisOptions.tls # Missing) = Tls(settings)
      BY <2>1, <3>2, SwitchesAreRead DEF TlsAsAsked, Tls
    <3>4. ASSUME c.kind = "cluster"
          PROVE  ContactedAsListed(settings.clusterNodes, c.contacts,
                                   c.redisOptions.tls)
      <4>1. settings.clusterNodes # {} =>
              c.contacts =
                ParseEndpointList(settings.clusterNodes, DEFAULT_PORT)
        BY <2>4, <3>4, ConnectionFollowsSettings
      <4>2. \A e \in settings.clusterNodes : EndpointOk(e, Tls(settings))
        BY <3>1 DEF RedisOk, ClusterNodesOk
      <4> QED BY <2>1, <2>2, <3>3, <4>1, <4>2, ListedAreContacted
    <3>5. ASSUME c.kind = "sentinel"
          PROVE  /\ TlsAsAsked(c.sentinelTLS, settings.sentinelTls)
                 /\ ContactedAsListed(settings.sentinels, c.contacts,
                                      c.sentinelTLS)
      <4>1. /\ c.sentinelTLS =
                 TlsOptions(Verify(settings), config.secrets,
                            SentinelTls(settings))
            /\ settings.sentinels # {} =>
                 c.contacts =
                   ParseEndpointList(settings.sentinels, SENTINEL_PORT)
        BY <2>4, <3>5, ConnectionFollowsSettings
      <4>2. TlsAsAsked(c.sentinelTLS, settings.sentinelTls)
        BY <2>1, <4>1, OptionsAsAsked DEF SentinelTls
      <4>3. (c.sentinelTLS # Missing) = SentinelTls(settings)
        BY <2>1, <4>2, SwitchesAreRead DEF TlsAsAsked, SentinelTls
      <4>4. \A e \in settings.sentinels :
              EndpointOk(e, SentinelTls(settings))
        BY <3>1 DEF RedisOk, SentinelsOk
      <4>5. ContactedAsListed(settings.sentinels, c.contacts, c.sentinelTLS)
        BY <2>1, <2>2, <4>1, <4>3, <4>4, ListedAreContacted
      <4> QED BY <4>2, <4>5
    <3> QED BY <3>2, <3>4, <3>5
  <2> HIDE DEF c
  <2> QED BY <2>3, <2>4 DEF TransportAsConfigured, c
<1> QED BY <1>1, BuildInvariance, PTL
=============================================================================
