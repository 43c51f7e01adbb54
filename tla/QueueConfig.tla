----------------------------- MODULE QueueConfig -----------------------------
(***************************************************************************)
(* lib/connections.js: from the saved settings of a config node to the     *)
(* connection of each resource. Normalize() refuses settings that cannot   *)
(* work; the descriptor of a connection and the options of its BullMQ      *)
(* owner are then built separately, per backend, deployment and role.      *)
(*                                                                         *)
(* Settings are abstract: a field is blank, good or bad, a host or secret  *)
(* is a name, a list of endpoints is a set of parsed URLs, and words are   *)
(* taken up to case. Only a switch keeps the type it was saved with: the   *)
(* editor saves booleans, but flows are written by hand, and Node-RED puts *)
(* the text of an environment variable wherever ${NAME} stands.            *)
(***************************************************************************)
CONSTANTS Text,           \* what a field holds that is not blank
          Secret,         \* names of fields that are credentials
          TlsFile,        \* those of them that are TLS material
          Blank, Missing, \* a blank field; an option that is not set
          Rejected,       \* settings that normalising refuses
          POSTGRES_CONNECTION_TIMEOUT \* in seconds

Roles == {"producer", "worker", "events"}
Deployments == {"single", "cluster", "sentinel"}
DEFAULT_PORT == "6379"
SENTINEL_PORT == "26379"
POSTGRES_PORT == "5432"
Forever == "null"         \* maxRetriesPerRequest: null
CLUSTER_PREFIX == "{bull}"

Field == Text \cup {Blank}

(* An endpoint of a list, as its URL reads.                                *)
Endpoints ==
  [host : Field, scheme : {"none", "redis", "rediss"}, port : Field,
   userinfo : BOOLEAN]

(* What a switch may be saved as, if not blank.                            *)
Saved ==
  [type : {"boolean"}, value : {"true", "false"}]
    \cup [type : {"number", "text"}, value : Text]
Switch == Saved \cup {Blank}

(* What a config node may be saved with; a blank address is the default    *)
(* host.                                                                   *)
Settings ==
  [backend : Field, deployment : Field, host : Text, port : Field,
   clusterNodes : SUBSET Endpoints, sentinels : SUBSET Endpoints,
   master : Field, prefix : Field, name : Field, keep : Field, max : Field,
   tls : Switch, sentinelTls : Switch, verify : Switch,
   alias : BOOLEAN, plaintext : SUBSET Secret]

(* A blank field is no value, a field may hold the words that say yes, and *)
(* an option that is not set is no TLS option.                             *)
ASSUME BlankAssumption == Blank \notin Saved
ASSUME TextAssumption == {"true", "1", "yes", "on"} \subseteq Text
ASSUME MissingAssumption ==
  Missing \notin [rejectUnauthorized : BOOLEAN, files : SUBSET TlsFile]

VARIABLES
  settings,    \* the saved fields of the config node
  credentials, \* the secrets Node-RED keeps for it
  config,      \* node.config: Missing, Rejected or a record
  built        \* the last resource created: its role, connection, options

buildVars == <<settings, credentials, config, built>>

BuildInit == config = Missing /\ built = Missing
-----------------------------------------------------------------------------
PortOk(p) == p # "bad"
OrDefault(value, default) == IF value = Blank THEN default ELSE value

(* Defect: a blank switch is off, whatever it stands for.                  *)
ToBooleanWithoutDefault(value, default) ==
  /\ value # Blank
  /\ IF value.type = "number" THEN value.value # "0"
     ELSE value.value \in {"true", "1", "yes", "on"}

(* toBoolean(): any number but zero is on, any word but these four is off. *)
ToBoolean(value, default) ==
  CASE value = Blank -> default
    [] value # Blank /\ value.type = "number" -> value.value # "0"
    [] OTHER -> value.value \in {"true", "1", "yes", "on"}

Tls(s) == ToBoolean(s.tls, FALSE)
SentinelTls(s) == ToBoolean(s.sentinelTls, FALSE)
Verify(s) == ToBoolean(s.verify, TRUE)

(* parseEndpoint(): a URL must name a host, carry no credentials, and a    *)
(* scheme must agree with the TLS setting of its topology.                 *)
EndpointOk(e, tls) ==
  /\ e.host # Blank
  /\ ~ e.userinfo
  /\ e.scheme = "none" \/ (e.scheme = "rediss") = tls
  /\ PortOk(e.port)

ParseEndpointList(endpoints, defaultPort) ==
  {[host |-> e.host, port |-> OrDefault(e.port, defaultPort)] :
    e \in endpoints}

SentinelsOk(s) == \A e \in s.sentinels : EndpointOk(e, SentinelTls(s))
ClusterNodesOk(s) == \A e \in s.clusterNodes : EndpointOk(e, Tls(s))

(* Refused on either backend: removed aliases, secrets in plain settings,  *)
(* no queue name, a retention that is not a count.                         *)
CommonOk(s) ==
  ~ s.alias /\ s.plaintext = {} /\ s.name # Blank /\ s.keep # "bad"

(* Refused on Redis, whatever the deployment: both lists are parsed.       *)
RedisOk(s) ==
  /\ OrDefault(s.deployment, "single") \in Deployments
  /\ PortOk(s.port)
  /\ ClusterNodesOk(s) /\ SentinelsOk(s)
  /\ s.deployment = "cluster" => s.prefix # "untagged"
  /\ s.deployment = "sentinel" => s.master # Blank

(* Defect: the fields of Redis are checked before the backend is looked at.*)
PostgresOkAfterRedis(s) == RedisOk(s) /\ s.max # "bad"

PostgresOk(s) == PortOk(s.port) /\ s.max # "bad"

Backend(s) == OrDefault(s.backend, "redis")

ReadSecrets(names) == names \cap credentials

NormalizeRedis(s) ==
  LET deployment == OrDefault(s.deployment, "single")
      fallback(port) == {[host |-> s.host, port |-> port]}
      nodes == ParseEndpointList(s.clusterNodes, DEFAULT_PORT)
      sentinels == ParseEndpointList(s.sentinels, SENTINEL_PORT)
  IN [backend |-> "redis", deployment |-> deployment, host |-> s.host,
      port |-> OrDefault(s.port, DEFAULT_PORT),
      clusterNodes |-> IF deployment = "cluster" /\ nodes = {}
                       THEN fallback(OrDefault(s.port, DEFAULT_PORT))
                       ELSE nodes,
      sentinels |-> IF deployment = "sentinel" /\ sentinels = {}
                    THEN fallback(SENTINEL_PORT) ELSE sentinels,
      master |-> s.master,
      tls |-> Tls(s), sentinelTls |-> SentinelTls(s), verify |-> Verify(s),
      secrets |-> ReadSecrets(Secret),
      prefix |-> IF deployment = "cluster"
                 THEN OrDefault(s.prefix, CLUSTER_PREFIX) ELSE s.prefix]

(* buildTlsOptions()                                                       *)
TlsOptions(verify, secrets, enabled) ==
  IF enabled
  THEN [rejectUnauthorized |-> verify, files |-> secrets \cap TlsFile]
  ELSE Missing

(* normalizePostgresConfig(): fields of Redis are not even read.           *)
NormalizePostgres(s) ==
  [backend |-> "postgres", host |-> s.host,
   port |-> OrDefault(s.port, POSTGRES_PORT),
   max |-> OrDefault(s.max, "2"),
   connectionTimeout |-> POSTGRES_CONNECTION_TIMEOUT,
   password |-> ReadSecrets({"password"}),
   ssl |-> TlsOptions(Verify(s), credentials, Tls(s))]

NormalizeQueueConfig(s) ==
  CASE CommonOk(s) /\ Backend(s) = "postgres" /\ PostgresOk(s) ->
         NormalizePostgres(s)
    [] CommonOk(s) /\ Backend(s) = "redis" /\ RedisOk(s) -> NormalizeRedis(s)
    [] OTHER -> Rejected
-----------------------------------------------------------------------------
IsConsumerRole(role) == role \in {"worker", "events"}

(* Defect: only workers wait for Redis to come back.                       *)
RetryValueOfWorkers(role) == IF role = "worker" THEN Forever ELSE "1"

RetryValueForRole(role) == IF IsConsumerRole(role) THEN Forever ELSE "1"

(* What every socket to a data node gets, in whatever deployment.          *)
DataOptions(role) ==
  [maxRetriesPerRequest |-> RetryValueForRole(role),
   password |-> config.secrets \cap {"password"},
   tls |-> TlsOptions(config.verify, config.secrets, config.tls)]

(* buildRedisDescriptor(): who is asked first, and with which options.     *)
BuildRedisDescriptor(role) ==
  CASE config.deployment = "cluster" ->
         [kind |-> "cluster", contacts |-> config.clusterNodes,
          redisOptions |-> DataOptions(role)]
    [] config.deployment = "sentinel" ->
         [kind |-> "sentinel", contacts |-> config.sentinels,
          name |-> config.master, redisOptions |-> DataOptions(role),
          sentinelPassword |-> config.secrets \cap {"sentinelPassword"},
          sentinelTLS |-> TlsOptions(config.verify, config.secrets,
                                     config.sentinelTls)]
    [] OTHER ->
         [kind |-> "single",
          contacts |-> {[host |-> config.host, port |-> config.port]},
          redisOptions |-> DataOptions(role)]

(* buildBullMQOptions()                                                    *)
BuildBullMQOptions(role) ==
  [prefix |-> IF config.backend = "redis" THEN config.prefix ELSE Blank,
   skipWaitingForReady |->
     ~ IsConsumerRole(role) /\ config.backend # "postgres"]

(* BullQueueServerSetup: the node is not created if normalising throws.    *)
Normalize ==
  /\ config = Missing
  /\ config' = NormalizeQueueConfig(settings)
  /\ UNCHANGED <<settings, credentials, built>>

(* createResource(): on PostgreSQL BullMQ makes the connection itself.     *)
CreateResource(role) ==
  /\ config \notin {Missing, Rejected}
  /\ built' = [role |-> role,
               connection |-> IF config.backend = "postgres" THEN config
                              ELSE BuildRedisDescriptor(role),
               options |-> BuildBullMQOptions(role)]
  /\ UNCHANGED <<settings, credentials, config>>

BuildNext ==
  \/ Normalize
  \/ \E role \in Roles : CreateResource(role)

(* A config node may be saved with any settings and credentials.           *)
BuildSafety ==
  /\ settings \in Settings /\ credentials \subseteq Secret /\ BuildInit
  /\ [][BuildNext]_buildVars
-----------------------------------------------------------------------------
(* What the documentation of a switch and its field in the editor lead one *)
(* to expect of what is saved: these forms say yes, every other form says  *)
(* no, and a blank switch leaves TLS off and verification on.              *)
Affirmative ==
  [type : {"boolean", "text"}, value : {"true"}]
    \cup [type : {"text"}, value : {"1", "yes", "on"}]
    \cup [type : {"number"}, value : Text \ {"0"}]

TlsAsAsked(tls, switch) ==
  /\ (tls # Missing) = (switch \in Affirmative)
  /\ tls # Missing =>
       tls.rejectUnauthorized = (settings.verify \in Affirmative \cup {Blank})

(* Every listed endpoint is contacted, none against the scheme of its URL. *)
ContactedAsListed(endpoints, contacts, tls) ==
  \A e \in endpoints :
    /\ e.scheme = "rediss" => tls # Missing
    /\ e.scheme = "redis" => tls = Missing
    /\ \E c \in contacts : c.host = e.host

(* TLS is spoken exactly where the settings ask for it, on PostgreSQL and  *)
(* in every deployment of Redis, by data nodes and by Sentinels each after *)
(* its own switch, in whatever form that was saved; it contradicts no      *)
(* scheme of an endpoint; and certificates go unverified only where a      *)
(* value was saved that does not say yes. Such a value may be any unknown  *)
(* word: "required" turns verification off, and TLS.                       *)
TransportAsConfigured ==
  built # Missing =>
    LET c == built.connection IN
    /\ config.backend = "postgres" => TlsAsAsked(c.ssl, settings.tls)
    /\ config.backend = "redis" =>
         /\ TlsAsAsked(c.redisOptions.tls, settings.tls)
         /\ c.kind = "cluster" =>
              ContactedAsListed(settings.clusterNodes, c.contacts,
                                c.redisOptions.tls)
         /\ c.kind = "sentinel" =>
              /\ TlsAsAsked(c.sentinelTLS, settings.sentinelTls)
              /\ ContactedAsListed(settings.sentinels, c.contacts,
                                   c.sentinelTLS)

(* A flow that is switched to PostgreSQL carries its hidden Redis fields   *)
(* along; whatever they hold, the outcome is that of a flow without them   *)
(* ("rejecting those would make switching backends impossible").           *)
WithoutRedis(s) ==
  [s EXCEPT !.deployment = Blank, !.clusterNodes = {}, !.sentinels = {},
            !.prefix = Blank, !.master = Blank, !.sentinelTls = Blank]

PostgresIgnoresRedis ==
  config # Missing /\ Backend(settings) = "postgres" =>
    /\ config = NormalizeQueueConfig(WithoutRedis(settings))
    /\ built # Missing =>
         built.options = [prefix |-> Blank, skipWaitingForReady |-> FALSE]

(* A producer's command fails while Redis is away instead of hanging the   *)
(* flow, which takes both its owner's switch and its socket's limit; a     *)
(* consumer waits for Redis to come back, which takes neither.             *)
FailFastByRole ==
  built # Missing /\ config.backend = "redis" =>
    LET waits == built.role \in {"worker", "events"} IN
      /\ (built.connection.redisOptions.maxRetriesPerRequest = Forever) = waits
      /\ built.options.skipWaitingForReady = ~ waits
=============================================================================
