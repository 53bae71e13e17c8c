--------------------------- MODULE ServiceConfig ---------------------------
(***************************************************************************)
(* How the ten processes find each other: the configuration chassis, the    *)
(* LoadConfig and the main of each service, and the gRPC contracts.         *)
(*                                                                          *)
(* A file or an environment is a function from names to values, without the *)
(* names that are missing, empty or not the number they should be.  An      *)
(* address is a host and a port; the host of an address to bind is left out.*)
(* The log level, which nothing reads, is not turned into upper case.       *)
(*                                                                          *)
(* A definition named XMutant is X with a plausible bug in it.              *)
(***************************************************************************)
EXTENDS Integers, TLC

None == <<>>   \* no settings
Under(s, path) == IF path \in DOMAIN s THEN s[path] ELSE None   \* os.ReadFile

\* The settings that environment variables give, by the name of the variable.
FromEnv(env, variable) ==
    [f \in {g \in DOMAIN variable : variable[g] \in DOMAIN env} |-> env[variable[f]]]

-----------------------------------------------------------------------------
\* LoadBaseConfig: defaults, then the file, then the environment.
BaseConfig == [service_name |-> "pcef-generic-service", bind_addr |-> 50050,
               log_level |-> "INFO", shutdown_timeout |-> 15]
LoadBaseConfig(yaml, env) ==
    FromEnv(env, [service_name |-> "SERVICE_NAME", bind_addr |-> "BIND_ADDR",
                  log_level |-> "LOG_LEVEL", shutdown_timeout |-> "SHUTDOWN_TIMEOUT"])
    @@ yaml @@ BaseConfig

\* LoadConfig of a service reads the file once more on top of the base
\* settings, those from the environment included, and then its own variables.
LoadConfig(yaml, env, variable, default) ==
    FromEnv(env, variable) @@ yaml @@ default @@ LoadBaseConfig(yaml, env)

Localhost(port) == [host |-> "localhost", port |-> port]

AccessGatewayConfig(yaml, env) ==
    LoadConfig(yaml, env, [pcef_core_addr |-> "PCEF_CORE_ADDR"], None)
AfGatewayConfig(yaml, env) ==
    LoadConfig(yaml, env, [pcrf_addr |-> "PCRF_ENGINE_ADDR"], None)
MessageBusConfig(yaml, env) ==
    LoadConfig(yaml, env, [queue_capacity |-> "KAFKA_QUEUE_CAPACITY"], None)
OcsRatingConfig(yaml, env) ==   \* the variable is in MB
    (IF "GY_QUOTA_CHUNK_MB" \in DOMAIN env
       THEN [quota_chunk_bytes |-> env["GY_QUOTA_CHUNK_MB"] * 1024 * 1024] ELSE None)
    @@ LoadConfig(yaml, env, None, None)
OfcsCollectorConfig(yaml, env) ==
    LoadConfig(yaml, env,
        [kafka_brokers |-> "KAFKA_BROKERS", clickhouse_addr |-> "CLICKHOUSE_ADDR"],
        [kafka_brokers |-> Localhost(9092), clickhouse_addr |-> Localhost(8123)])
OlapAnalyticsConfig(yaml, env) ==
    LoadConfig(yaml, env, [data_disk_path |-> "CLICKHOUSE_DISK_PATH"], None)
PcefCoreConfig(yaml, env) ==
    LoadConfig(yaml, env,
        [pcrf_addr |-> "PCRF_ENGINE_ADDR", ocs_addr |-> "OCS_RATING_ADDR",
         ofcs_addr |-> "OFCS_COLLECTOR_ADDR"],
        [pcrf_addr |-> Localhost(50053), ocs_addr |-> Localhost(50054),
         ofcs_addr |-> Localhost(50055)])
PcrfEngineConfig(yaml, env) ==
    LoadConfig(yaml, env, [spr_addr |-> "SCYLLADB_HOSTS"], None)
SprStorageConfig(yaml, env) ==
    LoadConfig(yaml, env, [max_mock_profiles |-> "SPR_MAX_PROFILES"], None)
UeEmulatorConfig(yaml, env) ==
    LoadConfig(yaml, env,
        [gateway_addr |-> "PCEF_CORE_ADDR",
         simulated_subscribers |-> "SIMULATED_SUBSCRIBERS_COUNT"],
        [gateway_addr |-> Localhost(50052), simulated_subscribers |-> 5])

-----------------------------------------------------------------------------
\* The contracts: a server that has not registered a service answers its
\* methods with Unimplemented.
DiameterGx == [service |-> "DiameterGx", method |-> "ProvisionPccRules", kind |-> "unary"]
DiameterGy == [service |-> "DiameterGy", method |-> "RequestCreditControl", kind |-> "unary"]
DiameterGz == [service |-> "DiameterGz", method |-> "StreamCdrLogs", kind |-> "unary"]
DiameterRx == [service |-> "DiameterRx", method |-> "SendAAQuery", kind |-> "unary"]
SubscriptionRepository ==
    [service |-> "SubscriptionRepository", method |-> "FetchProfile", kind |-> "unary"]
TrafficPipeline ==
    [service |-> "TrafficPipeline", method |-> "ProcessTrafficStream", kind |-> "stream"]

\* A process: what it listens on, {} for nothing, the services it registers, and
\* the clients it makes.
Process(listen, serves, clients) ==
    [listen |-> listen, serves |-> serves, clients |-> clients]
Client(contract, addr) == [contract |-> contract, addr |-> addr]

\* The mains, given the files and the environment.  (pcef_core_addr is where
\* access-gateway expects the PCRF; af-gateway does not use its client;
\* kafka_brokers is not used.)
AccessGateway(files, env) ==
    LET cfg == AccessGatewayConfig(Under(files, "services/access-gateway/config.yaml"), env)
    IN  Process({cfg.bind_addr}, {},
            [gx |-> Client(DiameterGx, Under(cfg, "pcef_core_addr"))])
AfGateway(files, env) ==
    LET cfg == AfGatewayConfig(Under(files, "services/af-gateway/config.yaml"), env)
    IN  Process({cfg.bind_addr}, {DiameterRx},
            [gx |-> Client(DiameterGx, Under(cfg, "pcrf_addr"))])
MessageBus(files, env) ==
    LET cfg == MessageBusConfig(Under(files, "services/message-bus/config.yaml"), env)
    IN  Process({cfg.bind_addr}, {DiameterGz}, None)
OcsRating(files, env) ==
    LET cfg == OcsRatingConfig(Under(files, "services/ocs-rating/config.yaml"), env)
    IN  Process({cfg.bind_addr}, {DiameterGy}, None)
OfcsCollector(files, env) ==
    LET cfg == OfcsCollectorConfig(Under(files, "services/ofcs-collector/config.yaml"), env)
    IN  Process({}, {}, [kafka |-> Client(DiameterGz, Localhost(9092)),
                         ch |-> Client(DiameterGz, cfg.clickhouse_addr)])
OlapAnalytics(files, env) ==
    LET cfg == OlapAnalyticsConfig(Under(files, "services/olap-analytics/config.yaml"), env)
    IN  Process({cfg.bind_addr}, {DiameterGz}, None)
PcefCore(files, env) ==
    LET cfg == PcefCoreConfig(Under(files, "services/pcef-core/config.yaml"), env)
    IN  Process({cfg.bind_addr}, {TrafficPipeline, DiameterGx},
            [gy |-> Client(DiameterGy, cfg.ocs_addr), gz |-> Client(DiameterGz, cfg.ofcs_addr)])
PcrfEngine(files, env) ==
    LET cfg == PcrfEngineConfig(Under(files, "services/pcrf-engine/config.yaml"), env)
    IN  Process({cfg.bind_addr}, {DiameterGx},
            [spr |-> Client(SubscriptionRepository, Under(cfg, "spr_addr")),
             gx |-> Client(DiameterGx, Localhost(50052))])
SprStorage(files, env) ==
    LET cfg == SprStorageConfig(Under(files, "config.yaml"), env)
    IN  Process({cfg.bind_addr}, {SubscriptionRepository}, None)
UeEmulator(files, env) ==
    LET cfg == UeEmulatorConfig(Under(files, "services/ue-emulator/config.yaml"), env)
    IN  Process({}, {}, [pcef |-> Client(TrafficPipeline, cfg.gateway_addr)])

Main(files, env) ==
    "access-gateway" :> AccessGateway(files, env) @@ "af-gateway" :> AfGateway(files, env)
    @@ "message-bus" :> MessageBus(files, env) @@ "ocs-rating" :> OcsRating(files, env)
    @@ "ofcs-collector" :> OfcsCollector(files, env)
    @@ "olap-analytics" :> OlapAnalytics(files, env)
    @@ "pcef-core" :> PcefCore(files, env) @@ "pcrf-engine" :> PcrfEngine(files, env)
    @@ "spr-storage" :> SprStorage(files, env) @@ "ue-emulator" :> UeEmulator(files, env)

-----------------------------------------------------------------------------
\* A deployment gives each service its files, its environment and the name of
\* its host.  The processes of d, and those that client n of s connects to.
Processes(d) == [s \in DOMAIN d |-> Main(d[s].files, d[s].env)[s]]
Reached(d, s, n) ==
    LET P == Processes(d)
        addr == P[s].clients[n].addr
    IN  {t \in DOMAIN d :
            /\ addr # None
            /\ addr.port \in P[t].listen
            /\ d[t].host = IF addr.host = "localhost" THEN d[s].host ELSE addr.host}

\* The clients that reach a server of their contract.
Connected(d) ==
    LET P == Processes(d)
        Served(s, n) == \E t \in Reached(d, s, n) :
                            P[s].clients[n].contract \in P[t].serves
    IN  UNION {{<<s, n>> : n \in {m \in DOMAIN P[s].clients : Served(s, m)}} :
                  s \in DOMAIN d}
=============================================================================
