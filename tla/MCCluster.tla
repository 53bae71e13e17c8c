------------------------------ MODULE MCCluster ------------------------------
(***************************************************************************)
(* The two deployments of the repository, and an instance of Cluster with   *)
(* the user plane of the first: a stream that charges a frame and pushes    *)
(* its CDR.                                                                 *)
(***************************************************************************)
EXTENDS Cluster, Sequences

CONSTANTS stream,   \* ProcessTrafficStream, by a worker of ue-emulator
          gy,       \* RequestCreditControl, in the handler of stream
          gz        \* StreamCdrLogs, by a goroutine started after gy

-----------------------------------------------------------------------------
\* services/*/config.yaml, by service.
Bind(port) == [bind_addr |-> port, shutdown_timeout |-> 15]
Yaml ==
    "access-gateway" :> (Bind(50051) @@ [pcef_core_addr |-> Localhost(50052)])
    @@ "af-gateway"  :> (Bind(50056) @@ [pcrf_addr |-> Localhost(50053)])
    @@ "message-bus" :> (Bind(9092) @@ [queue_capacity |-> 100000])
    @@ "ocs-rating"  :> (Bind(50054) @@ [quota_chunk_bytes |-> 10485760])
    @@ "ofcs-collector" :> (Bind(50055) @@ [kafka_brokers |-> Localhost(9092),
                                            clickhouse_addr |-> Localhost(8123)])
    @@ "olap-analytics" :> Bind(8123)
    @@ "pcef-core"   :> (Bind(50052) @@ [pcrf_addr |-> Localhost(50053),
                          ocs_addr |-> Localhost(50054), ofcs_addr |-> Localhost(9092)])
    @@ "pcrf-engine" :> (Bind(50053) @@ [spr_addr |-> Localhost(9042)])
    @@ "spr-storage" :> (Bind(9042) @@ [max_mock_profiles |-> 100000])
    @@ "ue-emulator" :> [bind_addr |-> 50059, shutdown_timeout |-> 5,
                         gateway_addr |-> Localhost(50052), simulated_subscribers |-> 1000]

\* make run-local: ten processes on one host, started in the root of the
\* repository.
PathOf(s) == "services/" \o s \o "/config.yaml"
InRoot == [p \in {PathOf(s) : s \in DOMAIN Yaml} |->
              Yaml[CHOOSE s \in DOMAIN Yaml : p = PathOf(s)]]
Local == [s \in DOMAIN Yaml |-> [files |-> InRoot, env |-> None, host |-> "pc"]]
LocalConnected ==
    {<<"access-gateway", "gx">>, <<"af-gateway", "gx">>, <<"ofcs-collector", "kafka">>,
     <<"ofcs-collector", "ch">>, <<"pcef-core", "gy">>, <<"pcef-core", "gz">>,
     <<"pcrf-engine", "gx">>, <<"ue-emulator", "pcef">>}

\* k8s/: seven pods, each with its file as ./config.yaml and the ConfigMap as
\* environment; SPR, bus and OLAP store are the products they emulate.
At(name, port) == [host |-> name, port |-> port]
ConfigMap ==
    [PCEF_CORE_ADDR      |-> At("pcef-core-service", 50052),
     PCRF_ENGINE_ADDR    |-> At("pcrf-engine-service", 50053),
     OCS_RATING_ADDR     |-> At("ocs-rating-service", 50054),
     OFCS_COLLECTOR_ADDR |-> At("ofcs-collector-service", 50055),
     SCYLLADB_HOSTS      |-> At("scylladb-service", 9042),
     KAFKA_BROKERS       |-> At("kafka-service", 9092),
     CLICKHOUSE_ADDR     |-> At("clickhouse-service", 8123),
     GY_QUOTA_CHUNK_MB   |-> 10]
K8s == [s \in DOMAIN Yaml \ {"message-bus", "olap-analytics", "spr-storage"} |->
           [files |-> "config.yaml" :> Yaml[s], env |-> ConfigMap,
            host |-> s \o "-service"]]

Deployments == [local |-> Local, k8s |-> K8s]

\* Which clients reach a server of their contract.  It is not what the documents
\* say: pcrf-specification.md, line 20, has the PCRF fetch profiles from the SPR,
\* and launch.md, lines 5 and 58-70, has all components work together.
ASSUME LocalWiring == Connected(Local) = LocalConnected
ASSUME K8sWiring == Connected(K8s) = {}

-----------------------------------------------------------------------------
Through(s, n) == [service |-> s, client |-> n]
Froms == stream :> Through("ue-emulator", "pcef") @@ gy :> Through("pcef-core", "gy")
         @@ gz :> Through("pcef-core", "gz")
Handlers == stream :> {} @@ gy :> {stream} @@ gz :> {}
Befores  == stream :> {} @@ gy :> {} @@ gz :> {gy}
=============================================================================
