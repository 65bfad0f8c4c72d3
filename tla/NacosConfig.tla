---------------------------- MODULE NacosConfig ----------------------------
(***************************************************************************)
(* LoadConfig and Config.Validate of agent/registration/nacos/config.go.   *)
(* Of a variable it matters whether it exists and how far its value gets,  *)
(* of the timings also the numbers, which are compared with each other.    *)
(***************************************************************************)
EXTENDS Integers

Release == {"AGENT_CARD_VERSION", "RELEASE_ID", "CARD_DIGEST", "CANONICAL_ENDPOINT",
            "AUDIENCE"}
Identifiers == {"NAMESPACE_ID", "GROUP_NAME", "SERVICE_NAME", "CLUSTER_NAME", "PORT_NAME"}
Endpoint == {"ADVERTISED_IP", "ADVERTISED_PORT", "WEIGHT"}
Timing == {"HEARTBEAT_INTERVAL", "HEARTBEAT_TIMEOUT", "IP_DELETE_TIMEOUT",
           "REQUEST_TIMEOUT"}
ClientPair == {"TLS_CLIENT_CERT_FILE", "TLS_CLIENT_KEY_FILE"}
TLS == {"TLS_CA_FILE", "TLS_SERVER_NAME"} \cup ClientPair

\* nacosSuffixes
Suffix == Release \cup Identifiers \cup Endpoint \cup Timing \cup TLS
            \cup {"API_ORIGIN", "AUTH_MODE", "ACCESS_TOKEN"}

\* "blank" is empty or has surrounding whitespace, "bad" does not parse or is
\* out of range.
Value == {"absent", "blank", "bad", "good"}

\* The milliseconds that a timing may have in the environment.
Milliseconds ==
  [HEARTBEAT_INTERVAL |-> 1000 .. 60000, HEARTBEAT_TIMEOUT |-> 1001 .. 300000,
   IP_DELETE_TIMEOUT |-> 1002 .. 600000, REQUEST_TIMEOUT |-> 100 .. 60000]

\* An environment.  identity: the prefix and the two identifiers are safe.
\* scheme, auth and ms count if the variables that hold them are good.
Environment ==
  [identity : BOOLEAN, mode : {"absent", "disabled", "nacos", "other"},
   given : [Suffix -> Value], scheme : {"http", "https"},
   auth : {"none", "access_token"}, ms : [Timing -> Nat]]

Exists(env) == {n \in Suffix : env.given[n] # "absent"}
Good(env)   == {n \in Suffix : env.given[n] = "good"}
Filled(env) == {n \in Suffix : env.given[n] \in {"bad", "good"}}

\* Of a token no more is asked than that it is filled.
Usable(env) == Good(env) \cup ({"ACCESS_TOKEN"} \cap Filled(env))

\* A Config: the fields that are not zero, and those of them that Validate has
\* nothing against.
Config ==
  [identity : BOOLEAN, mode : {"none", "disabled", "nacos"},
   fields : SUBSET Suffix, formed : SUBSET Suffix, scheme : {"http", "https"},
   auth : {"none", "access_token"}, ms : [Timing -> Nat]]

\* Mutant: TLS variables are not looked at when the origin is http.
AcceptsSchemeOnly(env) ==
  env.scheme = "https" =>
    /\ {"TLS_CA_FILE", "TLS_SERVER_NAME"} \subseteq Good(env)
    /\ ClientPair \cap Exists(env) \in {{}, ClientPair \cap Good(env)}
    /\ ClientPair \cap Good(env) \in {{}, ClientPair}

\* The TLS variables of an http or https origin.
AcceptsScheme(env) ==
  IF env.scheme = "http" THEN TLS \cap Exists(env) = {}
  ELSE /\ {"TLS_CA_FILE", "TLS_SERVER_NAME"} \subseteq Good(env)
       /\ ClientPair \cap Exists(env) = ClientPair \cap Good(env)
       /\ ClientPair \cap Good(env) \in {{}, ClientPair}

AcceptsAuth(env) ==
  IF env.auth = "none" THEN "ACCESS_TOKEN" \notin Exists(env)
  ELSE "ACCESS_TOKEN" \in Filled(env)

\* LoadConfig reads on to its last line.
Accepts(env) ==
  /\ env.identity
  /\ \/ env.mode = "disabled" /\ Exists(env) = {}
     \/ /\ env.mode = "nacos"
        /\ Release \subseteq Filled(env)
        /\ Identifiers \cup Endpoint \cup Timing \cup {"API_ORIGIN", "AUTH_MODE"}
             \subseteq Good(env)
        /\ \A t \in Timing : env.ms[t] \in Milliseconds[t]
        /\ AcceptsScheme(env) /\ AcceptsAuth(env)

\* The variables it looked up for their values.
Read(env) ==
  Suffix \ ((IF env.scheme = "http" THEN TLS ELSE {})
              \cup IF env.auth = "none" THEN {"ACCESS_TOKEN"} ELSE {})

\* The Config it then has.
Loaded(env) ==
  [identity |-> env.identity, mode |-> env.mode,
   fields |-> Exists(env) \cap Read(env), formed |-> Usable(env) \cap Read(env),
   scheme |-> env.scheme, auth |-> env.auth, ms |-> env.ms]

\* A heartbeat is missed before its timeout, and that comes before the removal.
Staggered(ms) ==
  /\ ms["HEARTBEAT_INTERVAL"] < ms["HEARTBEAT_TIMEOUT"]
  /\ ms["HEARTBEAT_TIMEOUT"] < ms["IP_DELETE_TIMEOUT"]

WithinLimits(ms) ==
  /\ ms["HEARTBEAT_INTERVAL"] \in 1000 .. 60000 /\ ms["HEARTBEAT_TIMEOUT"] <= 300000
  /\ ms["IP_DELETE_TIMEOUT"] <= 600000 /\ ms["REQUEST_TIMEOUT"] \in 100 .. 60000

ValidAuth(config) ==
  /\ config.auth = "none" => "ACCESS_TOKEN" \notin config.fields
  /\ config.auth = "access_token" => "ACCESS_TOKEN" \in config.formed

ValidScheme(config) ==
  /\ config.scheme = "http" => TLS \cap config.fields = {}
  /\ config.scheme = "https" =>
       /\ {"TLS_CA_FILE", "TLS_SERVER_NAME"} \subseteq config.formed
       /\ ClientPair \cap config.fields = ClientPair \cap config.formed
       /\ ClientPair \cap config.fields \in {{}, ClientPair}

\* Config.Validate() = nil.  hasNacosConfiguration is fields # {}.
Valid(config) ==
  /\ config.identity
  /\ \/ config.mode = "disabled" /\ config.fields = {}
     \/ /\ config.mode = "nacos"
        /\ Release \cup Identifiers \cup Endpoint \cup Timing \cup {"API_ORIGIN", "AUTH_MODE"}
             \subseteq config.formed
        /\ WithinLimits(config.ms) /\ Staggered(config.ms)
        /\ ValidAuth(config) /\ ValidScheme(config)

\* LoadConfig(env) returns no error.
Loads(env) == Accepts(env) /\ Valid(Loaded(env))
============================================================================
