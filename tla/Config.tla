------------------------------- MODULE Config -------------------------------
(***************************************************************************)
(* internal/config: how the YAML file, the MEMPUNK_* environment and the   *)
(* defaults become the configuration mempunk runs with.  A configuration   *)
(* is a function from its fields to their values; a field that is absent   *)
(* from the file holds the zero value of its Go type, a nil pointer for    *)
(* the two optional booleans.                                              *)
(***************************************************************************)
EXTENDS Integers

IntFields  == {"port", "latest", "page", "cache"}
BoolFields == {"details", "shorten"}
Fields     == {"network", "host", "user", "password", "cookie", "listen",
               "level", "format"} \union IntFields \union BoolFields

Unset(f) == IF f \in IntFields THEN 0
            ELSE IF f \in BoolFields THEN "nil" ELSE ""

NoConfig == [f \in Fields |-> Unset(f)]

(* The network table. *)
Networks == {"mainnet", "testnet3", "testnet4", "regtest"}

Chain == [mainnet |-> "main", testnet3 |-> "test", testnet4 |-> "testnet4",
          regtest |-> "regtest"]

DefaultPort == [mainnet |-> 8332, testnet3 |-> 18332, testnet4 |-> 48332,
                regtest |-> 18443]

(* Slip: the environment only fills what the file leaves open. *)
ApplyEnvToUnset(c, env) ==
  [f \in Fields |-> IF f \in DOMAIN env /\ c[f] = Unset(f) THEN env[f] ELSE c[f]]

(* applyEnv: env maps the variables that are set to their parsed values; a *)
(* variable set to the empty string or to 0 unsets the field.              *)
ApplyEnv(c, env) == [f \in Fields |-> IF f \in DOMAIN env THEN env[f] ELSE c[f]]

(* applyDefaults: the default of an unset field of c, where there is one;  *)
(* the port follows the network, and an unknown network has none.          *)
Default(c, f) ==
  LET n == IF c["network"] = "" THEN "mainnet" ELSE c["network"]
  IN  CASE f = "network" -> "mainnet"
        [] f = "host"    -> "127.0.0.1"
        [] f = "port"    -> IF n \in Networks THEN DefaultPort[n] ELSE 0
        [] f = "listen"  -> "0.0.0.0:2100"
        [] f = "level"   -> "info"
        [] f = "format"  -> "text"
        [] f = "latest"  -> 12
        [] f = "cache"   -> 1000
        [] f = "details" -> "true"
        [] OTHER         -> Unset(f)

ApplyDefaults(c) ==
  [f \in Fields |-> IF c[f] = Unset(f) THEN Default(c, f) ELSE c[f]]

(* Cookie file, or user and password, and not both. *)
AuthValid(c) ==
  IF c["cookie"] # "" THEN c["user"] = "" /\ c["password"] = ""
  ELSE c["user"] # "" /\ c["password"] # ""

Ports == 1..65535

(* Slip: a port is only checked for being positive. *)
ValidWithoutPortLimit(c) ==
  /\ c["network"] \in Networks
  /\ c["host"] # ""
  /\ c["port"] >= 1
  /\ AuthValid(c)
  /\ c["listen"] # "nohost"
  /\ c["level"] \in {"debug", "info", "warn", "error"}
  /\ c["format"] \in {"text", "json"}
  /\ c["latest"] >= 1 /\ c["cache"] >= 0 /\ c["page"] >= 0

(* Validate; "nohost" stands for every listen address that is no host:port. *)
Valid(c) ==
  /\ c["network"] \in Networks
  /\ c["host"] # ""
  /\ c["port"] \in Ports
  /\ AuthValid(c)
  /\ c["listen"] # "nohost"
  /\ c["level"] \in {"debug", "info", "warn", "error"}
  /\ c["format"] \in {"text", "json"}
  /\ c["latest"] >= 1 /\ c["cache"] >= 0 /\ c["page"] >= 0

(* Slip: the defaults are filled in before the environment is read. *)
ResolveDefaultsFirst(file, env) == ApplyEnv(ApplyDefaults(file), env)

(* Load, after parsing. *)
Resolve(file, env) == ApplyDefaults(ApplyEnv(file, env))

(* ResolveAuth: a cookie file, read again on every call, wins. *)
Credentials(c) == IF c["cookie"] # "" THEN <<"cookie", c["cookie"]>>
                  ELSE <<"userpass", c["user"], c["password"]>>

(* Accessors of the handlers. *)
TxPageSize(c)     == IF c["page"] > 0 THEN c["page"] ELSE 200
ShowTxDetails(c)  == c["details"] # "false"
ShortenHashes(c)  == c["shorten"] # "false"
=============================================================================
