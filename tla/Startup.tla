------------------------------ MODULE Startup ------------------------------
(***************************************************************************)
(* run in cmd/mempunk/main.go: load the configuration, ping the node,      *)
(* create the cache, serve.  Any failure ends the process.  The node may   *)
(* be down, answer late, rotate its cookie, or be on another chain or of   *)
(* an old version.                                                         *)
(***************************************************************************)
EXTENDS Config

CONSTANTS
  Files,     \* configurations the YAML file can hold
  Envs,      \* environments: variables set |-> parsed value
  Chains     \* chains a node can run

(* A value that field f of the configuration can hold. *)
Typed(f, v) ==
  IF f \in IntFields THEN v \in Int
  ELSE IF f \in BoolFields THEN v \in {"nil", "true", "false"}
  ELSE v \in STRING

(* A file gives every field a value, the zero value if it names none; an   *)
(* environment gives some fields one.                                      *)
ASSUME FilesAssumption ==
  \A c \in Files : DOMAIN c = Fields /\ \A f \in Fields : Typed(f, c[f])
ASSUME EnvsAssumption ==
  \A e \in Envs : DOMAIN e \subseteq Fields /\ \A f \in DOMAIN e : Typed(f, e[f])

VARIABLES
  file, env,   \* what the operator wrote; constant
  stage,       \* how far run is
  conf,        \* cfg, once loaded
  chain,       \* the chain the node answered with
  capacity     \* the capacity of the cache, once created

vars == <<file, env, stage, conf, chain, capacity>>

NoCache == -1

Init ==
  /\ file \in Files /\ env \in Envs
  /\ stage = "load"
  /\ conf = NoConfig
  /\ chain = "unknown"
  /\ capacity = NoCache

(* config.Load: it also fails when the file cannot be read, or a number or *)
(* boolean in it or in the environment does not parse.                     *)
Load ==
  /\ stage = "load"
  /\ \/ /\ Valid(Resolve(file, env))
        /\ conf' = Resolve(file, env)
        /\ stage' = "ping"
     \/ /\ stage' = "exited"
        /\ UNCHANGED conf
  /\ UNCHANGED <<file, env, chain, capacity>>

(* Slip: the chain of the node is not compared. *)
PingAnyChain ==
  /\ stage = "ping"
  /\ chain' \in Chains
  /\ stage' = "version"
  /\ UNCHANGED <<file, env, conf, capacity>>

(* getblockchaininfo: answered with the chain of the network, or not. *)
PingChain ==
  /\ stage = "ping"
  /\ \/ /\ chain' \in Chains
        /\ stage' = IF chain' = Chain[conf["network"]] THEN "version"
                    ELSE "exited"
     \/ stage' = "exited" /\ UNCHANGED chain
  /\ UNCHANGED <<file, env, conf, capacity>>

(* getnetworkinfo: answered or not; an old version only warns. *)
PingVersion ==
  /\ stage = "version"
  /\ stage' \in {"create", "exited"}
  /\ UNCHANGED <<file, env, chain, conf, capacity>>

(* The cache, then the server; the templates may not parse, the address    *)
(* may be taken.                                                           *)
Serve ==
  /\ stage = "create"
  /\ stage' \in {"serving", "exited"}
  /\ capacity' = conf["cache"]
  /\ UNCHANGED <<file, env, chain, conf>>

Next == Load \/ PingChain \/ PingVersion \/ Serve

Spec == Init /\ [][Next]_vars
-----------------------------------------------------------------------------
Serving == stage = "serving"
Loaded  == stage \in {"ping", "version", "create", "serving"}

(* What the rest of the program relies on while it serves: a port the      *)
(* dialer accepts, an address to listen on, at least one block per         *)
(* overview, page sizes that make progress, and no negative capacity.      *)
TypeOK ==
  /\ stage \in {"load", "ping", "version", "create", "serving", "exited"}
  /\ capacity \in Int
  /\ Loaded =>
       /\ conf["network"] \in Networks /\ conf["port"] \in Ports
       /\ conf["listen"] \notin {"", "nohost"}
       /\ conf["latest"] >= 1 /\ TxPageSize(conf) >= 1
  /\ Serving => capacity >= 0

(* mempunk never serves a chain other than that of the network it was      *)
(* configured for, wherever that was set.                                  *)
ServesItsChain ==
  Serving => chain = Chain[IF "network" \in DOMAIN env /\ env["network"] # ""
                           THEN env["network"] ELSE conf["network"]]

(* Neither the file nor the environment sets a port; the environment's 0    *)
(* withdraws the file's.                                                   *)
PortLeftOpen == 0 = IF "port" \in DOMAIN env THEN env["port"] ELSE file["port"]

(* A port set nowhere is that of the network the node is dialled for, even *)
(* when the file names one network and the environment another.            *)
PortFollowsNetwork ==
  stage = "ping" /\ PortLeftOpen => conf["port"] = DefaultPort[conf["network"]]

(* Where both name a field, the environment was last; an empty variable    *)
(* withdraws what the file has.                                            *)
SetLast(f) == IF f \in DOMAIN env THEN env[f] ELSE file[f]

(* The credentials of every call are the values set last, each half of     *)
(* user and password for itself; and they are all that was set, so that    *)
(* none that is left in the file is silently overruled or overrules.       *)
CredentialsSetLast ==
  Loaded =>
    \/ /\ Credentials(conf) = <<"cookie", SetLast("cookie")>>
       /\ SetLast("cookie") # "" /\ SetLast("user") = "" /\ SetLast("password") = ""
    \/ /\ Credentials(conf) = <<"userpass", SetLast("user"), SetLast("password")>>
       /\ SetLast("cookie") = "" /\ SetLast("user") # "" /\ SetLast("password") # ""
=============================================================================
