--------------------------- MODULE StartupProofs ---------------------------
(***************************************************************************)
(* Theorems about Startup, for any files and environments whose values     *)
(* have the types of their fields, and any node: what a configuration that *)
(* was loaded says of the file and the environment it was made from, and   *)
(* what is left for the rest of the program to rely on while it serves.    *)
(***************************************************************************)
EXTENDS Startup, TLAPS

IsLoaded(c) == c = Resolve(file, env) /\ Valid(c)

OnChain == chain = Chain[conf["network"]]

(* The configuration stays the one that was loaded, the chain the one it   *)
(* was compared with.                                                      *)
IInv ==
  /\ file \in Files /\ env \in Envs
  /\ stage \in {"load", "ping", "version", "create", "serving", "exited"}
  /\ capacity \in Int
  /\ Loaded => IsLoaded(conf)
  /\ stage \in {"version", "create", "serving"} => OnChain
  /\ Serving => capacity = conf["cache"]
-----------------------------------------------------------------------------
(* What the file and the environment say of field f. *)
LEMMA Overlaid ==
  ASSUME NEW c, NEW e, NEW f \in Fields
  PROVE  ApplyEnv(c, e)[f] = IF f \in DOMAIN e THEN e[f] ELSE c[f]
BY DEF ApplyEnv

(* A default is taken only for a field that is unset in both. *)
LEMMA SetIsKept ==
  ASSUME NEW c, NEW e, NEW f \in Fields, ApplyEnv(c, e)[f] # Unset(f)
  PROVE  Resolve(c, e)[f] = ApplyEnv(c, e)[f]
BY DEF Resolve, ApplyDefaults

LEMMA UnsetIsDefault ==
  ASSUME NEW c, NEW e, NEW f \in Fields, ApplyEnv(c, e)[f] = Unset(f)
  PROVE  Resolve(c, e)[f] = Default(ApplyEnv(c, e), f)
BY DEF Resolve, ApplyDefaults

(* User, password and cookie file have no default: an unset one is empty. *)
LEMMA CredentialsHaveNoDefault ==
  ASSUME NEW c, NEW e, NEW f \in {"user", "password", "cookie"}
  PROVE  Resolve(c, e)[f] = ApplyEnv(c, e)[f]
<1>1. f \in Fields /\ Unset(f) = ""
  BY DEF Fields, Unset, IntFields, BoolFields
<1>2. Default(ApplyEnv(c, e), f) = Unset(f)
  <2>1. f \notin {"network", "host", "port", "listen", "level", "format", "latest",
                  "cache", "details"}
    OBVIOUS
  <2> QED
    BY <2>1 DEF Default
<1> QED
  BY <1>1, <1>2, SetIsKept, UnsetIsDefault

(* Numbers stay numbers. *)
LEMMA NumbersAreInt ==
  ASSUME NEW c \in Files, NEW e \in Envs, NEW f \in {"page", "cache"}
  PROVE  Resolve(c, e)[f] \in Int
<1>1. f \in Fields /\ f \in IntFields /\ Unset(f) = 0
  BY DEF Fields, Unset, IntFields
<1>2. ApplyEnv(c, e)[f] \in Int
  BY <1>1, Overlaid, FilesAssumption, EnvsAssumption DEF Typed
<1>3. Default(ApplyEnv(c, e), f) \in Int
  <2>1. CASE f = "page"
    BY <1>1, <2>1 DEF Default
  <2>2. CASE f = "cache"
    BY <2>2 DEF Default
  <2> QED
    BY <2>1, <2>2
<1> QED
  BY <1>1, <1>2, <1>3, SetIsKept, UnsetIsDefault

(* The network that was set, mainnet if none was. *)
LEMMA NetworkOf ==
  ASSUME NEW c, NEW e
  PROVE  Resolve(c, e)["network"] =
           IF ApplyEnv(c, e)["network"] = "" THEN "mainnet"
           ELSE ApplyEnv(c, e)["network"]
<1>1. "network" \in Fields /\ Unset("network") = ""
  BY DEF Fields, Unset, IntFields, BoolFields
<1>2. Default(ApplyEnv(c, e), "network") = "mainnet"
  BY DEF Default
<1> QED
  BY <1>1, <1>2, SetIsKept, UnsetIsDefault

(* There is always an address to listen on. *)
LEMMA AddressOf == ASSUME NEW c, NEW e PROVE Resolve(c, e)["listen"] # ""
<1>1. "listen" \in Fields /\ Unset("listen") = ""
  BY DEF Fields, Unset, IntFields, BoolFields
<1>2. Default(ApplyEnv(c, e), "listen") = "0.0.0.0:2100"
  BY DEF Default
<1> QED
  BY <1>1, <1>2, SetIsKept, UnsetIsDefault

(* A port that is unset becomes that of the network the configuration      *)
(* ends up with.                                                           *)
LEMMA PortOfNetwork ==
  ASSUME NEW c, NEW e, ApplyEnv(c, e)["port"] = 0,
         Resolve(c, e)["network"] \in Networks
  PROVE  Resolve(c, e)["port"] = DefaultPort[Resolve(c, e)["network"]]
<1>1. "port" \in Fields /\ Unset("port") = 0
  BY DEF Fields, Unset, IntFields
<1>2. Resolve(c, e)["port"] = Default(ApplyEnv(c, e), "port")
  BY <1>1, UnsetIsDefault
<1>3. Default(ApplyEnv(c, e), "port") = DefaultPort[Resolve(c, e)["network"]]
  BY NetworkOf DEF Default
<1> QED
  BY <1>2, <1>3
-----------------------------------------------------------------------------
(* What Validate asks, one field at a time. *)
LEMMA ValidFields ==
  ASSUME NEW c, Valid(c)
  PROVE  /\ c["network"] \in Networks /\ AuthValid(c) /\ c["listen"] # "nohost"
         /\ c["port"] \in Ports /\ c["latest"] >= 1 /\ c["cache"] >= 0
BY DEF Valid
-----------------------------------------------------------------------------
LEMMA InitIInv == Init => IInv
BY DEF Init, IInv, Loaded, Serving, NoCache

LEMMA LoadStep == IInv /\ Load => IInv'
<1> SUFFICES ASSUME IInv, Load PROVE IInv'
  OBVIOUS
<1>1. /\ stage' \in {"ping", "exited"} /\ UNCHANGED <<file, env, chain, capacity>>
      /\ stage' = "ping" => IsLoaded(conf)'
  BY DEF Load, IsLoaded
<1> QED
  BY <1>1 DEF IInv, Loaded, Serving

LEMMA PingStep == IInv /\ PingChain => IInv'
<1> SUFFICES ASSUME IInv, PingChain PROVE IInv'
  OBVIOUS
<1>1. /\ stage = "ping" /\ stage' \in {"version", "exited"}
      /\ UNCHANGED <<file, env, conf, capacity>>
      /\ stage' = "version" => OnChain'
  BY DEF PingChain, OnChain
<1> QED
  BY <1>1 DEF IInv, Loaded, Serving, IsLoaded

LEMMA VersionStep == IInv /\ PingVersion => IInv'
<1> SUFFICES ASSUME IInv, PingVersion PROVE IInv'
  OBVIOUS
<1>1. /\ stage = "version" /\ stage' \in {"create", "exited"}
      /\ UNCHANGED <<file, env, chain, conf, capacity>>
  BY DEF PingVersion
<1>2. UNCHANGED <<IsLoaded(conf), OnChain>>
  BY <1>1 DEF IsLoaded, OnChain
<1> QED
  BY <1>1, <1>2 DEF IInv, Loaded, Serving

LEMMA ServeStep == IInv /\ Serve => IInv'
<1> SUFFICES ASSUME IInv, Serve PROVE IInv'
  OBVIOUS
<1>1. /\ stage = "create" /\ stage' \in {"serving", "exited"}
      /\ UNCHANGED <<file, env, chain, conf>>
      /\ capacity' = conf["cache"]
  BY DEF Serve
<1>2. conf["cache"] \in Int
  BY <1>1, NumbersAreInt DEF IInv, Loaded, IsLoaded
<1>3. UNCHANGED <<IsLoaded(conf), OnChain>>
  BY <1>1 DEF IsLoaded, OnChain
<1> QED
  BY <1>1, <1>2, <1>3 DEF IInv, Loaded, Serving

(* Every step preserves the invariant. *)
LEMMA StepIInv == IInv /\ [Next]_vars => IInv'
<1> SUFFICES ASSUME IInv, [Next]_vars PROVE IInv'
  OBVIOUS
<1>1. CASE UNCHANGED vars
  BY <1>1 DEF vars, IInv, Loaded, Serving, IsLoaded, OnChain
<1> QED
  BY <1>1, LoadStep, PingStep, VersionStep, ServeStep DEF Next
-----------------------------------------------------------------------------
(* What the invariant says of a configuration that was loaded. *)
LEMMA LoadedFacts ==
  ASSUME IInv, Loaded
  PROVE  conf = Resolve(file, env) /\ Valid(conf) /\ file \in Files /\ env \in Envs
<1>1. IsLoaded(conf) /\ file \in Files /\ env \in Envs
  BY DEF IInv
<1> QED
  BY <1>1 DEF IsLoaded

(* What is loaded is what the file and the environment resolve to, and it  *)
(* passed Validate; nothing changes it, or the chain, while mempunk runs.  *)
THEOREM Invariance == Spec => []IInv
<1> QED
  BY InitIInv, StepIInv, PTL DEF Spec

(* A configuration that was loaded is one the program can work with. *)
THEOREM StartupTypeOK == Spec => []TypeOK
<1>1. IInv => TypeOK
  <2> SUFFICES ASSUME IInv PROVE TypeOK
    OBVIOUS
  <2>1. ASSUME Loaded
        PROVE  /\ conf["network"] \in Networks /\ conf["port"] \in Ports
               /\ conf["latest"] >= 1 /\ conf["listen"] \notin {"", "nohost"}
    BY <2>1, LoadedFacts, ValidFields, AddressOf
  <2>2. ASSUME Loaded PROVE TxPageSize(conf) >= 1
    <3>1. conf["page"] \in Int
      BY <2>2, LoadedFacts, NumbersAreInt
    <3> QED
      BY <3>1 DEF TxPageSize
  <2>3. ASSUME Serving PROVE capacity >= 0
    <3>1. Loaded /\ capacity = conf["cache"]
      BY <2>3 DEF IInv, Loaded, Serving
    <3>2. conf["cache"] >= 0
      BY <3>1, LoadedFacts, ValidFields
    <3> QED
      BY <3>1, <3>2
  <2>4. capacity \in Int /\ stage \in {"load", "ping", "version", "create", "serving",
                                         "exited"}
    BY DEF IInv
  <2> QED
    BY <2>1, <2>2, <2>3, <2>4 DEF TypeOK, Loaded
<1> QED
  BY <1>1, Invariance, PTL

(* Whatever the file says, and whatever chains nodes run: while mempunk    *)
(* serves, the chain is that of the network that was set last.             *)
THEOREM NeverServesAnotherChain == Spec => []ServesItsChain
<1>1. IInv => ServesItsChain
  <2> SUFFICES ASSUME IInv, Serving
               PROVE  chain = Chain[IF "network" \in DOMAIN env /\ env["network"] # ""
                                    THEN env["network"] ELSE conf["network"]]
    BY DEF ServesItsChain
  <2>1. conf = Resolve(file, env) /\ chain = Chain[conf["network"]]
    <3>1. Loaded /\ OnChain
      BY DEF IInv, Loaded, Serving
    <3> QED
      BY <3>1, LoadedFacts DEF OnChain
  <2>2. "network" \in Fields
    BY DEF Fields
  <2>3. "network" \in DOMAIN env /\ env["network"] # "" =>
          conf["network"] = env["network"]
    <3> SUFFICES ASSUME "network" \in DOMAIN env, env["network"] # ""
                 PROVE  conf["network"] = env["network"]
      OBVIOUS
    <3>1. ApplyEnv(file, env)["network"] = env["network"]
      BY <2>2, Overlaid
    <3> QED
      BY <2>1, <3>1, NetworkOf
  <2> QED
    BY <2>1, <2>3
<1> QED
  BY <1>1, Invariance, PTL

(* An unset port is that of the network the node is dialled for, although  *)
(* the two may be set in different places.                                 *)
THEOREM UnsetPortFollowsNetwork == Spec => []PortFollowsNetwork
<1>1. IInv => PortFollowsNetwork
  <2> SUFFICES ASSUME IInv, stage = "ping", PortLeftOpen
               PROVE  conf["port"] = DefaultPort[conf["network"]]
    BY DEF PortFollowsNetwork
  <2>1. conf = Resolve(file, env) /\ conf["network"] \in Networks
    <3>1. Loaded
      BY DEF Loaded
    <3> QED
      BY <3>1, LoadedFacts, ValidFields
  <2>2. ApplyEnv(file, env)["port"] = 0
    BY Overlaid DEF PortLeftOpen, Fields, IntFields
  <2> QED
    BY <2>1, <2>2, PortOfNetwork
<1> QED
  BY <1>1, Invariance, PTL

(* The credentials that are sent have the values that were set last, and   *)
(* nothing else was set.                                                   *)
THEOREM LastCredentialsAreSent == Spec => []CredentialsSetLast
<1>1. IInv => CredentialsSetLast
  <2> SUFFICES ASSUME IInv, Loaded PROVE CredentialsSetLast
    BY DEF CredentialsSetLast
  <2>1. conf = Resolve(file, env) /\ AuthValid(conf)
    BY LoadedFacts, ValidFields
  <2>2. ASSUME NEW f \in {"user", "password", "cookie"} PROVE conf[f] = SetLast(f)
    <3>1. f \in Fields
      BY DEF Fields
    <3> QED
      BY <2>1, <3>1, CredentialsHaveNoDefault, Overlaid DEF SetLast
  <2>3. /\ conf["user"] = SetLast("user") /\ conf["password"] = SetLast("password")
        /\ conf["cookie"] = SetLast("cookie")
    BY <2>2
  <2>4. CASE conf["cookie"] # ""
    <3>1. conf["user"] = "" /\ conf["password"] = ""
      BY <2>1, <2>4 DEF AuthValid
    <3> QED
      BY <2>3, <2>4, <3>1 DEF CredentialsSetLast, Credentials
  <2>5. CASE conf["cookie"] = ""
    <3>1. conf["user"] # "" /\ conf["password"] # ""
      BY <2>1, <2>5 DEF AuthValid
    <3> QED
      BY <2>3, <2>5, <3>1 DEF CredentialsSetLast, Credentials
  <2> QED
    BY <2>4, <2>5
<1> QED
  BY <1>1, Invariance, PTL
=============================================================================
