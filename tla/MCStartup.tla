----------------------------- MODULE MCStartup -----------------------------
(* Each field takes the values that matter: unset, valid, and on either    *)
(* side of what Validate accepts.  The file is one of three bases (nothing *)
(* set, user and password, cookie) with one field changed, and the         *)
(* environment sets up to two variables, so that every pair of a file      *)
(* field and two variables meets.  A host, user, password or cookie file   *)
(* tells which of the two it is from.                                      *)
EXTENDS Startup

Values(f) ==
  CASE f = "network"  -> {"", "mainnet", "testnet4", "testnet5"}
    [] f = "port"     -> {0, -1, 1, 9999, 65535, 65536}
    [] f = "latest"   -> {0, -1, 1}
    [] f = "page"     -> {0, -1, 1}
    [] f = "cache"    -> {0, -1, 1}
    [] f \in BoolFields -> {"nil", "true", "false"}
    [] f = "listen"   -> {"", "host:port", "nohost"}
    [] f = "level"    -> {"", "debug", "trace"}
    [] f = "format"   -> {"", "json", "xml"}
    [] OTHER          -> {"", "file"}

Bases == { NoConfig,
           [NoConfig EXCEPT !["user"] = "file", !["password"] = "file"],
           [NoConfig EXCEPT !["cookie"] = "file"] }

Changed(b) == UNION { { [b EXCEPT ![f] = v] : v \in Values(f) } : f \in Fields }

MCFiles == UNION { Changed(b) : b \in Bases }

(* An environment variable holds a value, never a nil pointer. *)
EnvValues(f) ==
  IF f \in BoolFields THEN {"true", "false"}
  ELSE IF f \in {"host", "user", "password", "cookie"} THEN {"", "env"}
  ELSE Values(f)

Pair(f, g) == { [h \in {f, g} |-> IF h = f THEN v ELSE w] :
                  v \in EnvValues(f), w \in EnvValues(g) }

MCEnvs == {[f \in {} |-> ""]} \union UNION { Pair(f, g) : f, g \in Fields }

MCChains == {"main", "testnet4"}
=============================================================================
