----------------------------- MODULE MCSidecar -----------------------------
(* Small instances of Sidecar for TLC. *)
EXTENDS Sidecar

\* "game" is the endpoint of config.yaml: markers for two states, on the pod
\* and on its GameServer, here with the data under a key of a marker; "mark"
\* leaves the GameServer out.  "part" sets fewer keys in one state, and no
\* markers in another.  "http" records what it is answered.  "m1" and
\* "m2" feed metrics.  Of the others some check refuses the configuration.
Target(type, dataKeys, target, policies) ==
  [type |-> type, dataKeys |-> dataKeys, jsonPath |-> FALSE, target |-> target,
   policies |-> policies]

Policy(s, idle, cost) ==
  [state |-> s, marks |-> [k \in {"idle", "cost"} |-> IF k = "idle" THEN idle ELSE cost]]

\* The first policy is replaced by the last, which is for the same state.
GamePolicies ==
  <<Policy("free", "x", "-10"), Policy("busy", "false", "10"), Policy("free", "true", "-10")>>

\* No policy is for what it answers besides.
PartPolicies ==
  <<Policy("free", "true", "-10"), [state |-> "busy", marks |-> [k \in {"cost"} |-> "10"]]>>

MCConfig ==
  [s \in Settings |->
     CASE s = "game"  -> Target("InKube", {"cost"}, "named", GamePolicies)
       [] s = "mark"  -> Target("InKube", {"cost"}, "none", GamePolicies)
       [] s = "part"  -> Target("InKube", {"http"}, "named", PartPolicies)
       [] s = "http"  -> Target("InKube", {"http"}, "none", <<>>)
       [] s \in {"m1", "m2"} -> Target("HTTPMetric", {}, "none", <<>>)
       [] s = "odd"   -> Target("other", {}, "none", <<>>)
       [] s = "unset" -> Target("InKube", {"http"}, "unresolved", <<>>)
       [] s = "empty" -> Target("InKube", {"http"}, "invalid", <<>>)]

MCCanAnswer ==
  [s \in Settings |->
     CASE s = "game" -> {"free", "busy", Bad}
       [] s = "part" -> {"free", "busy", "7"}
       [] s = "mark" -> {"busy"}
       [] s = "odd"  -> {"free", NonString}
       [] s = "m1"   -> {"7"}
       [] OTHER      -> {"free"}]

Started(p, e1, e2, keys, policy, n) ==
  [plugins |-> p, endpoints |-> [e \in Endpoints |-> IF e = "e1" THEN e1 ELSE e2],
   objectKeys |-> keys, restartPolicy |-> policy, faults |-> n]

Only(e1, keys, n) == Started({"http_probe"}, e1, None, keys, "Always", n)
Both(e1, e2, n)   == Started({"http_probe"}, e1, e2, {}, "Always", n)
With(p, e1, n)    == Started(p, e1, None, {}, "OnFailure", n)

\* What differs from one to the next: whether the object has all the keys;
\* states that set different keys; endpoints that share the cache and the storages; answers that panic;
\* configurations that are refused; binaries that end; names that collide.
MCConfigurations ==
  { Only("game", {"idle", "cost"}, 2), Only("game", {"idle"}, 1),
    Only("part", {"cost", "http"}, 1), Only("part", {"idle", "cost", "http"}, 0),
    Both("mark", "http", 1), Both("m1", "m2", 2),
    Only("odd", {}, 2), Only("unset", {}, 2), Only("empty", {}, 2),
    With({"http_probe", "proxy"}, "http", 2),
    With({"http_probe", "proxy", "unknown"}, "http", 2),
    With({"http_probe", "proxy", "binary", "hot_update"}, None, 3) }

\* An endpoint that may come to fail after its markers are set.
MCFailing == { Only("game", {"idle", "cost"}, 0) }

=============================================================================
