----------------------------- MODULE MCPipeline -----------------------------
(* A table with an exact route, nested prefixes and a regex; a second one that *)
(* brings a new upstream and a new policy, an open exact route for the regex's *)
(* path and a second route for the deeper prefix; and an invalid one.          *)
EXTENDS Pipeline, TLC

CONSTANTS r1, r2

MCSymmetry == Permutations({r1, r2})

MCLowerCase == [s \in {"a", "A", "b", "B", "get", "GET", "POST"} |->
  CASE s = "A" -> "a" [] s = "B" -> "b" [] s = "GET" -> "get" [] s = "POST" -> "post"
    [] OTHER -> s]

Plain(id, kind, path) ==
  [id |-> id, kind |-> kind, path |-> path, method |-> None, headers |-> <<>>, auth |-> {},
   policy |-> None, upstream |-> "old"]

Cluster == [weights |-> <<1, 2>>, hash_header |-> None]

First ==
  [routes |->
     <<[Plain("get", "exact", <<"", "A">>) EXCEPT !.method = "get"],
       [Plain("match", "regex", {<<"", "b">>}) EXCEPT !.auth = {"jwt"}],
       [Plain("wide", "prefix", <<"", "a">>) EXCEPT !.auth = {"jwt"}, !.policy = "p"],
       [Plain("deep", "prefix", <<"", "a", "", "b">>) EXCEPT
          !.auth = {"jwt", "api_key"}, !.headers = [h |-> {"x", "y"}]]>>,
   upstreams |-> [old |-> Cluster], policies |-> {"p"}]

Second ==
  [routes |-> First.routes \o
     <<[Plain("open", "exact", <<"", "B">>) EXCEPT
          !.method = "GET", !.auth = {"mtls"}, !.policy = "q", !.upstream = "new"],
       [Plain("other", "prefix", <<"", "a", "b">>) EXCEPT !.headers = [h |-> {"y"}]]>>,
   upstreams |-> [old |-> Cluster, new |-> Cluster], policies |-> {"p", "q"}]

MCConfigs == <<First, Second, [Second EXCEPT !.upstreams.new.weights = <<0>>]>>

\* k1 is replaced by k2, neither of which a token has to name, next to a key of a
\* type the gateway does not know.
Key(id, type) == [key_id |-> id, key_type |-> type, complete |-> TRUE, pair |-> id]
MCPublications == <<<<Key("k1", "RSA"), Key("k3", "oct")>>, <<Key("k2", "EC")>>>>

Ask(method, path, headers, authorization) ==
  [method |-> method, path |-> path, headers |-> headers, authorization |-> authorization,
   x_api_key |-> TRUE]

Bearer(kid, alg, pair) ==
  [scheme |-> "Bearer",
   token |-> [kid |-> kid, alg |-> alg, pair |-> pair, sub |-> "s", aud |-> "api", iss |-> None,
              exp |-> "future", nbf |-> None]]

MCShapes ==
  {Ask("POST", <<"", "a", "">>, <<>>, Bearer(None, "RS256", "k1")),
   Ask("GET", <<"", "a", "b", "b">>, [h |-> "x"], Bearer("k1", "RS256", "k1")),
   Ask("GET", <<"", "b">>, <<>>, Bearer("k1", "HS256", "k1")),
   Ask("POST", <<"", "B">>, <<>>, None)}
=============================================================================
