------------------------------- MODULE Router -------------------------------
(***************************************************************************)
(* Validation of a configuration, and the routing engine built from one:   *)
(* two tries and a list of regex routes, searched tier by tier.  A path is *)
(* the sequence of strings between its slashes, so that repeated, leading  *)
(* and trailing slashes show as empty strings.                             *)
(***************************************************************************)
EXTENDS Integers, Sequences, SequencesExt

CONSTANTS None,
          LowerCase,  \* to_ascii_lowercase of each segment and method in use
          Blank       \* the strings that are empty once trimmed

-----------------------------------------------------------------------------
(* A configuration *)

\* A regex is the set of the raw paths it matches, or None if it does not compile.
PathMatch(kind, path) ==
  \/ kind \in {"exact", "prefix"} /\ path \in Seq(STRING)
  \/ kind = "regex" /\ (path = None \/ path \subseteq Seq(STRING))

\* headers: the values each header named may have; auth: the mechanisms enabled,
\* none also without an auth block.
RouteConfig(r) ==
  /\ PathMatch(r.kind, r.path)
  /\ r.id \in STRING /\ r.upstream \in STRING
  /\ {r.method, r.policy} \ {None} \subseteq STRING
  /\ \A name \in DOMAIN r.headers : r.headers[name] \subseteq STRING
  /\ r.auth \subseteq {"jwt", "api_key", "mtls"}

\* hash_header is that of consistent hashing, or None.
UpstreamConfig(u) ==
  /\ u.weights \in Seq(Nat)
  /\ u.hash_header = None \/ u.hash_header \in STRING

GatewayConfig(cfg) ==
  /\ cfg.routes \in Seq(Range(cfg.routes))
  /\ \A i \in DOMAIN cfg.routes : RouteConfig(cfg.routes[i])
  /\ \A name \in DOMAIN cfg.upstreams : UpstreamConfig(cfg.upstreams[name])
  /\ cfg.policies \subseteq STRING

-----------------------------------------------------------------------------
\* normalise_path, as the tries see its result: empty segments lead nowhere.
normalise_path(path) ==
  LET out[k \in 0 .. Len(path)] ==
        IF k = 0 THEN <<>>
        ELSE IF path[k] = "" THEN out[k - 1]
        ELSE Append(out[k - 1], LowerCase[path[k]])
  IN  out[Len(path)]

-----------------------------------------------------------------------------
(* validate *)

validate_upstreams(cfg) ==
  \A name \in DOMAIN cfg.upstreams :
    LET u == cfg.upstreams[name]
    IN  u.weights # <<>> /\ 0 \notin Range(u.weights) /\ u.hash_header \notin Blank

validate_routes(cfg) ==
  /\ \A i \in DOMAIN cfg.routes :
       LET r == cfg.routes[i]
       IN  r.id \notin Blank /\ r.upstream \in DOMAIN cfg.upstreams /\ r.path # None
  /\ \A i, j \in DOMAIN cfg.routes : cfg.routes[i].id = cfg.routes[j].id => i = j

validate_rate_limit_refs(cfg) ==
  \A i \in DOMAIN cfg.routes : cfg.routes[i].policy \in cfg.policies \cup {None}

validate(cfg) == validate_upstreams(cfg) /\ validate_routes(cfg) /\ validate_rate_limit_refs(cfg)

-----------------------------------------------------------------------------
(* Router::build: a node of a trie holds the routes inserted there, in the    *)
(* order of their declaration, so that their positions in it stand for them.  *)

TrieNode(cfg, kind, path) ==
  {i \in DOMAIN cfg.routes :
     cfg.routes[i].kind = kind /\ normalise_path(cfg.routes[i].path) = path}

RegexRoutes(cfg) == {i \in DOMAIN cfg.routes : cfg.routes[i].kind = "regex"}

matches_predicates(r, q) ==
  /\ r.method = None \/ LowerCase[r.method] = LowerCase[q.method]
  /\ \A name \in DOMAIN r.headers :
       name \in DOMAIN q.headers /\ q.headers[name] \in r.headers[name]

Accepted(cfg, q, positions) == {i \in positions : matches_predicates(cfg.routes[i], q)}

\* Only the first route of the node is ever looked at.
find_exact(cfg, path) ==
  LET node == TrieNode(cfg, "exact", path)
  IN  IF node = {} THEN {} ELSE {Min(node)}

\* What collect_prefix_matches adds at the node for the first d segments.
collect_prefix_matches(cfg, path, d) == TrieNode(cfg, "prefix", SubSeq(path, 1, d))

\* Mutant: the candidates are tried in the order the trie collects them.
prefix_match_shallow(cfg, q, path) ==
  LET tried[d \in 0 .. Len(path)] ==
        LET found == Accepted(cfg, q, collect_prefix_matches(cfg, path, d))
        IN  IF found # {} THEN {Min(found)}
            ELSE IF d = Len(path) THEN {} ELSE tried[d + 1]
  IN  tried[0]

\* The candidates are reversed: nodes are tried from the deepest up to the root, and
\* the routes of a node from the last to the first.
prefix_match(cfg, q, path) ==
  LET tried[d \in 0 .. Len(path)] ==
        LET found == Accepted(cfg, q, collect_prefix_matches(cfg, path, d))
        IN  IF found # {} THEN {Max(found)}
            ELSE IF d = 0 THEN {} ELSE tried[d - 1]
  IN  tried[Len(path)]

\* The regexes see the path as it was sent.
regex_match(cfg, q) ==
  Accepted(cfg, q, {i \in RegexRoutes(cfg) : q.path \in cfg.routes[i].path})

\* The first route whose predicates hold, tier by tier.  None: 404.
match_request(cfg, q) ==
  LET path == normalise_path(q.path)
      exact == Accepted(cfg, q, find_exact(cfg, path))
      prefix == prefix_match(cfg, q, path)
      regex == regex_match(cfg, q)
  IN  CASE exact # {} -> cfg.routes[Min(exact)]
        [] exact = {} /\ prefix # {} -> cfg.routes[Min(prefix)]
        [] exact = {} /\ prefix = {} /\ regex # {} -> cfg.routes[Min(regex)]
        [] OTHER -> None

-----------------------------------------------------------------------------
(* What the route that is chosen should be, from the documents alone *)

\* The routes, by position, that are made for a request.
Suitable(cfg, q, kind) ==
  {i \in DOMAIN cfg.routes :
     LET r == cfg.routes[i] IN
     /\ r.kind = kind
     /\ matches_predicates(r, q)
     /\ CASE kind = "exact"  -> normalise_path(r.path) = normalise_path(q.path)
          [] kind = "prefix" -> IsPrefix(normalise_path(r.path), normalise_path(q.path))
          [] kind = "regex"  -> q.path \in r.path}

\* Two exact routes for the path of the request, or two prefix routes with the same
\* prefix that are both made for it.
Ambiguous(cfg, q) ==
  \E i, j \in DOMAIN cfg.routes :
    /\ i # j
    /\ \/ {i, j} \subseteq TrieNode(cfg, "exact", normalise_path(q.path))
       \/ /\ {i, j} \subseteq Suitable(cfg, q, "prefix")
          /\ normalise_path(cfg.routes[i].path) = normalise_path(cfg.routes[j].path)

\* Exact routes, then the longest prefix, then regexes; of equals the first declared.
Winner(cfg, q) ==
  LET exact == Suitable(cfg, q, "exact")
      prefix == Suitable(cfg, q, "prefix")
      regex == Suitable(cfg, q, "regex")
      Segments(i) == Len(normalise_path(cfg.routes[i].path))
      Longest(S) == cfg.routes[CHOOSE i \in S : \A j \in S :
                      \/ Segments(i) > Segments(j)
                      \/ Segments(i) = Segments(j) /\ i <= j]
      First(S) == cfg.routes[Min(S)]
  IN  CASE exact # {} -> First(exact)
        [] exact = {} /\ prefix # {} -> Longest(prefix)
        [] exact = {} /\ prefix = {} /\ regex # {} -> First(regex)
        [] OTHER -> None
=============================================================================
