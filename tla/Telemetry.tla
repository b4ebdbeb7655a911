------------------------------ MODULE Telemetry ------------------------------
(***************************************************************************)
(* The Prometheus registry of the gateway and the recording calls of       *)
(* MetricsRecorder.  A registry is a function on series <<family, label>>: *)
(* a series appears with its first event, and its value is that of a       *)
(* counter or the number of a histogram's observations.  Of the labels,    *)
(* those are kept that say how a request went; route, method and upstream  *)
(* are those of the request.                                               *)
(*                                                                         *)
(* The two gauges are elsewhere: active_connections in Shutdown,           *)
(* endpoint_health in Health.  config_reloads_total, which counts the      *)
(* rebuilds of the router, is left out.                                    *)
(***************************************************************************)
EXTENDS Naturals

\* Metrics: the families, with the values their label takes.
Layers == {"l1_local", "l2_distributed"}
Mechanisms == {"jwt", "api_key", "mtls", "none"}
Lookups == {"hit", "miss", "bypass"}
Classes == {"1xx", "2xx", "3xx", "4xx", "5xx", "unknown"}

Families == [requests_total |-> Classes, request_duration_seconds |-> {"all"},
             request_size_bytes |-> {"all"}, response_size_bytes |-> {"all"},
             upstream_requests_total |-> Classes, upstream_duration_seconds |-> {"all"},
             rate_limit_denied_total |-> Layers, cache_lookups_total |-> Lookups,
             auth_failures_total |-> Mechanisms, concurrency_rejected_total |-> {"limit"}]

\* Metrics::new: every family is registered, and none has a series yet.
NewRegistry == [s \in {} |-> 0]

Series == {s \in (DOMAIN Families) \X UNION {Families[f] : f \in DOMAIN Families} :
             s[2] \in Families[s[1]]}

\* The value of a series, which is 0 before its first event.
ValueOf(registry, s) == IF s \in DOMAIN registry THEN registry[s] ELSE 0

\* One event in each of a set of series.
Count(registry, series) ==
  [s \in DOMAIN registry \cup series |->
     ValueOf(registry, s) + (IF s \in series THEN 1 ELSE 0)]

-----------------------------------------------------------------------------
(* AuthError *)

AuthErrors == {"JwksFetch", "UnknownKid", "InvalidToken", "MissingToken", "InvalidApiKey",
               "MissingApiKey", "ApiKeyStore", "MissingClientCert", "InvalidClientCert",
               "NoProviderEnabled", "Config"}

status_code(e) ==
  CASE e \in {"MissingToken", "MissingApiKey", "MissingClientCert"} -> 401
    [] e \in {"InvalidToken", "InvalidApiKey", "UnknownKid", "InvalidClientCert"} -> 403
    [] e \in {"JwksFetch", "ApiKeyStore"} -> 503
    [] OTHER -> 500

mechanism(e) ==
  CASE e \in {"MissingToken", "InvalidToken", "JwksFetch", "UnknownKid"} -> "jwt"
    [] e \in {"MissingApiKey", "InvalidApiKey", "ApiKeyStore"} -> "api_key"
    [] e \in {"MissingClientCert", "InvalidClientCert"} -> "mtls"
    [] OTHER -> "none"

-----------------------------------------------------------------------------
(* MetricsRecorder *)

status_class(status) ==
  CASE status \in 100 .. 199 -> "1xx"
    [] status \in 200 .. 299 -> "2xx"
    [] status \in 300 .. 399 -> "3xx"
    [] status \in 400 .. 499 -> "4xx"
    [] status \in 500 .. 599 -> "5xx"
    [] OTHER -> "unknown"

\* The sizes are observed when there is a body.
record_request(registry, status, request_bytes, response_bytes) ==
  Count(registry,
        {<<"requests_total", status_class(status)>>, <<"request_duration_seconds", "all">>}
          \cup {s \in {<<"request_size_bytes", "all">>} : request_bytes > 0}
          \cup {s \in {<<"response_size_bytes", "all">>} : response_bytes > 0})

record_upstream(registry, status) ==
  Count(registry, {<<"upstream_requests_total", status_class(status)>>,
                   <<"upstream_duration_seconds", "all">>})

\* For a request that was denied; one that was allowed is not counted.
record_rate_limit(registry, layer) == Count(registry, {<<"rate_limit_denied_total", layer>>})

record_cache_lookup(registry, result) == Count(registry, {<<"cache_lookups_total", result>>})

record_auth_failure(registry, e) == Count(registry, {<<"auth_failures_total", mechanism(e)>>})

record_concurrency_rejected(registry) ==
  Count(registry, {<<"concurrency_rejected_total", "limit">>})
=============================================================================
