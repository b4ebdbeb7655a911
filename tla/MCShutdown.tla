----------------------------- MODULE MCShutdown -----------------------------
(* Upstreams answer with a body or with an empty error.           *)
EXTENDS Shutdown

MCReplies == {[status |-> 200, bytes |-> 1], [status |-> 503, bytes |-> 0]}
=============================================================================
