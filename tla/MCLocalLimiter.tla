--------------------------- MODULE MCLocalLimiter ---------------------------
(* One subject behind two addresses, and a client with an address only.       *)
EXTENDS LocalLimiter, TLC

CONSTANTS c1, c2, c3

MCClients == {c1, c2, c3}
MCSubject == (c1 :> "subject" @@ c2 :> "subject" @@ c3 :> None)
MCForwardedFor == (c1 :> "proxy" @@ c2 :> None @@ c3 :> None)
MCRealIp == (c1 :> None @@ c2 :> "address" @@ c3 :> "address")
=============================================================================
