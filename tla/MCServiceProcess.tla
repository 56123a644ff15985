-------------------------- MODULE MCServiceProcess --------------------------
(***************************************************************************)
(* An instance of ServiceProcess for TLC: a complete deployment, one with  *)
(* fan-out off, a local one and one whose base URL is slashes, and         *)
(* deployments each short of something.                                    *)
(***************************************************************************)
EXTENDS ServiceProcess

Production ==
  [exporters |-> [traces |-> "otlp", metrics |-> "none", logs |-> "otlp"],
   database |-> "parts", authRequired |-> TRUE, jwks |-> TRUE, audience |-> TRUE,
   local |-> FALSE, fanout |-> TRUE, secret |-> TRUE, base |-> "url"]

MCEnvironments ==
  {Production,
   [Production EXCEPT !.fanout = FALSE, !.secret = FALSE,
                      !.exporters = [k \in Exporters |-> ""]],
   [Production EXCEPT !.authRequired = FALSE, !.jwks = FALSE, !.local = TRUE],
   [Production EXCEPT !.authRequired = FALSE, !.jwks = FALSE],
   [Production EXCEPT !.base = "slashes",
                      !.exporters = [k \in Exporters |-> ""]],
   [Production EXCEPT !.base = ""],
   [Production EXCEPT !.secret = FALSE],
   [Production EXCEPT !.database = ""],
   [Production EXCEPT !.audience = FALSE,
                      !.exporters = [k \in Exporters |-> "otlp"]]}
=============================================================================
