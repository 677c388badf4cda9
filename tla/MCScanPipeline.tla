--------------------------- MODULE MCScanPipeline ----------------------------
(* The analyzers the CLI configures: HTTP aborts, DNS/TLS and browser continue. *)
EXTENDS ScanPipeline

MCPolicies == <<"abort", "continue", "continue">>
=============================================================================
