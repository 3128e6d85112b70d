------------------------------ MODULE MCClients ------------------------------
(* Clients with two calls that overlap, so that an answer that comes late  *)
(* for one may meet the other.                                             *)
EXTENDS Clients, TLC

CONSTANTS c1, c2

Inv(client, tool, number, mode) ==
    [client |-> client, tool |-> tool, number |-> number, mode |-> mode]

MCInvocations ==
    c1 :> {Inv("mcp", "search", 1, "concurrent"), Inv("mcp", "search", 1, "tiered"),
           Inv("mcp", "fetch", 2, "none"), Inv("mcp", "list_providers", 0, "none")}
    @@ c2 :> {Inv("mcp", "search", 0, "concurrent"), Inv("mcp", "search", 1, "tiered"),
              Inv("mcp", "fetch", 2, "none"), Inv("cli", "status", 0, "none"),
              Inv("cli", "fetch", 1, "none"), Inv("cli", "fetch", 1, "json"),
              Inv("cli", "cache_clear", 0, "none"), Inv("cli", "search", 0, "concurrent"),
              Inv("cli", "list_providers", 0, "none"), Inv("mcp", "cache_stats", 0, "none")}
=============================================================================
