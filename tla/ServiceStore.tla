----------------------------- MODULE ServiceStore -----------------------------
(***************************************************************************)
(* The services table (internal/store/services.go) as operators on one     *)
(* row.  A row keeps the columns the supervisor branches on: publish_mode, *)
(* gateway_mode, enabled, status, runtime_url and the public mapping.      *)
(* Names, targets, time stamps and error texts are left out.               *)
(*                                                                         *)
(* "life" stands for the row's existence.  Identifiers are random tokens,  *)
(* so a deleted identifier is never issued again: life only moves from     *)
(* "unborn" to "live" to "deleted".                                        *)
(***************************************************************************)

CONSTANT None    \* an empty column, an empty slot

PublishModes == {"direct", "redirect", "dns", "proxy", "tunnel",
                 "spectrum", "quick", "warp", "workers"}

AllGatewayModes == {"none", "upnp", "natpmp", "fw4"}

Statuses == {"stopped", "discovering", "mapped", "gateway_mapped",
             "gateway_error", "healthy", "sync_error", "error",
             "tunnel_starting", "tunnel_running"}

UsesConnector(row) == row.mode \in {"tunnel", "quick", "warp"}

UsesCloudflareAccount(row) == row.mode \notin {"direct", "quick"}

UnbornRow == [life |-> "unborn", mode |-> "direct", gw |-> "none",
              enabled |-> FALSE, status |-> "stopped", url |-> None,
              mapping |-> None]

Live(row) == row.life = "live"

\* The configuration columns of a row: all that starting a service looks at.
Config(row) == [UnbornRow EXCEPT !.mode = row.mode, !.gw = row.gw]

\* Connector modes never use a router mapping, whatever the request says.
ServiceFromRequest(mode, gw) ==
    [mode |-> mode,
     gw |-> IF mode \in {"tunnel", "quick", "warp"} THEN "none" ELSE gw]

CreateService(input) ==
    [UnbornRow EXCEPT !.life = "live", !.mode = input.mode, !.gw = input.gw]

\* The request carries no enabled flag, so an update writes enabled = 0.  It
\* leaves the status, mapping and runtime_url columns as they are.
UpdateService(row, input) ==
    IF Live(row)
    THEN [row EXCEPT !.mode = input.mode, !.gw = input.gw, !.enabled = FALSE]
    ELSE row

DeleteService(row) == [UnbornRow EXCEPT !.life = "deleted"]

SetServiceRuntime(row, status, enabled) ==
    IF Live(row)
    THEN [row EXCEPT !.status = status,
                     !.enabled = enabled,
                     !.url = IF status \in {"stopped", "error", "tunnel_starting"}
                             THEN None ELSE @]
    ELSE row

SetServiceMapping(row, mapping) ==
    IF Live(row) THEN [row EXCEPT !.mapping = mapping, !.status = "mapped"]
                 ELSE row

SetServiceRuntimeURL(row, url) ==
    IF Live(row) THEN [row EXCEPT !.url = url] ELSE row
===============================================================================
