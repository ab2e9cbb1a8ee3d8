--------------------------- MODULE PublisherContract ---------------------------
(***************************************************************************)
(* What internal/cloudflare promises the handlers of internal/httpapi      *)
(* about one service, and all that ServiceApi knows of it: does the        *)
(* service own anything at Cloudflare, and which call is under way.        *)
(*                                                                         *)
(* A call may fail after any part of its work; success says that the       *)
(* service owns something (Sync) or nothing (Cleanup).                     *)
(***************************************************************************)
CONSTANT AllModes

VARIABLES
    mode,   \* the publish mode, or "deleted"
    owned,  \* the service has rows in cloudflare_resources
    busy,   \* the call under way: "none", "sync" or "cleanup"
    result  \* how the last call ended: "none", "synced" or "cleaned"

vars == <<mode, owned, busy, result>>

Init ==
    /\ mode \in AllModes
    /\ owned = FALSE
    /\ busy = "none"
    /\ result = "none"

\* A service that owns something keeps its mode and is not deleted.
Change ==
    /\ busy = "none"
    /\ ~owned
    /\ mode # "deleted"
    /\ mode' \in AllModes \cup {"deleted"}
    /\ result' = "none"
    /\ UNCHANGED <<owned, busy>>

Begin ==
    /\ busy = "none"
    /\ mode # "deleted"
    /\ busy' \in {"sync", "cleanup"}
    /\ result' = "none"
    /\ UNCHANGED <<mode, owned>>

\* A cleanup gives nothing up before everything is deleted; Sync never does.
Work ==
    /\ \/ busy = "sync" /\ owned' = TRUE
       \/ busy = "cleanup" /\ owned' = FALSE
    /\ UNCHANGED <<mode, busy, result>>

\* The call ends; its last step may be the one that records.
End ==
    /\ busy # "none"
    /\ busy' = "none"
    /\ owned' \in {owned, busy = "sync"}
    /\ result' \in {"none"} \cup (IF busy = "sync" THEN {"synced"} ELSE {"cleaned"})
    /\ result' = "synced" => owned'
    /\ result' = "cleaned" => ~owned'
    /\ UNCHANGED mode

Ask == result' = "none" /\ UNCHANGED <<mode, owned, busy>>

Next == Change \/ Begin \/ Work \/ End \/ Ask

Spec == Init /\ [][Next]_vars
===============================================================================
