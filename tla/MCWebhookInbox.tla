--------------------------- MODULE MCWebhookInbox ---------------------------
(* Small instances of WebhookInbox for TLC.                                *)
EXTENDS WebhookInbox

CONSTANTS n1, n2, r1, r2
=============================================================================
