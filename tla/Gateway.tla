------------------------------- MODULE Gateway -------------------------------
(* The connection of a store with Mercado Pago (payments/service.py,              *)
(* payments/router.py): the row of payment_gateway_configs, the OAuth flow of the  *)
(* panel, and the workers (requests, webhooks, jobs) that call the API with a copy  *)
(* of that row and refresh its token when it is refused.                             *)
(*                                                                                   *)
(* Mercado Pago rotates the refresh token on every use. No lock spans a refresh:      *)
(* the copy is read, the network answers without a transaction, and the new tokens     *)
(* are written in a short one. A grant is the pair of tokens of one answer.             *)
EXTENDS Naturals, Sequences

CONSTANTS GatewayWorkers,   \* whoever calls the API
          MpAccounts,       \* accounts of Mercado Pago the owner may connect
          NoAccountId,      \* oauth_user_id NULL
          MaxGrants,        \* bound: grants Mercado Pago gives
          MaxRows           \* bound: rows the store goes through

ASSUME GatewayAssumption == MaxRows \in Nat

VARIABLES production,    \* settings.ENV
          config,    \* the row, id 0 when there is none
          rows,      \* ids given so far
          grants,    \* per grant given so far: its account, its refresh and access tokens
          caller,    \* per worker: its copy of the row and where it is
          oauth,     \* the flow of the panel: none, started, or the grant it holds
          notice     \* the connection_broken message: in the outbox, or told to the owner

gatewayVars == <<production, config, rows, grants, caller, oauth, notice>>

NoGrant == 0
NoConfig == [id |-> 0, access |-> NoGrant, refresh |-> NoGrant, account |-> NoAccountId,
             mode |-> "manual", broken |-> FALSE]
IdleCaller == [at |-> "idle", copy |-> NoConfig, got |-> NoGrant, retried |-> FALSE]

(* A refresh token is live until the account revokes it or an answer rotates it; lost  *)
(* when nobody kept that answer.                                                        *)
RefreshStates == {"live", "rotated", "lost", "revoked"}

GrantRecords == [account : MpAccounts, refresh : RefreshStates, access : BOOLEAN]

(* The row, and what a worker holds, once Mercado Pago gave n grants. *)
ConfigRows(n) == [id : 0..MaxRows, access : 0..n, refresh : 0..n,
                  account : MpAccounts \cup {NoAccountId}, mode : {"manual", "oauth"},
                  broken : BOOLEAN]
CallerStates(n) == [at : {"idle", "call", "refresh", "save", "refused"},
                    copy : ConfigRows(n), got : 0..n, retried : BOOLEAN]

GatewayTypeOK ==
    /\ grants \in Seq(GrantRecords)
    /\ rows \in 0..MaxRows
    /\ config \in ConfigRows(Len(grants))
    /\ caller \in [GatewayWorkers -> CallerStates(Len(grants))]
    /\ oauth \in [at : {"none", "started", "exchanged"}, got : 0..Len(grants)]
    /\ notice \in {"none", "pending", "told"}

GatewayInit ==
    /\ production \in BOOLEAN
    /\ config = NoConfig /\ rows = 0
    /\ grants = <<>>
    /\ caller = [w \in GatewayWorkers |-> IdleCaller]
    /\ oauth = [at |-> "none", got |-> NoGrant]
    /\ notice = "none"

-----------------------------------------------------------------------------
(* Mercado Pago gives a grant, to a code or to a refresh token it then forgets. *)
NewGrant == Len(grants) + 1
WithGrant(gs, account) == Append(gs, [account |-> account, refresh |-> "live", access |-> TRUE])
Accepts(g) == g # NoGrant /\ grants[g].refresh = "live"

(* Access tokens lapse; the account may revoke the app. *)
AccessExpires(g) ==
    /\ g \in DOMAIN grants /\ grants[g].access
    /\ grants' = [grants EXCEPT ![g].access = FALSE]
    /\ UNCHANGED <<production, config, rows, caller, oauth, notice>>
GrantRevoked(g) ==
    /\ g \in DOMAIN grants /\ Accepts(g)
    /\ grants' = [grants EXCEPT ![g].access = FALSE, ![g].refresh = "revoked"]
    /\ UNCHANGED <<production, config, rows, caller, oauth, notice>>

-----------------------------------------------------------------------------
(* gateway_has_usable_token, and what fetch and search ask for instead: a token. *)
UsableToken(row) == row.id # 0 /\ row.access # NoGrant /\ ~ row.broken
HasToken(row) == row.id # 0 /\ row.access # NoGrant

(* prepare_mercadopago_preference reads the row before the network. *)
PreparePreference(w) ==
    /\ caller[w].at = "idle"
    /\ UsableToken(config)
    /\ caller' = [caller EXCEPT ![w] = [IdleCaller EXCEPT !.at = "call", !.copy = config]]
    /\ UNCHANGED <<production, config, rows, grants, oauth, notice>>

(* expire_mercadopago_preference, fetch_mercadopago_payment and                    *)
(* search_mercadopago_payments, with the configs a batch loaded once.               *)
LoadGatewayConfigs(w) ==
    /\ caller[w].at = "idle"
    /\ HasToken(config)
    /\ caller' = [caller EXCEPT ![w] = [IdleCaller EXCEPT !.at = "call", !.copy = config]]
    /\ UNCHANGED <<production, config, rows, grants, oauth, notice>>

EndCall(w) == caller' = [caller EXCEPT ![w] = IdleCaller]

(* refresh_mercadopago_oauth: the owner asks for a refresh from the panel. *)
RefreshFromPanel(w) ==
    /\ caller[w].at = "idle"
    /\ config.id # 0 /\ config.refresh # NoGrant
    /\ caller' = [caller EXCEPT ![w] = [IdleCaller EXCEPT !.at = "refresh", !.copy = config,
                                                           !.retried = TRUE]]
    /\ UNCHANGED <<production, config, rows, grants, oauth, notice>>

(* _mercadopago_api_request: a token Mercado Pago refuses (401) is refreshed once,  *)
(* when the row came from OAuth; a batch goes on with the same copy.                 *)
CallRefused(w) ==
    /\ caller[w].at = "call"
    /\ ~ grants[caller[w].copy.access].access
    /\ IF /\ ~ caller[w].retried
          /\ caller[w].copy.mode = "oauth"
          /\ caller[w].copy.refresh # NoGrant
       THEN caller' = [caller EXCEPT ![w].at = "refresh"]
       ELSE EndCall(w)
    /\ UNCHANGED <<production, config, rows, grants, oauth, notice>>
CallAnswered(w) ==
    /\ caller[w].at = "call"
    /\ grants[caller[w].copy.access].access
    /\ \/ EndCall(w)
       \/ caller' = [caller EXCEPT ![w].retried = FALSE]
    /\ UNCHANGED <<production, config, rows, grants, oauth, notice>>

(* _request_deadline_seconds, _perform_mercadopago_request: out of budget, a         *)
(* timeout, a 5xx, an answer that cannot be read.                                      *)
CallFails(w) ==
    /\ caller[w].at \in {"call", "refresh"}
    /\ EndCall(w)
    /\ UNCHANGED <<production, config, rows, grants, oauth, notice>>

-----------------------------------------------------------------------------
(* _mercadopago_oauth_token_request with the refresh token of the copy. *)
Rotated(t, into) == WithGrant([grants EXCEPT ![t].refresh = into], grants[t].account)
RefreshAccepted(w) ==
    /\ caller[w].at = "refresh"
    /\ NewGrant <= MaxGrants
    /\ Accepts(caller[w].copy.refresh)
    /\ grants' = Rotated(caller[w].copy.refresh, "rotated")
    /\ caller' = [caller EXCEPT ![w].at = "save", ![w].got = NewGrant]
    /\ UNCHANGED <<production, config, rows, oauth, notice>>
(* Mercado Pago rotates it and the answer does not arrive. *)
RefreshAnswerLost(w) ==
    /\ caller[w].at = "refresh"
    /\ NewGrant <= MaxGrants
    /\ Accepts(caller[w].copy.refresh)
    /\ grants' = Rotated(caller[w].copy.refresh, "lost")
    /\ EndCall(w)
    /\ UNCHANGED <<production, config, rows, oauth, notice>>
(* invalid_grant. Any other refusal is about the platform and leaves no mark         *)
(* (_report_platform_rejection): CallFails.                                            *)
RefreshRefused(w) ==
    /\ caller[w].at = "refresh"
    /\ ~ Accepts(caller[w].copy.refresh)
    /\ caller' = [caller EXCEPT ![w].at = "refused"]
    /\ UNCHANGED <<production, config, rows, grants, oauth, notice>>

(* apply_mercadopago_oauth_payload over the copy a session read: it writes the       *)
(* columns whose value changes in that copy, and the mark always (flag_modified).     *)
AppliedPayload(row, copy, g) ==
    [row EXCEPT !.access = g, !.refresh = g,
                !.account = IF grants[g].account # copy.account THEN grants[g].account ELSE @,
                !.mode = IF copy.mode # "oauth" THEN "oauth" ELSE @,
                !.broken = FALSE]

(* persist_gateway_refresh: a transaction of its own, at once. The row may be gone.  *)
(* Plausible bug: the copy has the new tokens and the row waits for the second phase.   *)
PersistLater(w) ==
    /\ caller[w].at = "save"
    /\ caller' = [caller EXCEPT ![w].at = "call", ![w].retried = TRUE, ![w].got = NoGrant,
                     ![w].copy = AppliedPayload(@, @, caller[w].got)]
    /\ UNCHANGED <<production, config, rows, grants, oauth, notice>>
PersistRefresh(w) ==
    /\ caller[w].at = "save"
    /\ config.id = caller[w].copy.id
    /\ config' = AppliedPayload(config, caller[w].copy, caller[w].got)
    /\ IF caller[w].retried
       THEN EndCall(w)
       ELSE caller' = [caller EXCEPT ![w].at = "call", ![w].retried = TRUE, ![w].got = NoGrant,
                         ![w].copy = AppliedPayload(@, @, caller[w].got)]
    /\ UNCHANGED <<production, rows, grants, oauth, notice>>
(* StaleDataError, a failed write, or the worker dies before it. *)
PersistFails(w) ==
    /\ caller[w].at = "save"
    /\ grants' = [grants EXCEPT ![caller[w].copy.refresh].refresh = "lost"]
    /\ EndCall(w)
    /\ UNCHANGED <<production, config, rows, oauth, notice>>

(* _claim_broken_mark: only a row without a mark that still has the refresh token     *)
(* that was sent.                                                                       *)
ClaimBrokenMark(w) ==
    /\ config.id = caller[w].copy.id /\ ~ config.broken
    /\ config.refresh = caller[w].copy.refresh

(* _mark_connection_broken: the mark and its message in one transaction. *)
MarkConnectionBroken(w) ==
    /\ caller[w].at = "refused"
    /\ IF ~ caller[w].copy.broken /\ ClaimBrokenMark(w)
       THEN /\ config' = [config EXCEPT !.broken = TRUE]
            /\ notice' = "pending"
       ELSE UNCHANGED <<config, notice>>
    /\ EndCall(w)
    /\ UNCHANGED <<production, rows, grants, oauth>>
MarkNotSaved(w) ==
    /\ caller[w].at = "refused"
    /\ EndCall(w)
    /\ UNCHANGED <<production, config, rows, grants, oauth, notice>>

(* _connection_still_broken: the outbox tells the owner only of a mark that stands. *)
PlanBrokenNotice ==
    /\ notice = "pending"
    /\ notice' = IF config.id # 0 /\ config.broken THEN "told" ELSE "none"
    /\ UNCHANGED <<production, config, rows, grants, caller, oauth>>

-----------------------------------------------------------------------------
(* start_mercadopago_oauth keeps a state for a while; the callback takes it          *)
(* (GETDEL) and exchanges its code without a transaction.                             *)
StartOAuth ==
    /\ oauth.at = "none"
    /\ oauth' = [oauth EXCEPT !.at = "started"]
    /\ UNCHANGED <<production, config, rows, grants, caller, notice>>
OAuthStateLapses ==
    /\ oauth.at = "started"
    /\ oauth' = [oauth EXCEPT !.at = "none"]
    /\ UNCHANGED <<production, config, rows, grants, caller, notice>>
ExchangeCode(account) ==
    /\ oauth.at = "started"
    /\ NewGrant <= MaxGrants
    /\ grants' = WithGrant(grants, account)
    /\ oauth' = [at |-> "exchanged", got |-> NewGrant]
    /\ UNCHANGED <<production, config, rows, caller, notice>>
(* In production an answer without the account is not kept (oauth_payload_lacks_account). *)
CallbackRejects ==
    /\ oauth.at = "exchanged"
    /\ production
    /\ oauth' = [at |-> "none", got |-> NoGrant]
    /\ UNCHANGED <<production, config, rows, grants, caller, notice>>
OAuthCallback ==
    /\ oauth.at = "exchanged"
    /\ config.id # 0 \/ rows < MaxRows
    /\ LET row == IF config.id # 0 THEN config ELSE [NoConfig EXCEPT !.id = rows + 1, !.mode = "oauth"]
       IN  config' = AppliedPayload(row, row, oauth.got)
    /\ rows' = IF config.id # 0 THEN rows ELSE rows + 1
    /\ oauth' = [at |-> "none", got |-> NoGrant]
    /\ UNCHANGED <<production, grants, caller, notice>>

(* upsert_gateway_config with an access token, never in production. *)
UpsertGatewayConfig(account) ==
    /\ ~ production
    /\ config.id # 0 \/ rows < MaxRows
    /\ NewGrant <= MaxGrants
    /\ grants' = WithGrant(grants, account)
    /\ config' = [NoConfig EXCEPT !.id = IF config.id # 0 THEN config.id ELSE rows + 1,
                                  !.access = NewGrant]
    /\ rows' = IF config.id # 0 THEN rows ELSE rows + 1
    /\ UNCHANGED <<production, caller, oauth, notice>>

(* disconnect_mercadopago_oauth deletes the row. *)
DisconnectOAuth ==
    /\ config.id # 0
    /\ config' = NoConfig
    /\ UNCHANGED <<production, rows, grants, caller, oauth, notice>>

-----------------------------------------------------------------------------
GatewayNext ==
    \/ \E g \in 1..MaxGrants : AccessExpires(g) \/ GrantRevoked(g)
    \/ \E w \in GatewayWorkers :
          \/ PreparePreference(w) \/ LoadGatewayConfigs(w) \/ RefreshFromPanel(w)
          \/ CallRefused(w) \/ CallAnswered(w) \/ CallFails(w)
          \/ RefreshAccepted(w) \/ RefreshAnswerLost(w) \/ RefreshRefused(w)
          \/ PersistRefresh(w) \/ PersistFails(w)
          \/ MarkConnectionBroken(w) \/ MarkNotSaved(w)
    \/ PlanBrokenNotice \/ StartOAuth \/ OAuthStateLapses
    \/ \E a \in MpAccounts : ExchangeCode(a) \/ UpsertGatewayConfig(a)
    \/ CallbackRejects \/ OAuthCallback \/ DisconnectOAuth

GatewaySpec == GatewayInit /\ [][GatewayNext]_gatewayVars

-----------------------------------------------------------------------------
(* A connection marked as broken is broken: its refresh token is one Mercado Pago     *)
(* refuses, and its owner is told or about to be. Neither the loser of a race of         *)
(* refreshes nor a late refusal closes the payments of a store whose tokens work           *)
(* (_claim_broken_mark, apply_mercadopago_oauth_payload).                                   *)
MarkIsTrue ==
    config.id # 0 /\ config.broken => ~ Accepts(config.refresh) /\ notice \in {"pending", "told"}

(* The row never keeps a refresh token that was rotated, unless whoever rotated it is     *)
(* about to save the new one or that answer was lost (persist_gateway_refresh, "se          *)
(* persiste YA").                                                                             *)
RotatedIsKept ==
    (config.refresh # NoGrant /\ grants[config.refresh].refresh = "rotated")
        => \E w \in GatewayWorkers :
              caller[w].at = "save" /\ caller[w].copy.refresh = config.refresh

(* The credentials of a store survive the refreshes that race over them: a token that     *)
(* works is kept and never marked as broken.                                               *)
CredentialsHold == MarkIsTrue /\ RotatedIsKept

(* What _validar_cuenta_cobradora relies on: the account of the row is the one its      *)
(* token charges for.                                                                     *)
TokensOfTheAccount ==
    config.id # 0 /\ config.account # NoAccountId => grants[config.access].account = config.account
=============================================================================
