-------------------------------- MODULE Otp --------------------------------
(* One-time codes of the portal (modules/otp): one store and one phone.     *)
(* A code proves that its holder reads the mailbox it was mailed to, so a    *)
(* mailbox stands for the person who reads it.                              *)
(*                                                                          *)
(* A request for a code mails it first and stores it afterwards, in two     *)
(* steps other requests run between; a verification reads the live codes,    *)
(* waits for their row locks, and writes under them.                        *)
EXTENDS Naturals, FiniteSets

CONSTANTS Mailboxes, OtpCodes, OtpRequests,
          NoMailbox, NoCode,
          OtpMaxAttempts,       \* OTP_MAX_ATTEMPTS
          OtpMaxRequests,       \* OTP_MAX_REQUESTS_PER_HOUR
          OtpMaxVerifications   \* OTP_MAX_VERIFY_ATTEMPTS_PER_HOUR

ASSUME OtpAssumption ==
    /\ NoMailbox \notin Mailboxes /\ NoCode \notin OtpCodes
    /\ OtpMaxAttempts \in Nat /\ OtpMaxRequests \in Nat /\ OtpMaxVerifications \in Nat

VARIABLES contact,    \* deliverable email of the phone's client record, if any
          code,       \* per id: state, to, attempts, age of the verification
          stored,     \* how many codes have been stored; code[c].at orders them
          otpReq,     \* per request in flight: where it is and what it has read
          asked,      \* budget "req" of the phone in this window
          verified,   \* budget "verify" of the phone in this window
          mailedTo,   \* history: mailbox the mail with the code was queued for
          compared,   \* history: guesses each code has been compared with
          replacedBy  \* history: code that invalidated a live one

otpVars == <<contact, code, stored, otpReq, asked, verified, mailedTo, compared,
             replacedBy>>

CodeStates == {"none", "live", "expired", "consumed"}
NoOtpRequest == [at |-> "idle", code |-> NoCode, to |-> NoMailbox, rows |-> {},
                 attempts |-> [c \in OtpCodes |-> 0]]

CodeRows == [state : CodeStates, to : Mailboxes \cup {NoMailbox},
             attempts : 0..OtpMaxAttempts, verified : {"no", "recent", "old"}, at : Nat]
OtpCalls == [at : {"idle", "resolved", "mailed", "looking", "locked"},
             code : OtpCodes \cup {NoCode}, to : Mailboxes \cup {NoMailbox},
             rows : SUBSET OtpCodes, attempts : [OtpCodes -> 0..OtpMaxAttempts]]

OtpTypeOK ==
    /\ contact \in Mailboxes \cup {NoMailbox}
    /\ code \in [OtpCodes -> CodeRows]
    /\ stored \in Nat
    /\ otpReq \in [OtpRequests -> OtpCalls]
    /\ asked \in 0..(OtpMaxRequests + 1)
    /\ verified \in 0..(OtpMaxVerifications + 1)
    /\ mailedTo \in [OtpCodes -> Mailboxes \cup {NoMailbox}]
    /\ compared \in [OtpCodes -> Nat]
    /\ replacedBy \in [OtpCodes -> OtpCodes \cup {NoCode}]

OtpInit ==
    /\ contact \in Mailboxes \cup {NoMailbox}
    /\ code = [c \in OtpCodes |-> [state |-> "none", to |-> NoMailbox, attempts |-> 0,
                                   verified |-> "no", at |-> 0]]
    /\ stored = 0
    /\ otpReq = [r \in OtpRequests |-> NoOtpRequest]
    /\ asked = 0
    /\ verified = 0
    /\ mailedTo = [c \in OtpCodes |-> NoMailbox]
    /\ compared = [c \in OtpCodes |-> 0]
    /\ replacedBy = [c \in OtpCodes |-> NoCode]

-----------------------------------------------------------------------------
(* _live_codes_query *)
LiveCodes == {c \in OtpCodes : code[c].state = "live"}

(* .limit(OTP_MAX_REQUESTS_PER_HOUR), newest first *)
Newest(cs) == {c \in cs : Cardinality({d \in cs : code[d].at > code[c].at}) < OtpMaxRequests}

CodesLockedByOthers(r) ==
    UNION {otpReq[q].rows : q \in {p \in OtpRequests \ {r} : otpReq[p].at = "locked"}}

(* _resolve_destination: where the code goes; whoever asks does not choose it *)
(* once the phone belongs to a client with a deliverable email.               *)
ResolveDestination(typed) == IF contact = NoMailbox THEN typed ELSE contact

EndOtp(r) == otpReq' = [otpReq EXCEPT ![r] = NoOtpRequest]

(* _consume_budget: INCR and renew the hour; past the limit the request is   *)
(* refused. The counter is kept at limit + 1, where every value means "over". *)
Spent(n, limit) == IF n <= limit THEN n + 1 ELSE n

-----------------------------------------------------------------------------
(* request_code up to the mail: budget, destination, a fresh code. *)
RequestCode(r, typed, c) ==
    /\ otpReq[r].at = "idle"
    /\ code[c].state = "none"
    /\ mailedTo[c] = NoMailbox
    /\ \A q \in OtpRequests : otpReq[q].code # c
    /\ asked' = Spent(asked, OtpMaxRequests)
    /\ asked <= OtpMaxRequests
    /\ IF asked' <= OtpMaxRequests
       THEN otpReq' = [otpReq EXCEPT ![r] =
                 [NoOtpRequest EXCEPT !.at = "resolved", !.code = c,
                                      !.to = ResolveDestination(typed)]]
       ELSE UNCHANGED otpReq
    /\ UNCHANGED <<contact, code, stored, verified, mailedTo, compared, replacedBy>>

(* _hand_off_code_mail: the mailbox is over its quota, or the broker does not *)
(* take the mail: nothing is stored and the answer is the same.               *)
CodeNotMailed(r) ==
    /\ otpReq[r].at = "resolved"
    /\ EndOtp(r)
    /\ UNCHANGED <<contact, code, stored, asked, verified, mailedTo, compared, replacedBy>>

CodeMailed(r) ==
    /\ otpReq[r].at = "resolved"
    /\ mailedTo' = [mailedTo EXCEPT ![otpReq[r].code] = otpReq[r].to]
    /\ otpReq' = [otpReq EXCEPT ![r].at = "mailed"]
    /\ UNCHANGED <<contact, code, stored, asked, verified, compared, replacedBy>>

(* _store_code: under the locks of the live codes of the SAME mailbox,        *)
(* invalidate them and insert the new one.                                     *)
Replaced(r) == {c \in LiveCodes : code[c].to = otpReq[r].to}

StoreCode(r) ==
    LET new == otpReq[r].code
        old == Replaced(r)
    IN
    /\ otpReq[r].at = "mailed"
    /\ old \cap CodesLockedByOthers(r) = {}
    /\ code' = [c \in OtpCodes |->
          IF c = new
          THEN [state |-> "live", to |-> otpReq[r].to, attempts |-> 0,
                verified |-> "no", at |-> stored + 1]
          ELSE IF c \in old THEN [code[c] EXCEPT !.state = "consumed"]
          ELSE code[c]]
    /\ stored' = stored + 1
    /\ replacedBy' = [c \in OtpCodes |-> IF c \in old THEN new ELSE replacedBy[c]]
    /\ EndOtp(r)
    /\ UNCHANGED <<contact, asked, verified, mailedTo, compared>>

(* The process dies, or the database refuses. *)
OtpRequestDies(r) ==
    /\ otpReq[r].at # "idle"
    /\ EndOtp(r)
    /\ UNCHANGED <<contact, code, stored, asked, verified, mailedTo, compared, replacedBy>>

-----------------------------------------------------------------------------
(* verify_code: the budget, and the statement that reads the live codes. *)
VerifyStarts(r) ==
    /\ otpReq[r].at = "idle"
    /\ verified <= OtpMaxVerifications
    /\ verified' = Spent(verified, OtpMaxVerifications)
    /\ IF verified' <= OtpMaxVerifications /\ LiveCodes # {}
       THEN otpReq' = [otpReq EXCEPT ![r].at = "looking", ![r].rows = Newest(LiveCodes)]
       ELSE UNCHANGED otpReq
    /\ UNCHANGED <<contact, code, stored, asked, mailedTo, compared, replacedBy>>

(* Plausible bug: the rows are read without FOR UPDATE, and nothing waits. *)
ReadLiveCodes(r) ==
    /\ otpReq[r].at = "looking"
    /\ otpReq' = [otpReq EXCEPT ![r].at = "locked",
                     ![r].attempts = [c \in OtpCodes |-> code[c].attempts],
                     ![r].rows = {c \in otpReq[r].rows : code[c].attempts < OtpMaxAttempts}]
    /\ UNCHANGED <<contact, code, stored, asked, verified, mailedTo, compared, replacedBy>>

(* _lock_live_codes: FOR UPDATE waits for the locks of the others and then   *)
(* keeps the rows that nobody consumed meanwhile (the instant it compares the  *)
(* expiry with is the one it started with). Codes out of attempts are not      *)
(* compared; their locks are held all the same, which only delays.             *)
LockLiveCodes(r) ==
    LET usable == {c \in otpReq[r].rows : /\ code[c].state # "consumed"
                                         /\ code[c].attempts < OtpMaxAttempts}
    IN
    /\ otpReq[r].at = "looking"
    /\ otpReq[r].rows \cap CodesLockedByOthers(r) = {}
    /\ IF usable = {}
       THEN EndOtp(r)
       ELSE otpReq' = [otpReq EXCEPT ![r].at = "locked", ![r].rows = usable,
                          ![r].attempts = [c \in OtpCodes |-> code[c].attempts]]
    /\ UNCHANGED <<contact, code, stored, asked, verified, mailedTo, compared, replacedBy>>

(* The guess is compared with every usable code and counts against all of     *)
(* them; the newest match is consumed and verified, and its token issued.      *)
VerifyCode(r, matches) ==
    LET rows == otpReq[r].rows
        hit == {c \in matches : \A d \in matches : code[d].at <= code[c].at}
    IN
    /\ otpReq[r].at = "locked"
    /\ matches \subseteq rows
    /\ code' = [c \in OtpCodes |->
          IF c \notin rows THEN code[c]
          ELSE [code[c] EXCEPT
                  !.attempts = otpReq[r].attempts[c] + 1,
                  !.state = IF c \in hit THEN "consumed" ELSE @,
                  !.verified = IF c \in hit THEN "recent" ELSE @]]
    /\ compared' = [c \in OtpCodes |-> compared[c] + (IF c \in rows THEN 1 ELSE 0)]
    /\ EndOtp(r)
    /\ UNCHANGED <<contact, stored, asked, verified, mailedTo, replacedBy>>

-----------------------------------------------------------------------------
(* OTP_CODE_EXPIRE_MINUTES pass; the verification leaves its 30 minutes. *)
CodeExpires(c) ==
    /\ code[c].state = "live"
    /\ code' = [code EXCEPT ![c].state = "expired"]
    /\ UNCHANGED <<contact, stored, otpReq, asked, verified, mailedTo, compared, replacedBy>>

VerificationAges(c) ==
    /\ code[c].verified = "recent"
    /\ code' = [code EXCEPT ![c].verified = "old"]
    /\ UNCHANGED <<contact, stored, otpReq, asked, verified, mailedTo, compared, replacedBy>>

(* An hour without a request (each one renews the TTL), six times the life of *)
(* a code, so no code is live and no request is still under way.              *)
BudgetLapses ==
    /\ LiveCodes = {}
    /\ \A r \in OtpRequests : otpReq[r].at = "idle"
    /\ asked + verified > 0
    /\ asked' = 0
    /\ verified' = 0
    /\ UNCHANGED <<contact, code, stored, otpReq, mailedTo, compared, replacedBy>>

(* The store edits the client's email, or a first booking creates the record; *)
(* the portal never overwrites one.                                            *)
ContactChanges(m) ==
    /\ contact' = m
    /\ UNCHANGED <<code, stored, otpReq, asked, verified, mailedTo, compared, replacedBy>>

-----------------------------------------------------------------------------
(* _matches_verified_email, and ANY mailbox when it is asked about none. *)
VerifiedRecently(m) ==
    \E c \in OtpCodes : code[c].verified = "recent" /\ (m = NoMailbox \/ code[c].to = m)

(* _client_token_reason: the token is the one of verification c, which still  *)
(* counts, and c's mailbox is the one of the record if there is one.           *)
TokenAccepted(c) ==
    /\ code[c].verified = "recent"
    /\ contact # NoMailbox => code[c].to = contact

(* is_client_contact_verified and is_self_service_allowed *)
ContactVerified == contact # NoMailbox /\ VerifiedRecently(contact)
SelfServiceAllowed(c) == ContactVerified /\ TokenAccepted(c)

(* may_book: without a deliverable contact any verified mailbox will do. *)
MayBook(c) ==
    /\ IF contact # NoMailbox THEN ContactVerified ELSE VerifiedRecently(NoMailbox)
    /\ TokenAccepted(c)

-----------------------------------------------------------------------------
OtpNext ==
    \/ \E r \in OtpRequests :
          \/ \E m \in Mailboxes, c \in OtpCodes : RequestCode(r, m, c)
          \/ CodeNotMailed(r)
          \/ CodeMailed(r)
          \/ StoreCode(r)
          \/ OtpRequestDies(r)
          \/ VerifyStarts(r)
          \/ LockLiveCodes(r)
          \/ \E ms \in SUBSET OtpCodes : VerifyCode(r, ms)
    \/ \E c \in OtpCodes : CodeExpires(c) \/ VerificationAges(c)
    \/ BudgetLapses
    \/ \E m \in Mailboxes \cup {NoMailbox} : ContactChanges(m)

OtpSpec == OtpInit /\ [][OtpNext]_otpVars

-----------------------------------------------------------------------------
(* No code is compared with more than OTP_MAX_ATTEMPTS guesses, however many   *)
(* verifications run at once (_lock_live_codes, verify_code).                  *)
GuessesBounded == \A c \in OtpCodes : compared[c] <= OtpMaxAttempts

(* A live code is invalidated only by one that was mailed to the mailbox that  *)
(* received it: asking for codes with another mailbox, or while no mail can    *)
(* leave, does not lock the owner out (request_code, _store_code).             *)
ReplacedByDelivered ==
    \A c \in OtpCodes : replacedBy[c] # NoCode => mailedTo[replacedBy[c]] = mailedTo[c]

(* The verification compares with every live code: the LIMIT of the query      *)
(* never leaves one out, because the budget of requests bounds the live ones.   *)
NoLiveCodeLeftOut == Newest(LiveCodes) = LiveCodes

(* Whoever the portal lets manage the bookings of the phone holds a code that   *)
(* was mailed to the address the client's record has NOW, whatever it was when  *)
(* the code was asked for (_resolve_destination, _client_token_reason).         *)
OnlyTheClientServesHimself ==
    \A c \in OtpCodes : SelfServiceAllowed(c) => mailedTo[c] = contact

(* What a code promises, requests and verifications racing on it: few guesses, only *)
(* its own mailbox invalidates it, every live one counts, and only the mailbox of    *)
(* the record serves the client.                                                     *)
CodesHold ==
    /\ GuessesBounded
    /\ ReplacedByDelivered
    /\ NoLiveCodeLeftOut
    /\ OnlyTheClientServesHimself
=============================================================================
