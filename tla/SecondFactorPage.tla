------------------------- MODULE SecondFactorPage -------------------------
(***************************************************************************)
(* The second factor of a sign-in as the login page asks for it            *)
(* (frontend/src/auth/components/LoginMfaFlow.jsx and its steps).          *)
(*                                                                         *)
(* A request and its answer are two steps, and the page stays usable in    *)
(* between: a method may be chosen while another one is being checked.     *)
(* What is typed is left out; a code is complete or it is not sent.        *)
(***************************************************************************)
EXTENDS Naturals

VARIABLES
  step,        \* the step shown
  mode,        \* the method chosen on the first step
  hasSentOtp,  \* an e-mail code has been sent
  isLoading,   \* the account is still being looked up
  qrCode,      \* the QR code of the set-up
  backupCodes, \* the codes of a saved authenticator
  busy,        \* the flags that disable controls
  calls,       \* how many requests of each kind are unanswered
  timers,      \* redirects to the login form that are due
  left         \* how the page was left

vars == <<step, mode, hasSentOtp, isLoading, qrCode, backupCodes, busy, calls,
          timers, left>>

Steps == {"choose", "authenticator", "backupCode", "setup", "setupConfirm"}
Modes == {"email", "authenticator", "passkey"}

\* The flag a request sets while it is unanswered.
FlagOf == [me       |-> "loading",
           send     |-> "sendingOtp",
           otp      |-> "verifying",
           totp     |-> "verifying",
           backup   |-> "verifying",
           check    |-> "checkingAuthenticators",
           setup    |-> "checkingAuthenticators",
           save     |-> "saving",
           has      |-> "checkingPasskey",
           options  |-> "checkingPasskey",
           prompt   |-> "checkingPasskey",
           finish   |-> "checkingPasskey"]
Kinds == DOMAIN FlagOf
Flags == {FlagOf[k] : k \in Kinds}

TypeOK ==
  /\ step \in Steps
  /\ mode \in Modes
  /\ hasSentOtp \in BOOLEAN
  /\ isLoading \in BOOLEAN
  /\ qrCode \in {"none", "ready", "failed"}
  /\ backupCodes \in {"none", "shown", "copied"}
  /\ busy \subseteq Flags
  /\ calls \in [Kinds -> Nat]
  /\ timers \in BOOLEAN
  /\ left \in {"no", "document", "route", "login"}

Init ==
  /\ step = "choose"
  /\ mode = "email"
  /\ hasSentOtp = FALSE
  /\ qrCode = "none"
  /\ backupCodes = "none"
  /\ \E known \in BOOLEAN :
       /\ isLoading = ~known
       /\ busy = IF known THEN {} ELSE {"loading"}
       /\ calls = [k \in Kinds |-> IF k = "me" /\ ~known THEN 1 ELSE 0]
  /\ timers = FALSE
  /\ left = "no"

---------------------------------------------------------------------------
page == <<step, mode, hasSentOtp, isLoading, qrCode, backupCodes>>

On(s) == left = "no" /\ ~isLoading /\ step = s
Free(k) == FlagOf[k] \notin busy

Request(k) ==
  /\ busy' = busy \cup {FlagOf[k]}
  /\ calls' = [calls EXCEPT ![k] = @ + 1]

\* The document is gone once it is left for another one, and with it every
\* call; a page the router has left still hears its answers.
Heard(k) == left # "document" /\ calls[k] > 0
Done(k) ==
  /\ busy' = busy \ {FlagOf[k]}
  /\ calls' = [calls EXCEPT ![k] = @ - 1]
Then(k, next) == calls' = [calls EXCEPT ![k] = @ - 1, ![next] = @ + 1]

\* handleFlowError: without the pending cookie the login form follows.
FlowError == timers' \in {timers, TRUE}

\* finishMfa: to the authorize endpoint, or on within the application.
Finish == left' \in {"document", "route"}

---------------------------------------------------------------------------
(***************************************************************************)
(* The first step: MfaVerifyStep.                                          *)
(***************************************************************************)
UserLoaded ==
  /\ Heard("me") /\ Done("me")
  /\ isLoading' = FALSE
  /\ FlowError
  /\ UNCHANGED <<step, mode, hasSentOtp, qrCode, backupCodes, left>>

SelectEmail ==
  /\ On("choose")
  /\ mode' = "email"
  /\ UNCHANGED <<step, hasSentOtp, isLoading, qrCode, backupCodes, busy, calls,
                 timers, left>>

SendOtp ==
  /\ On("choose") /\ mode = "email" /\ ~hasSentOtp
  /\ Free("send") /\ Request("send")
  /\ UNCHANGED <<page, timers, left>>

OtpSent ==
  /\ Heard("send") /\ Done("send")
  /\ \/ hasSentOtp' = TRUE /\ UNCHANGED timers
     \/ FlowError /\ UNCHANGED hasSentOtp
  /\ UNCHANGED <<step, mode, isLoading, qrCode, backupCodes, left>>

\* The form of this step verifies an e-mail code, also when it shows the
\* input for an authenticator's.
SubmitOtp ==
  /\ On("choose") /\ (mode = "authenticator" \/ hasSentOtp)
  /\ Free("otp") /\ Request("otp")
  /\ UNCHANGED <<page, timers, left>>

SelectAuthenticator ==
  /\ On("choose") /\ Free("check")
  /\ mode' = "authenticator"
  /\ Request("check")
  /\ UNCHANGED <<step, hasSentOtp, isLoading, qrCode, backupCodes, timers, left>>

\* Without an authenticator the set-up is loaded before the check is over.
Checked ==
  /\ Heard("check")
  /\ \/ /\ Done("check")
        /\ step' = "authenticator"
        /\ UNCHANGED <<qrCode, timers>>
     \/ /\ Then("check", "setup")
        /\ step' = "setup" /\ qrCode' = "none"
        /\ UNCHANGED <<busy, timers>>
     \/ /\ Done("check") /\ FlowError
        /\ UNCHANGED <<step, qrCode>>
  /\ UNCHANGED <<mode, hasSentOtp, isLoading, backupCodes, left>>

SelectPasskey ==
  /\ On("choose") /\ Free("has")
  /\ mode' = "passkey"
  /\ Request("has")
  /\ UNCHANGED <<step, hasSentOtp, isLoading, qrCode, backupCodes, timers, left>>

\* verifyPasskey or registerPasskey: options, the browser's prompt, the
\* signed answer.
PasskeyGoesOn ==
  /\ \E k \in {"has", "options", "prompt"} :
       /\ Heard(k)
       /\ Then(k, CASE k = "has" -> "options"
                    [] k = "options" -> "prompt"
                    [] k = "prompt" -> "finish")
  /\ UNCHANGED <<page, busy, timers, left>>

PasskeyEnds ==
  /\ \/ Heard("finish") /\ Done("finish") /\ Finish
     \/ /\ \E k \in {"has", "options", "prompt", "finish"} : Heard(k) /\ Done(k)
        /\ UNCHANGED left
  /\ UNCHANGED <<page, timers>>

BackToLogin ==
  /\ On("choose")
  /\ left' = "login"
  /\ UNCHANGED <<page, busy, calls, timers>>

TimerFires ==
  /\ timers /\ left # "document"
  /\ timers' = FALSE
  /\ left' = "login"
  /\ UNCHANGED <<page, busy, calls>>

---------------------------------------------------------------------------
(***************************************************************************)
(* Codes of an authenticator, and backup codes.                            *)
(***************************************************************************)
SubmitTotp ==
  /\ On("authenticator") /\ Free("totp") /\ Request("totp")
  /\ UNCHANGED <<page, timers, left>>

\* As if the step were opened afresh, with its button enabled.
UseBackupCodeFresh ==
  /\ On("authenticator")
  /\ step' = "backupCode"
  /\ busy' = busy \ {"verifying"}
  /\ UNCHANGED <<mode, hasSentOtp, isLoading, qrCode, backupCodes, calls,
                 timers, left>>

UseBackupCode ==
  /\ On("authenticator")
  /\ step' = "backupCode"
  /\ UNCHANGED <<mode, hasSentOtp, isLoading, qrCode, backupCodes, busy, calls,
                 timers, left>>

SubmitBackupCode ==
  /\ On("backupCode") /\ Free("backup") /\ Request("backup")
  /\ UNCHANGED <<page, timers, left>>

Verified ==
  /\ \E k \in {"otp", "totp", "backup"} : Heard(k) /\ Done(k)
  /\ \/ Finish /\ UNCHANGED timers
     \/ FlowError /\ UNCHANGED left
  /\ UNCHANGED page

---------------------------------------------------------------------------
(***************************************************************************)
(* Setting up an authenticator: MfaSetupQrStep and MfaSetupConfirmStep.    *)
(***************************************************************************)
SetupLoaded ==
  /\ Heard("setup") /\ Done("setup")
  /\ \/ qrCode' = "ready" /\ UNCHANGED timers
     \/ qrCode' = "failed" /\ FlowError
  /\ UNCHANGED <<step, mode, hasSentOtp, isLoading, backupCodes, left>>

OpenSetupConfirm ==
  /\ On("setup") /\ qrCode = "ready"
  /\ step' = "setupConfirm"
  /\ UNCHANGED <<mode, hasSentOtp, isLoading, qrCode, backupCodes, busy, calls,
                 timers, left>>

BackToSetupQr ==
  /\ On("setupConfirm") /\ backupCodes = "none" /\ Free("save")
  /\ step' = "setup"
  /\ UNCHANGED <<mode, hasSentOtp, isLoading, qrCode, backupCodes, busy, calls,
                 timers, left>>

SaveAuthenticator ==
  /\ On("setupConfirm") /\ backupCodes = "none"
  /\ Free("save") /\ Request("save")
  /\ UNCHANGED <<page, timers, left>>

Saved ==
  /\ Heard("save") /\ Done("save")
  /\ \/ backupCodes' = "shown" /\ UNCHANGED timers
     \/ FlowError /\ UNCHANGED backupCodes
  /\ UNCHANGED <<step, mode, hasSentOtp, isLoading, qrCode, left>>

CopyBackupCodes ==
  /\ On("setupConfirm") /\ backupCodes = "shown"
  /\ backupCodes' = "copied"
  /\ UNCHANGED <<step, mode, hasSentOtp, isLoading, qrCode, busy, calls, timers,
                 left>>

Continue ==
  /\ On("setupConfirm") /\ backupCodes = "copied"
  /\ Finish
  /\ UNCHANGED <<page, busy, calls, timers>>

Next ==
  \/ UserLoaded \/ SelectEmail \/ SendOtp \/ OtpSent \/ SubmitOtp
  \/ SelectAuthenticator \/ Checked
  \/ SelectPasskey \/ PasskeyGoesOn \/ PasskeyEnds
  \/ BackToLogin \/ TimerFires
  \/ SubmitTotp \/ UseBackupCode \/ SubmitBackupCode \/ Verified
  \/ SetupLoaded \/ OpenSetupConfirm \/ BackToSetupQr
  \/ SaveAuthenticator \/ Saved \/ CopyBackupCodes \/ Continue

Spec == Init /\ [][Next]_vars

---------------------------------------------------------------------------
(***************************************************************************)
(* Properties.                                                             *)
(***************************************************************************)

\* However the steps are walked, no request is sent while another one under
\* the same flag is unanswered: one code at a time is tried, whichever of the
\* three forms tries it, and one passkey ceremony is under way.
OneAtATime ==
  \A j, k \in Kinds :
    calls[j] > 0 /\ FlagOf[j] = FlagOf[k] => (calls[k] = IF j = k THEN 1 ELSE 0)
===========================================================================
