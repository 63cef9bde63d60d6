--------------------------- MODULE PasswordWizard ---------------------------
(***************************************************************************)
(* The three wizards that send a code to an e-mail address before they set *)
(* a password: signing up (RegisterForm.jsx), the forgotten password       *)
(* (ForgotPasswordModal.jsx) and the change of one's own password          *)
(* (ChangePasswordModal.jsx).  The two dialogs stay mounted while they are *)
(* closed, so that an answer may find another opening than the one that    *)
(* asked.                                                                  *)
(*                                                                         *)
(* Steps: "details" (the e-mail step of the forgotten password), "code",   *)
(* "password" and "success"; the change of password starts at "password".  *)
(***************************************************************************)
EXTENDS AccountData, FiniteSets

VARIABLES
  kind,      \* which of the three wizards
  open,      \* it is on the screen
  page,      \* its step, its fields, and whether the resend timer is over
  busy,      \* isSendingOtp, isResendingCode, isVerifyingCode/Otp, and
             \* isSubmittingRegistration/isUpdatingPassword
  call,      \* the requests under way; mine: made in the present opening
  sent,      \* the addresses a code was sent to in the present opening
  verified,  \* the addresses whose code was accepted in the present opening
  slips      \* "edited": a field was typed in while the code was being sent;
             \* "crossed": an answer of an earlier opening arrived

vars == <<kind, open, page, busy, call, sent, verified, slips>>

Details == {"names", "role"}
Address == Emails \cup {None}
NoCall == [op |-> "none", email |-> None, mine |-> FALSE]

TypeOK ==
  /\ kind \in {"register", "forgot", "change"}
  /\ open \in BOOLEAN
  /\ page \in [step : {"details", "code", "password", "success"}, email : Address,
               details : SUBSET Details, code : BOOLEAN, valid : BOOLEAN,
               resend : BOOLEAN]
  /\ busy \subseteq {"sending", "resending", "verifying", "updating"}
  /\ call \in [Calls -> [op : {"none", "send", "resend", "verify", "change", "set"},
                         email : Address, mine : BOOLEAN]]
  /\ sent \subseteq Emails /\ verified \subseteq Emails
  /\ slips \subseteq {"edited", "crossed"}

---------------------------------------------------------------------------
\* The wizards as they start.
Blank(step, email) == [step |-> step, email |-> email, details |-> {},
                       code |-> FALSE, valid |-> FALSE, resend |-> FALSE]
NewRegister == Blank("details", None)
NewForgot == Blank("details", None)
NewChange == Blank("password", Own)

New == CASE kind = "register" -> NewRegister
         [] kind = "forgot" -> NewForgot
         [] kind = "change" -> NewChange

Init ==
  /\ kind \in {"register", "forgot", "change"}
  /\ open = (kind = "register")
  /\ page = New /\ busy = {}
  /\ call = [c \in Calls |-> NoCall]
  /\ sent = {} /\ verified = {} /\ slips = {}

Shows(k, step) == open /\ kind = k /\ page.step = step

Typed(p) ==
  /\ page' = p
  /\ slips' = IF "sending" \in busy THEN slips \cup {"edited"} ELSE slips
  /\ UNCHANGED <<kind, open, busy, call, sent, verified>>

\* The buttons of a step wait for its request.
Free(flag) == flag \notin busy

\* A request takes the address from the field.
Asked(op) == [op |-> op, email |-> page.email, mine |-> TRUE]

Request(c, op, flag) ==
  /\ call[c] = NoCall
  /\ call' = [call EXCEPT ![c] = Asked(op)]
  /\ busy' = busy \cup {flag}
  /\ UNCHANGED <<kind, open, sent, verified, slips>>

---------------------------------------------------------------------------
\* Opening, closing, leaving.  The forgotten password starts with the address
\* typed in the login form.
OpenForgot ==
  /\ kind = "forgot" /\ ~open
  /\ open' = TRUE
  /\ \E e \in Address : page' = [page EXCEPT !.email = e]
  /\ UNCHANGED <<kind, busy, call, sent, verified, slips>>

OpenChange ==
  /\ kind = "change" /\ ~open
  /\ open' = TRUE
  /\ UNCHANGED <<kind, page, busy, call, sent, verified, slips>>

\* What a dialog forgets when it closes.
ResetForgotKeepsStep == [NewForgot EXCEPT !.step = page.step]
ResetForgot == NewForgot
ResetChange == [NewChange EXCEPT !.resend = page.resend]

\* The cross and Cancel, at any time; calls go on.
Closed(p) ==
  /\ open
  /\ open' = FALSE /\ page' = p /\ busy' = {}
  /\ call' = [c \in Calls |-> [call[c] EXCEPT !.mine = FALSE]]
  /\ sent' = {} /\ verified' = {} /\ slips' = {}
  /\ UNCHANGED kind

CloseForgot == kind = "forgot" /\ Closed(ResetForgot)
CloseChange == kind = "change" /\ Closed(ResetChange)

\* The page that holds the wizard is left and visited again: nothing remains.
Leave ==
  /\ open' = (kind = "register")
  /\ page' = New /\ busy' = {}
  /\ call' = [c \in Calls |-> NoCall]
  /\ sent' = {} /\ verified' = {} /\ slips' = {}
  /\ UNCHANGED kind

---------------------------------------------------------------------------
\* The first step.  Its text fields stay editable while the code is being sent.
TypeName ==
  /\ Shows("register", "details")
  /\ \E named \in {{}, {"names"}} :
       Typed([page EXCEPT !.details = (@ \ {"names"}) \cup named])

ChooseRole ==
  /\ Shows("register", "details") /\ Free("sending")
  /\ \E chosen \in {{}, {"role"}} :
       Typed([page EXCEPT !.details = (@ \ {"role"}) \cup chosen])

TypeAddress ==
  /\ Shows("register", "details")
  /\ \E e \in Address : Typed([page EXCEPT !.email = e])

TypeRecovery ==
  /\ Shows("forgot", "details")
  /\ \E e \in Address : Typed([page EXCEPT !.email = e])

ValidDetails == page.details = Details /\ page.email # None

SendRegister(c) ==
  /\ Shows("register", "details") /\ Free("sending")
  /\ ValidDetails
  /\ Request(c, "send", "sending")
  /\ UNCHANGED page

SendRecovery(c) ==
  /\ Shows("forgot", "details") /\ Free("sending")
  /\ page.email # None
  /\ Request(c, "send", "sending")
  /\ UNCHANGED page

SendChange(c) ==
  /\ Shows("change", "password") /\ Free("sending")
  /\ page.valid
  /\ Request(c, "send", "sending")
  /\ UNCHANGED page

---------------------------------------------------------------------------
\* The step with the code.
TypeCodeRegister ==
  /\ Shows("register", "code")
  /\ \E full \in BOOLEAN : Typed([page EXCEPT !.code = full])
TypeCodeForgot ==
  /\ Shows("forgot", "code")
  /\ \E full \in BOOLEAN : Typed([page EXCEPT !.code = full])
TypeCodeChange ==
  /\ Shows("change", "code")
  /\ \E full \in BOOLEAN : Typed([page EXCEPT !.code = full])

\* Each dialog has its own timer, which runs while the step is shown or would be.
TimerEnds ==
  /\ page.step = "code" /\ ~page.resend
  /\ page' = [page EXCEPT !.resend = TRUE]
  /\ UNCHANGED <<kind, open, busy, call, sent, verified, slips>>

ResendRegister(c) ==
  /\ Shows("register", "code") /\ page.resend /\ Free("resending")
  /\ page.email # None
  /\ Request(c, "resend", "resending")
  /\ UNCHANGED page

\* The dialogs may resend again before the first resend is answered.
ResendForgot(c) ==
  /\ Shows("forgot", "code") /\ page.resend /\ page.email # None
  /\ Request(c, "resend", "sending")
  /\ page' = [page EXCEPT !.code = FALSE]

ResendWithoutAddress ==
  /\ Shows("forgot", "code") /\ page.resend /\ page.email = None
  /\ page' = [page EXCEPT !.step = "details"]
  /\ UNCHANGED <<kind, open, busy, call, sent, verified, slips>>

ResendChange(c) ==
  /\ Shows("change", "code") /\ page.resend
  /\ Request(c, "resend", "sending")
  /\ page' = [page EXCEPT !.code = FALSE]

Verifies(c) ==
  /\ page.code /\ page.email # None
  /\ Free("verifying")
  /\ Request(c, "verify", "verifying")
  /\ UNCHANGED page
VerifyRegister(c) == Shows("register", "code") /\ Verifies(c)
VerifyForgot(c) == Shows("forgot", "code") /\ Verifies(c)
VerifyChange(c) == Shows("change", "code") /\ Verifies(c)

---------------------------------------------------------------------------
\* The step with the new password.
TypePasswordRegister ==
  /\ Shows("register", "password")
  /\ \E v \in BOOLEAN : Typed([page EXCEPT !.valid = v])
TypePasswordForgot ==
  /\ Shows("forgot", "password")
  /\ \E v \in BOOLEAN : Typed([page EXCEPT !.valid = v])
TypePasswordChange ==
  /\ Shows("change", "password")
  /\ \E v \in BOOLEAN : Typed([page EXCEPT !.valid = v])

MaySetAgain == TRUE
MaySet == Free("updating")

\* The account is not asked for without a name or an address.
SetRegister(c) ==
  /\ Shows("register", "password") /\ MaySet
  /\ page.valid /\ ValidDetails
  /\ Request(c, "set", "updating")
  /\ UNCHANGED page

SetForgot(c) ==
  /\ Shows("forgot", "password") /\ MaySet
  /\ page.valid /\ page.email # None
  /\ Request(c, "set", "updating")
  /\ UNCHANGED page

---------------------------------------------------------------------------
\* Answers.  They act on the wizard as it is by now, whoever asked.
Heard(c) == slips' = IF call[c].mine THEN slips ELSE slips \cup {"crossed"}
Mine(c) == IF call[c].mine THEN {call[c].email} ELSE {}
Ends(c, flag) == call' = [call EXCEPT ![c] = NoCall] /\ busy' = busy \ {flag}
FlagOf(op) == CASE op = "send" -> "sending"
                [] op = "resend" -> IF kind = "register" THEN "resending" ELSE "sending"
                [] op \in {"verify", "change"} -> "verifying"
                [] op = "set" -> "updating"

Sent(c) ==
  /\ call[c].op = "send"
  /\ page' = [page EXCEPT !.step = "code", !.code = FALSE, !.resend = FALSE]
  /\ sent' = sent \cup Mine(c)
  /\ Ends(c, FlagOf("send")) /\ Heard(c)
  /\ UNCHANGED <<kind, open, verified>>

Resent(c) ==
  /\ call[c].op = "resend"
  /\ page' = [page EXCEPT !.code = @ /\ kind # "register", !.resend = FALSE]
  /\ sent' = sent \cup Mine(c)
  /\ Ends(c, FlagOf("resend")) /\ Heard(c)
  /\ UNCHANGED <<kind, open, verified>>

VerifiedRegister(c) ==
  /\ call[c].op = "verify" /\ kind = "register"
  /\ page' = [page EXCEPT !.step = "password", !.valid = FALSE]
  /\ verified' = verified \cup Mine(c)
  /\ Ends(c, "verifying") /\ Heard(c)
  /\ UNCHANGED <<kind, open, sent>>

VerifiedForgot(c) ==
  /\ call[c].op = "verify" /\ kind = "forgot"
  /\ page' = [page EXCEPT !.step = "password"]
  /\ verified' = verified \cup Mine(c)
  /\ Ends(c, "verifying") /\ Heard(c)
  /\ UNCHANGED <<kind, open, sent>>

\* The handler that verified goes on to change the password.
VerifiedChange(c) ==
  /\ call[c].op = "verify" /\ kind = "change"
  /\ call' = [call EXCEPT ![c].op = "change"]
  /\ verified' = verified \cup Mine(c)
  /\ UNCHANGED <<kind, open, page, busy, sent, slips>>

SetDone(c) ==
  /\ call[c].op \in {"set", "change"}
  /\ page' = [page EXCEPT !.step = "success"]
  /\ Ends(c, FlagOf(call[c].op)) /\ Heard(c)
  /\ UNCHANGED <<kind, open, sent, verified>>

\* An error leaves the step; a failed change goes back to the password.
AfterErrorShowsCode(op) ==
  IF op = "send" THEN [page EXCEPT !.step = "code"] ELSE page
AfterError(op) ==
  IF op = "change" THEN [page EXCEPT !.step = "password", !.code = FALSE] ELSE page

Failed(c) ==
  /\ call[c] # NoCall
  /\ page' = AfterError(call[c].op)
  /\ Ends(c, FlagOf(call[c].op)) /\ Heard(c)
  /\ UNCHANGED <<kind, open, sent, verified>>

---------------------------------------------------------------------------
Next ==
  \/ OpenForgot \/ OpenChange \/ CloseForgot \/ CloseChange \/ Leave
  \/ TypeName \/ ChooseRole \/ TypeAddress \/ TypeRecovery
  \/ TypeCodeRegister \/ TypeCodeForgot \/ TypeCodeChange
  \/ TypePasswordRegister \/ TypePasswordForgot \/ TypePasswordChange
  \/ TimerEnds \/ ResendWithoutAddress
  \/ \E c \in Calls :
       \/ SendRegister(c) \/ SendRecovery(c) \/ SendChange(c)
       \/ ResendRegister(c) \/ ResendForgot(c) \/ ResendChange(c)
       \/ VerifyRegister(c) \/ VerifyForgot(c) \/ VerifyChange(c)
       \/ SetRegister(c) \/ SetForgot(c)
       \/ Sent(c) \/ Resent(c) \/ SetDone(c) \/ Failed(c)
       \/ VerifiedRegister(c) \/ VerifiedForgot(c) \/ VerifiedChange(c)

Spec == Init /\ [][Next]_vars

---------------------------------------------------------------------------
(***************************************************************************)
(* Properties.  They hold until an answer of an earlier opening arrives.   *)
(***************************************************************************)

\* The wizard asks for a new password only for an address whose code was
\* accepted in the same opening, whatever was typed, closed, reopened or sent
\* again on the way (the address is a field, and each request reads it anew).
ChangesTheVerified ==
  "crossed" \notin slips =>
    \A c \in Calls :
      call[c].op \in {"set", "change"} /\ call[c].mine => call[c].email \in verified

\* One opening asks for one new password at a time, retries included.
OneChange ==
  "crossed" \notin slips =>
    \A c, d \in Calls :
      /\ call[c].mine /\ call[c].op \in {"set", "change"}
      /\ call[d].mine /\ call[d].op \in {"set", "change"}
      => c = d

\* The step with the code is reached with a code sent to the address it shows,
\* and signing up has by then all that its last step needs: there is no way
\* back to the first.  (The address must not be edited while a code is sent.)
CodeStepHasCode ==
  open /\ slips = {} /\ page.step = "code" =>
    /\ page.email \in sent
    /\ kind = "register" => ValidDetails
=============================================================================
