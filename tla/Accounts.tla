------------------------------ MODULE Accounts ------------------------------
(***************************************************************************)
(* Sign-in, sessions, two-factor authentication and password reset of one  *)
(* account (apps/api/src/modules/auth/auth.service.ts, profile/profile.    *)
(* service.ts, users/users.service.ts).                                    *)
(*                                                                         *)
(* Rows of different accounts do not meet, so there is one.  Passwords are *)
(* numbered in the order they are set, secrets and hashes are left out,    *)
(* and a code that is not a recovery code is accepted or not: the clock is *)
(* not modelled.                                                           *)
(***************************************************************************)
EXTENDS Requests

CONSTANTS
    Visitor,        \* request slots
    Code,           \* recovery codes of an enrolment
    Sign,           \* Microsoft sign-in challenges
    Session,        \* sessions; bounds how many are live at the same time
    MaxPassword,    \* bound: how often the password changes
    MaxEnrolment    \* bound: how often two-factor is set up

ASSUME AccountsAssumption == Code \cap Sign = {} /\ MaxPassword \in Nat /\ MaxEnrolment \in Nat

VARIABLES
    account,        \* the users row
    session,        \* live sessions, each with the password of its sign-in and whether
                    \* a reset came before its second factor; one that was revoked
                    \* validates nothing and is Absent again
    device,         \* a trusted device is live
    ticketTo,       \* one-time rows: set-up challenge, reset token
    challenge,      \* the passwords of sign-ins whose mfa challenge is open; the rows of
                    \* one password are alike
    sso,            \* Microsoft challenges
    visit,          \* requests in progress
    lastReset,      \* history: the password of the last reset
    accepted        \* history: how often each recovery code was accepted, and the
                    \* sign-ins each Microsoft challenge allowed

accountVars == <<account, session, device, ticketTo, challenge, sso, visit, lastReset,
                 accepted>>

OneTime == {"setup", "reset"}
Life == {"none", "open", "used"}
Account == [active : BOOLEAN, deleted : BOOLEAN, password : 0 .. MaxPassword,
            mfa : 0 .. MaxEnrolment, enrolments : 0 .. MaxEnrolment, codes : SUBSET Code]

AccountsTypeOK ==
    /\ account \in Account
    /\ session \in [Session -> {Absent} \cup [password : 0 .. MaxPassword, late : BOOLEAN]]
    /\ device \in BOOLEAN
    /\ ticketTo \in [OneTime -> Life]
    /\ challenge \subseteq 0 .. MaxPassword
    /\ sso \in [Sign -> Life]
    /\ lastReset \in 0 .. MaxPassword
    /\ accepted \in [Code \cup Sign -> 0 .. 2]
    /\ \A r \in Visitor : visit[r].op \in
          {"idle", "checked", "open", "consume_sign", "exchange", "code", "burn", "use_mfa",
           "trust", "reset", "confirm", "disable", "drop_devices", "new_password"}

AccountsInit ==
    /\ account = [active |-> TRUE, deleted |-> FALSE, password |-> 0, mfa |-> 0,
                  enrolments |-> 0, codes |-> {}]
    /\ session = [s \in Session |-> Absent]
    /\ device = FALSE
    /\ ticketTo = [k \in OneTime |-> "none"]
    /\ challenge = {}
    /\ sso = [c \in Sign |-> "none"]
    /\ visit = [r \in Visitor |-> Idle]
    /\ lastReset = 0
    /\ accepted = [x \in Code \cup Sign |-> 0]

Usable == account.active /\ ~account.deleted
Goes(r, q) == visit' = [visit EXCEPT ![r] = q]
Live == Present(session)

(***************************************************************************)
(* login and completeAuthenticatedLogin.                                   *)
(***************************************************************************)

\* The password is verified against the row read.
Login(r) ==
    /\ visit[r] = Idle /\ Usable
    /\ Goes(r, [op |-> "checked", mfa |-> account.mfa, password |-> account.password])
    /\ UNCHANGED <<account, session, device, ticketTo, challenge, sso, lastReset, accepted>>

\* Two-factor: on for the account, or required by the settings while it is not.
CompleteLogin(r) ==
    /\ visit[r].op = "checked"
    /\ LET user == visit[r]
           opening == [op |-> "open", password |-> user.password, trust |-> FALSE,
                      late |-> FALSE] IN
       \/ /\ user.mfa = 0
          /\ Goes(r, opening) \/ Goes(r, Idle)     \* or required and not set up
          /\ UNCHANGED challenge
       \/ /\ user.mfa > 0 /\ device               \* validateTrustedDevice
          /\ Goes(r, opening)
          /\ UNCHANGED challenge
       \/ /\ user.mfa > 0
          /\ challenge' = challenge \cup {user.password}
          /\ Goes(r, Idle)
    /\ UNCHANGED <<account, session, device, ticketTo, sso, lastReset, accepted>>

\* createSession.
OpenSession(r) ==
    /\ visit[r].op = "open"
    /\ \E s \in Session :
          /\ session[s] = Absent
          /\ session' = [session EXCEPT ![s] = [password |-> visit[r].password,
                                              late |-> visit[r].late]]
    /\ Goes(r, IF visit[r].trust THEN [op |-> "trust"] ELSE Idle)
    /\ UNCHANGED <<account, device, ticketTo, challenge, sso, lastReset, accepted>>

(***************************************************************************)
(* startMicrosoftLogin and completeMicrosoftLogin.                         *)
(***************************************************************************)

StartSignIn(c) ==
    /\ sso[c] = "none"
    /\ sso' = [sso EXCEPT ![c] = "open"]
    /\ UNCHANGED <<account, session, device, ticketTo, challenge, visit, lastReset, accepted>>

CompleteSignIn(r, c) ==
    /\ visit[r] = Idle /\ sso[c] = "open"
    /\ Goes(r, [op |-> "consume_sign", sign |-> c])
    /\ UNCHANGED <<account, session, device, ticketTo, challenge, sso, lastReset, accepted>>

\* Mutant: the count of the conditional update not looked at.
ConsumeSignAnyway(r) ==
    /\ visit[r].op = "consume_sign"
    /\ sso' = [sso EXCEPT ![visit[r].sign] = "used"]
    /\ accepted' = [accepted EXCEPT ![visit[r].sign] = @ + 1]
    /\ Goes(r, [op |-> "exchange"])
    /\ UNCHANGED <<account, session, device, ticketTo, challenge, lastReset>>

\* The update is conditional on usedAt: null, and its count decides.
ConsumeSign(r) ==
    /\ visit[r].op = "consume_sign"
    /\ LET c == visit[r].sign IN
       IF sso[c] = "open"
       THEN /\ sso' = [sso EXCEPT ![c] = "used"]
            /\ accepted' = [accepted EXCEPT ![c] = @ + 1]
            /\ Goes(r, [op |-> "exchange"])
       ELSE Goes(r, Idle) /\ UNCHANGED <<sso, accepted>>
    /\ UNCHANGED <<account, session, device, ticketTo, challenge, lastReset>>

\* The code is exchanged, the identity token validated, the account looked up; any of
\* them may refuse.
Exchange(r) ==
    /\ visit[r].op = "exchange"
    /\ \/ Goes(r, Idle)
       \/ Usable /\ Goes(r, [op |-> "checked", mfa |-> account.mfa, password |-> account.password])
    /\ UNCHANGED <<account, session, device, ticketTo, challenge, sso, lastReset, accepted>>

(***************************************************************************)
(* Presenting a code: verifyMfaLogin, resetPassword, disableMfa.           *)
(***************************************************************************)

\* consumeRecoveryCode reads the codes left and writes them back without the one used;
\* another code is the authenticator's and leaves them alone.
PresentCode(r) ==
    /\ visit[r].op = "code"
    /\ \/ Goes(r, visit[r].then)
       \/ Goes(r, Idle)
       \/ \E c \in account.codes :
             Goes(r, [op |-> "burn", code |-> c, left |-> account.codes \ {c},
                      then |-> visit[r].then])
    /\ UNCHANGED <<account, session, device, ticketTo, challenge, sso, lastReset, accepted>>

\* Mutant: the codes left not written back.
KeepCode(r) ==
    /\ visit[r].op = "burn"
    /\ accepted' = [accepted EXCEPT ![visit[r].code] = IF @ < 2 THEN @ + 1 ELSE @]
    /\ Goes(r, visit[r].then)
    /\ UNCHANGED <<account, session, device, ticketTo, challenge, sso, lastReset>>

BurnCode(r) ==
    /\ visit[r].op = "burn"
    /\ account' = [account EXCEPT !.codes = visit[r].left]
    /\ accepted' = [accepted EXCEPT ![visit[r].code] = IF @ < 2 THEN @ + 1 ELSE @]
    /\ Goes(r, visit[r].then)
    /\ UNCHANGED <<session, device, ticketTo, challenge, sso, lastReset>>

\* A challenge stands for the password of the login that opened it, whatever became of
\* the password since: resetPassword leaves the challenges alone.
VerifyMfa(r, trust) ==
    /\ visit[r] = Idle /\ Usable /\ account.mfa > 0
    /\ \E p \in challenge :
          Goes(r, [op |-> "code", then |-> [op |-> "use_mfa", trust |-> trust,
                                            password |-> p, late |-> p < lastReset]])
    /\ UNCHANGED <<account, session, device, ticketTo, challenge, sso, lastReset, accepted>>

\* The challenge is marked used; the session follows, then the trusted device.
UseChallenge(r) ==
    /\ visit[r].op = "use_mfa"
    /\ challenge' = challenge \ {visit[r].password}
    /\ Goes(r, [visit[r] EXCEPT !.op = "open"])
    /\ UNCHANGED <<account, session, device, ticketTo, sso, lastReset, accepted>>

TrustDevice(r) ==
    /\ visit[r].op = "trust"
    /\ device' = TRUE
    /\ Goes(r, Idle)
    /\ UNCHANGED <<account, session, ticketTo, challenge, sso, lastReset, accepted>>

(***************************************************************************)
(* forgotPassword and resetPassword, logout.                               *)
(***************************************************************************)

ForgotPassword ==
    /\ Usable
    /\ ticketTo' = [ticketTo EXCEPT !["reset"] = "open"]
    /\ UNCHANGED <<account, session, device, challenge, sso, visit, lastReset, accepted>>

ResetPassword(r) ==
    /\ visit[r] = Idle /\ ticketTo["reset"] = "open" /\ Usable
    /\ Goes(r, IF account.mfa > 0 THEN [op |-> "code", then |-> [op |-> "reset"]]
               ELSE [op |-> "reset"])
    /\ UNCHANGED <<account, session, device, ticketTo, challenge, sso, lastReset, accepted>>

\* Mutant: the sessions left alone.
ResetKeepsSessions(r) ==
    /\ visit[r].op = "reset" /\ account.password < MaxPassword
    /\ account' = [account EXCEPT !.password = @ + 1]
    /\ lastReset' = account.password + 1
    /\ ticketTo' = [ticketTo EXCEPT !["reset"] = "used"]
    /\ device' = FALSE
    /\ Goes(r, Idle)
    /\ UNCHANGED <<session, challenge, sso, accepted>>

\* One transaction: password, token, sessions, trusted devices.
CommitReset(r) ==
    /\ visit[r].op = "reset" /\ account.password < MaxPassword
    /\ account' = [account EXCEPT !.password = @ + 1]
    /\ lastReset' = account.password + 1
    /\ ticketTo' = [ticketTo EXCEPT !["reset"] = "used"]
    /\ session' = [s \in Session |-> Absent]
    /\ device' = FALSE
    /\ Goes(r, Idle)
    /\ UNCHANGED <<challenge, sso, accepted>>

Logout(s) ==
    /\ s \in Live
    /\ session' = [session EXCEPT ![s] = Absent]
    /\ UNCHANGED <<account, device, ticketTo, challenge, sso, visit, lastReset, accepted>>

(***************************************************************************)
(* The profile and the administration of users.                            *)
(***************************************************************************)

\* validateSessionToken: who may call what follows.
SignedIn == Usable /\ Live # {}

\* changePassword of the profile and update of users write the password alone.
ChangePassword ==
    /\ account.password < MaxPassword /\ ~account.deleted
    /\ account' = [account EXCEPT !.password = @ + 1]
    /\ UNCHANGED <<session, device, ticketTo, challenge, sso, visit, lastReset, accepted>>

StartSetup ==
    /\ SignedIn
    /\ ticketTo' = [ticketTo EXCEPT !["setup"] = "open"]
    /\ UNCHANGED <<account, session, device, challenge, sso, visit, lastReset, accepted>>

ConfirmSetup(r) ==
    /\ visit[r] = Idle /\ SignedIn /\ ticketTo["setup"] = "open"
    /\ Goes(r, [op |-> "confirm"])
    /\ UNCHANGED <<account, session, device, ticketTo, challenge, sso, lastReset, accepted>>

\* One transaction: a new secret, new recovery codes, the challenge used.
Enrol(r) ==
    /\ visit[r].op = "confirm" /\ account.enrolments < MaxEnrolment
    /\ account' = [account EXCEPT !.mfa = account.enrolments + 1, !.enrolments = @ + 1,
                                  !.codes = Code]
    /\ ticketTo' = [ticketTo EXCEPT !["setup"] = "used"]
    /\ accepted' = [x \in Code \cup Sign |-> IF x \in Code THEN 0 ELSE accepted[x]]
    /\ Goes(r, Idle)
    /\ UNCHANGED <<session, device, challenge, sso, lastReset>>

DisableMfa(r) ==
    /\ visit[r] = Idle /\ SignedIn
    /\ Goes(r, IF account.mfa > 0 THEN [op |-> "code", then |-> [op |-> "disable"]]
               ELSE [op |-> "disable"])
    /\ UNCHANGED <<account, session, device, ticketTo, challenge, sso, lastReset, accepted>>

ResetMfa(r) ==
    /\ visit[r] = Idle /\ ~account.deleted
    /\ Goes(r, [op |-> "disable"])
    /\ UNCHANGED <<account, session, device, ticketTo, challenge, sso, lastReset, accepted>>

\* Mutant: the trusted devices left alone.
ClearMfaAlone(r) ==
    /\ visit[r].op = "disable"
    /\ account' = [account EXCEPT !.mfa = 0, !.codes = {}]
    /\ Goes(r, Idle)
    /\ UNCHANGED <<session, device, ticketTo, challenge, sso, lastReset, accepted>>

\* Two writes: the secret and the codes, then the trusted devices.
ClearMfa(r) ==
    /\ visit[r].op = "disable"
    /\ account' = [account EXCEPT !.mfa = 0, !.codes = {}]
    /\ Goes(r, [op |-> "drop_devices"])
    /\ UNCHANGED <<session, device, ticketTo, challenge, sso, lastReset, accepted>>

DropDevices(r) ==
    /\ visit[r].op = "drop_devices"
    /\ device' = FALSE
    /\ Goes(r, Idle)
    /\ UNCHANGED <<account, session, ticketTo, challenge, sso, lastReset, accepted>>

\* update with isActive, and softDelete; sessions stay and no longer validate.
SetActive(active) ==
    /\ ~account.deleted
    /\ account' = [account EXCEPT !.active = active]
    /\ UNCHANGED <<session, device, ticketTo, challenge, sso, visit, lastReset, accepted>>

SoftDelete ==
    /\ ~account.deleted
    /\ account' = [account EXCEPT !.active = FALSE, !.deleted = TRUE]
    /\ UNCHANGED <<session, device, ticketTo, challenge, sso, visit, lastReset, accepted>>

VisitorLost(r) ==
    /\ visit[r] # Idle
    /\ Goes(r, Idle)
    /\ UNCHANGED <<account, session, device, ticketTo, challenge, sso, lastReset, accepted>>

AccountsBegin ==
    \/ \E r \in Visitor :
          \/ Login(r) \/ ResetPassword(r) \/ ConfirmSetup(r) \/ DisableMfa(r) \/ ResetMfa(r)
          \/ \E trust \in BOOLEAN : VerifyMfa(r, trust)
          \/ \E c \in Sign : CompleteSignIn(r, c)
    \/ \E c \in Sign : StartSignIn(c)
    \/ \E s \in Session : Logout(s)
    \/ \E active \in BOOLEAN : SetActive(active)
    \/ ForgotPassword \/ ChangePassword \/ StartSetup \/ SoftDelete

AccountsResume ==
    \E r \in Visitor :
       \/ CompleteLogin(r) \/ OpenSession(r) \/ ConsumeSign(r) \/ Exchange(r)
       \/ PresentCode(r) \/ BurnCode(r) \/ UseChallenge(r) \/ TrustDevice(r)
       \/ CommitReset(r) \/ Enrol(r) \/ ClearMfa(r) \/ DropDevices(r)

AccountsNext == AccountsBegin \/ AccountsResume \/ \E r \in Visitor : VisitorLost(r)

AccountsSpec == AccountsInit /\ [][AccountsNext]_accountVars

(***************************************************************************)
(* Properties.                                                             *)
(***************************************************************************)

\* Requests overlapping: the Microsoft challenges are one-time tokens in the sense of
\* SpendOnce, two callbacks with the same state included.
SignIns == INSTANCE SpendOnce WITH
    Token <- Sign,
    issued <- {c \in Sign : sso[c] # "none"},
    spent <- {c \in Sign : accepted[c] > 0}
SignInsOnce == SignIns!SpendSpec /\ [](\A c \in Sign : accepted[c] <= 1)

\* One request after the other: a recovery code lets its owner in once.
CodesOnce == \A c \in Code : accepted[c] <= 1

\* One request after the other: no session of a sign-in with an older password outlives
\* a reset, whatever the profile changed in between, and none is opened after it, except
\* by answering, after the reset, an mfa challenge a login opened before it.
ResetSignsOut ==
    \A s \in Live : session[s].password >= lastReset \/ session[s].late

\* One request after the other: a browser is trusted only while two-factor is on; all
\* three ways of switching it off forget the trusted browsers.
TrustEndsWithMfa == Lone(visit) /\ device => account.mfa > 0
==============================================================================
