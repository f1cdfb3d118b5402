--------------------------- MODULE Office_proofs ---------------------------
(***************************************************************************)
(* What holds of accounts, the directory, attachments and event services,  *)
(* for any users, codes, files and requests: the properties of MCOffice,   *)
(* each from an invariant of the part it is about.  A part of an invariant *)
(* that needs one request after the other is asked for with "alone".       *)
(***************************************************************************)
EXTENDS MCOffice, FiniteSetTheorems, TLAPS

(***************************************************************************)
(* Accounts: what a request carries from step to step.                     *)
(***************************************************************************)

Password == 0 .. MaxPassword
Onward == [op : {"use_mfa"}, trust : BOOLEAN, password : Password, late : BOOLEAN]
            \cup [op : {"reset", "disable"}]
Visiting ==
    {Idle} \cup Onward
      \cup [op : {"checked"}, mfa : 0 .. MaxEnrolment, password : Password]
      \cup [op : {"open"}, trust : BOOLEAN, password : Password, late : BOOLEAN]
      \cup [op : {"exchange", "trust", "confirm", "drop_devices"}]
      \cup [op : {"consume_sign"}, sign : Sign]
      \cup [op : {"code"}, then : Onward]
      \cup [op : {"burn"}, code : Code, left : SUBSET Code, then : Onward]

\* A sign-in challenge has let somebody in when it is used, and once.
Entered ==
    /\ AccountsTypeOK
    /\ visit \in [Visitor -> Visiting]
    /\ \A c \in Sign : accepted[c] = IF sso[c] = "used" THEN 1 ELSE 0

\* What a request in progress still relies on: the codes it has read, a password no older
\* than the last reset unless it answers a challenge that is, two-factor where it will
\* trust the browser.
Ahead(q) == IF q.op \in {"code", "burn"} THEN q.then ELSE q
Relies(q) ==
    /\ q.op = "burn" => q.code \in account.codes /\ q.left = account.codes \ {q.code}
    /\ Ahead(q).op = "checked" => Ahead(q).password >= lastReset
    /\ Ahead(q).op \in {"open", "use_mfa"} => Ahead(q).password >= lastReset \/ Ahead(q).late
    /\ Ahead(q).op = "trust" => account.mfa > 0
    /\ Ahead(q).op \in {"open", "use_mfa"} /\ Ahead(q).trust => account.mfa > 0

CodesFresh == \A c \in Code : accepted[c] <= 1 /\ (c \in account.codes => accepted[c] = 0)
Trusted == device => account.mfa > 0
OneAtATime(slots) == \A r, s \in DOMAIN slots : slots[r] # Idle /\ slots[s] # Idle => r = s

Visited ==
    /\ OneAtATime(visit)
    /\ CodesFresh
    /\ lastReset <= account.password /\ ResetSignsOut
    /\ Trusted \/ \E r \in Visitor : visit[r].op = "drop_devices"
    /\ \A r \in Visitor : Relies(visit[r])

AccountsInv == Entered /\ (alone => Visited)

(***************************************************************************)
(* Entered, action by action.                                              *)
(***************************************************************************)

Sessions == [Session -> {Absent} \cup [password : Password, late : BOOLEAN]]

LEMMA VisitRow ==
  ASSUME Entered, NEW r \in Visitor
  PROVE  visit[r] \in Visiting
  BY DEF Entered

LEMMA VisitOps ==
  ASSUME NEW q \in Visiting
  PROVE  q.op \in {"idle", "checked", "open", "consume_sign", "exchange", "code", "burn", "use_mfa",
                   "trust", "reset", "confirm", "disable", "drop_devices", "new_password"}
  BY DEF Visiting, Onward, Idle

LEMMA EnteredMoves ==
  ASSUME Entered, NEW r \in Visitor, NEW q \in Visiting, Goes(r, q),
         account' \in Account, session' \in Sessions, device' \in BOOLEAN,
         ticketTo' \in [OneTime -> Life], lastReset' \in Password, challenge' \subseteq Password,
         UNCHANGED <<sso, accepted>>
  PROVE  Entered'
<1>1. visit' \in [Visitor -> Visiting]
  BY DEF Entered, Goes
<1>2. AccountsTypeOK'
  BY <1>1, VisitOps DEF Entered, AccountsTypeOK, Sessions, Password
<1> QED
  BY <1>1, <1>2 DEF Entered

LEMMA EnteredStays ==
  ASSUME Entered, account' \in Account, session' \in Sessions, device' \in BOOLEAN,
         ticketTo' \in [OneTime -> Life], lastReset' \in Password, challenge' \subseteq Password,
         UNCHANGED <<sso, accepted, visit>>
  PROVE  Entered'
  BY DEF Entered, AccountsTypeOK, Sessions, Password

LEMMA EnteredTypes ==
  ASSUME Entered
  PROVE  /\ account \in Account /\ session \in Sessions /\ device \in BOOLEAN
         /\ ticketTo \in [OneTime -> Life] /\ lastReset \in Password /\ sso \in [Sign -> Life]
         /\ accepted \in [Code \cup Sign -> 0 .. 2]
         /\ Password \subseteq Nat /\ challenge \subseteq Password
  BY AccountsAssumption DEF Entered, AccountsTypeOK, Sessions, Password

LEMMA EnteredInit ==
  ASSUME AccountsInit PROVE Entered
<1>1. visit \in [Visitor -> Visiting]
  BY DEF AccountsInit, Visiting
<1>2. account \in Account /\ session \in Sessions /\ lastReset \in Password
  BY AccountsAssumption DEF AccountsInit, Account, Sessions, Password
<1>3. \A r \in Visitor : visit[r].op = "idle"
  BY DEF AccountsInit, Idle
<1>4. accepted \in [Code \cup Sign -> 0 .. 2] /\ ticketTo \in [OneTime -> Life] /\ sso \in [Sign -> Life]
  BY DEF AccountsInit, Life
<1>5. AccountsTypeOK
  BY <1>2, <1>3, <1>4 DEF AccountsInit, AccountsTypeOK, Sessions, Password
<1> QED
  BY <1>1, <1>5 DEF Entered, AccountsInit

\* Actions without a request in progress.
LEMMA EnteredBegins ==
  ASSUME Entered, AccountsBegin
  PROVE  Entered'
<1> USE EnteredTypes
<1>1. ASSUME NEW r \in Visitor, Login(r) PROVE Entered'
  <2>1. PICK q : q = [op |-> "checked", mfa |-> account.mfa, password |-> account.password]
    OBVIOUS
  <2>2. q \in Visiting
    BY <2>1 DEF Visiting, Account, Password
  <2> QED
    BY <1>1, <2>1, <2>2, EnteredMoves DEF Login
<1>2. ASSUME NEW r \in Visitor, NEW op \in {"reset", "disable"}, NEW q,
             q = [op |-> "code", then |-> [op |-> op]] \/ q = [op |-> op]
      PROVE  q \in Visiting
  BY <1>2 DEF Visiting, Onward
<1>3. ASSUME NEW r \in Visitor, ResetPassword(r) \/ DisableMfa(r) \/ ResetMfa(r) PROVE Entered'
  <2>1. PICK q : visit' = [visit EXCEPT ![r] = q]
              /\ \E op \in {"reset", "disable"} :
                    q = [op |-> "code", then |-> [op |-> op]] \/ q = [op |-> op]
    BY <1>3 DEF ResetPassword, DisableMfa, ResetMfa, Goes
  <2>2. q \in Visiting
    BY <1>2, <2>1
  <2> QED
    BY <1>3, <2>1, <2>2, EnteredMoves DEF ResetPassword, DisableMfa, ResetMfa, Goes
<1>4. ASSUME NEW r \in Visitor, ConfirmSetup(r) PROVE Entered'
  <2>1. [op |-> "confirm"] \in Visiting
    BY DEF Visiting
  <2> QED
    BY <1>4, <2>1, EnteredMoves DEF ConfirmSetup
<1>5. ASSUME NEW r \in Visitor, NEW trust \in BOOLEAN, VerifyMfa(r, trust) PROVE Entered'
  <2>0. PICK p \in challenge :
               Goes(r, [op |-> "code", then |-> [op |-> "use_mfa", trust |-> trust,
                                                 password |-> p, late |-> p < lastReset]])
    BY <1>5 DEF VerifyMfa
  <2>1. PICK q : q = [op |-> "code", then |-> [op |-> "use_mfa", trust |-> trust,
                                                password |-> p, late |-> p < lastReset]]
    OBVIOUS
  <2>2. q \in Visiting
    <3>1. p \in Password /\ (p < lastReset) \in BOOLEAN
      OBVIOUS
    <3> QED
      BY <2>1, <3>1 DEF Visiting, Onward
  <2> QED
    BY <1>5, <2>0, <2>1, <2>2, EnteredMoves DEF VerifyMfa
<1>6. ASSUME NEW r \in Visitor, NEW c \in Sign, CompleteSignIn(r, c) PROVE Entered'
  <2>1. [op |-> "consume_sign", sign |-> c] \in Visiting
    BY DEF Visiting
  <2> QED
    BY <1>6, <2>1, EnteredMoves DEF CompleteSignIn
<1>7. ASSUME NEW c \in Sign, StartSignIn(c) PROVE Entered'
  BY <1>7 DEF StartSignIn, Entered, AccountsTypeOK, Life
<1>8. ASSUME NEW s \in Session, Logout(s) PROVE Entered'
  <2>1. session' \in Sessions
    BY <1>8 DEF Logout, Sessions
  <2> QED
    BY <1>8, <2>1, EnteredStays DEF Logout
<1>9. ASSUME NEW active \in BOOLEAN, SetActive(active) PROVE Entered'
  <2>1. account' \in Account
    BY <1>9 DEF SetActive, Account
  <2> QED
    BY <1>9, <2>1, EnteredStays DEF SetActive
<1>10. ASSUME ForgotPassword \/ StartSetup PROVE Entered'
  <2>1. ticketTo' \in [OneTime -> Life]
    BY <1>10 DEF ForgotPassword, StartSetup, OneTime, Life
  <2> QED
    BY <1>10, <2>1, EnteredStays DEF ForgotPassword, StartSetup
<1>11. ASSUME ChangePassword PROVE Entered'
  <2>1. account' \in Account
    BY <1>11, AccountsAssumption DEF ChangePassword, Account
  <2> QED
    BY <1>11, <2>1, EnteredStays DEF ChangePassword
<1>12. ASSUME SoftDelete PROVE Entered'
  <2>1. account' \in Account
    BY <1>12 DEF SoftDelete, Account
  <2> QED
    BY <1>12, <2>1, EnteredStays DEF SoftDelete
<1> QED
  BY <1>1, <1>3, <1>4, <1>5, <1>6, <1>7, <1>8, <1>9, <1>10, <1>11, <1>12 DEF AccountsBegin

\* What the record of a request holds, by its next step.
LEMMA VisitFields ==
  ASSUME NEW q \in Visiting
  PROVE  /\ q.op = "checked" => q.password \in Password
         /\ q.op = "open" => q.trust \in BOOLEAN /\ q.password \in Password /\ q.late \in BOOLEAN
         /\ q.op = "use_mfa" => q \in [op : {"use_mfa"}, trust : BOOLEAN, password : Password,
                                        late : BOOLEAN]
         /\ q.op = "consume_sign" => q.sign \in Sign
         /\ q.op \in {"code", "burn"} => q.then \in Onward
         /\ q.op = "burn" => q.code \in Code /\ q.left \in SUBSET Code
  BY DEF Visiting, Onward, Idle

LEMMA OnwardVisits == Onward \subseteq Visiting /\ Idle \in Visiting
  BY DEF Visiting

LEMMA EnteredResumes ==
  ASSUME Entered, NEW r \in Visitor,
         \/ CompleteLogin(r) \/ OpenSession(r) \/ ConsumeSign(r) \/ Exchange(r)
         \/ PresentCode(r) \/ BurnCode(r) \/ UseChallenge(r) \/ TrustDevice(r)
         \/ CommitReset(r) \/ Enrol(r) \/ ClearMfa(r) \/ DropDevices(r) \/ VisitorLost(r)
  PROVE  Entered'
<1> USE EnteredTypes, OnwardVisits
<1> PICK v : v = visit[r]
  OBVIOUS
<1>0. v \in Visiting
  BY VisitRow
<1>1. CASE CompleteLogin(r)
  <2>1. v.op = "checked" /\ v.password \in Password
    BY <1>0, <1>1, VisitFields DEF CompleteLogin
  <2>2. PICK q : q = [op |-> "open", password |-> v.password, trust |-> FALSE, late |-> FALSE]
    OBVIOUS
  <2>3. q \in Visiting
    BY <2>1, <2>2 DEF Visiting
  <2>4. challenge' \subseteq Password
        /\ UNCHANGED <<account, session, device, ticketTo, sso, lastReset, accepted>>
    BY <1>1, <2>1 DEF CompleteLogin
  <2>5. Goes(r, q) \/ Goes(r, Idle)
    BY <1>1, <2>2 DEF CompleteLogin
  <2> QED
    BY <2>3, <2>4, <2>5, EnteredMoves
<1>2. CASE OpenSession(r)
  <2>1. v.op = "open" /\ v.password \in Password /\ v.late \in BOOLEAN
    BY <1>0, <1>2, VisitFields DEF OpenSession
  <2>2. session' \in Sessions
    BY <1>2, <2>1 DEF OpenSession, Sessions
  <2>3. [op |-> "trust"] \in Visiting
    BY DEF Visiting
  <2>4. Goes(r, [op |-> "trust"]) \/ Goes(r, Idle)
    BY <1>2 DEF OpenSession
  <2> QED
    BY <1>2, <2>2, <2>3, <2>4, EnteredMoves DEF OpenSession
<1>3. CASE ConsumeSign(r)
  <2>1. v.op = "consume_sign" /\ v.sign \in Sign
    BY <1>0, <1>3, VisitFields DEF ConsumeSign
  <2>2. CASE sso[v.sign] = "open"
    <3>1. /\ sso' = [sso EXCEPT ![v.sign] = "used"]
          /\ accepted' = [accepted EXCEPT ![v.sign] = accepted[v.sign] + 1]
          /\ Goes(r, [op |-> "exchange"])
          /\ UNCHANGED <<account, session, device, ticketTo, challenge, lastReset>>
      BY <1>3, <2>2 DEF ConsumeSign
    <3>2. accepted[v.sign] = 0
      BY <2>1, <2>2 DEF Entered
    <3>3. sso' \in [Sign -> Life] /\ accepted' \in [Code \cup Sign -> 0 .. 2]
      BY <2>1, <3>1, <3>2 DEF Life
    <3>4. visit' \in [Visitor -> Visiting]
      BY <3>1 DEF Entered, Goes, Visiting
    <3>5. \A c \in Sign : accepted'[c] = IF sso'[c] = "used" THEN 1 ELSE 0
      BY <2>1, <3>1, <3>2 DEF Entered
    <3>6. AccountsTypeOK'
      BY <3>1, <3>3, <3>4, VisitOps DEF Entered, AccountsTypeOK
    <3> QED
      BY <3>4, <3>5, <3>6 DEF Entered
  <2>3. CASE sso[v.sign] # "open"
    BY <1>3, <2>3, EnteredMoves DEF ConsumeSign
  <2> QED
    BY <2>2, <2>3
<1>4. CASE Exchange(r)
  <2>1. PICK q : q = [op |-> "checked", mfa |-> account.mfa, password |-> account.password]
    OBVIOUS
  <2>2. q \in Visiting
    BY <2>1 DEF Visiting, Account, Password
  <2> QED
    BY <1>4, <2>1, <2>2, EnteredMoves DEF Exchange
<1>5. CASE PresentCode(r)
  <2>1. v.op = "code" /\ v.then \in Onward
    BY <1>0, <1>5, VisitFields DEF PresentCode
  <2>2. ASSUME NEW c \in account.codes,
               Goes(r, [op |-> "burn", code |-> c, left |-> account.codes \ {c}, then |-> v.then])
        PROVE  Entered'
    <3>1. PICK q : q = [op |-> "burn", code |-> c, left |-> account.codes \ {c}, then |-> v.then]
      OBVIOUS
    <3>2. c \in Code /\ account.codes \ {c} \in SUBSET Code
      BY DEF Account
    <3>3. q \in Visiting
      BY <2>1, <3>1, <3>2 DEF Visiting
    <3> QED
      BY <1>5, <2>2, <3>1, <3>3, EnteredMoves DEF PresentCode
  <2> QED
    BY <1>5, <2>1, <2>2, EnteredMoves DEF PresentCode
<1>6. CASE BurnCode(r)
  <2>1. v.op = "burn" /\ v.code \in Code /\ v.left \in SUBSET Code /\ v.then \in Onward
    BY <1>0, <1>6, VisitFields DEF BurnCode
  <2>2. PICK n : n = IF accepted[v.code] < 2 THEN accepted[v.code] + 1 ELSE accepted[v.code]
    OBVIOUS
  <2>3. n \in 0 .. 2
    BY <2>1, <2>2
  <2>4. /\ account' = [account EXCEPT !.codes = v.left]
        /\ accepted' = [accepted EXCEPT ![v.code] = n]
        /\ Goes(r, v.then)
        /\ UNCHANGED <<session, device, ticketTo, challenge, sso, lastReset>>
    BY <1>6, <2>2 DEF BurnCode
  <2>5. account' \in Account /\ accepted' \in [Code \cup Sign -> 0 .. 2]
    BY <2>1, <2>3, <2>4 DEF Account
  <2>6. visit' \in [Visitor -> Visiting]
    BY <2>1, <2>4 DEF Entered, Goes
  <2>7. \A c \in Sign : accepted'[c] = accepted[c]
    BY <2>1, <2>4, AccountsAssumption
  <2>8. AccountsTypeOK'
    BY <2>4, <2>5, <2>6, VisitOps DEF Entered, AccountsTypeOK
  <2> QED
    BY <2>4, <2>6, <2>7, <2>8 DEF Entered
<1>7. CASE UseChallenge(r)
  <2>1. v.op = "use_mfa" /\ v \in [op : {"use_mfa"}, trust : BOOLEAN, password : Password, late : BOOLEAN]
    BY <1>0, <1>7, VisitFields DEF UseChallenge
  <2>2. PICK q : q = [v EXCEPT !.op = "open"]
    OBVIOUS
  <2>3. q \in [op : {"open"}, trust : BOOLEAN, password : Password, late : BOOLEAN]
    BY <2>1, <2>2
  <2>4. q \in Visiting /\ challenge' \subseteq Password
    BY <1>7, <2>3 DEF Visiting, UseChallenge
  <2> QED
    BY <1>7, <2>2, <2>4, EnteredMoves DEF UseChallenge
<1>8. CASE TrustDevice(r) \/ DropDevices(r)
  BY <1>8, EnteredMoves DEF TrustDevice, DropDevices
<1>9. CASE CommitReset(r)
  <2>1. account' \in Account /\ lastReset' \in Password
    BY <1>9, AccountsAssumption DEF CommitReset, Account, Password
  <2>2. session' \in Sessions /\ ticketTo' \in [OneTime -> Life] /\ device' \in BOOLEAN
    BY <1>9 DEF CommitReset, Sessions, OneTime, Life
  <2> QED
    BY <1>9, <2>1, <2>2, EnteredMoves DEF CommitReset
<1>10. CASE Enrol(r)
  <2>1. account.enrolments + 1 \in 0 .. MaxEnrolment
    BY <1>10, AccountsAssumption DEF Enrol, Account
  <2>2. account' \in Account
    BY <1>10, <2>1 DEF Enrol, Account
  <2>3. accepted' \in [Code \cup Sign -> 0 .. 2] /\ \A c \in Sign : accepted'[c] = accepted[c]
    BY <1>10, AccountsAssumption DEF Enrol
  <2>4. ticketTo' \in [OneTime -> Life] /\ UNCHANGED <<session, device, challenge, sso, lastReset>>
    BY <1>10 DEF Enrol, OneTime, Life
  <2>5. visit' \in [Visitor -> Visiting]
    BY <1>10 DEF Entered, Enrol, Goes
  <2>6. AccountsTypeOK'
    BY <2>2, <2>3, <2>4, <2>5, VisitOps DEF Entered, AccountsTypeOK
  <2> QED
    BY <2>3, <2>4, <2>5, <2>6 DEF Entered
<1>11. CASE ClearMfa(r)
  <2>1. account' \in Account
    <3>1. 0 \in 0 .. MaxEnrolment
      BY AccountsAssumption
    <3> QED
      BY <1>11, <3>1 DEF ClearMfa, Account
  <2>2. [op |-> "drop_devices"] \in Visiting
    BY DEF Visiting
  <2> QED
    BY <1>11, <2>1, <2>2, EnteredMoves DEF ClearMfa
<1>12. CASE VisitorLost(r)
  BY <1>12, EnteredMoves DEF VisitorLost
<1> QED
  BY <1>1, <1>2, <1>3, <1>4, <1>5, <1>6, <1>7, <1>8, <1>9, <1>10, <1>11, <1>12

LEMMA EnteredStep ==
  ASSUME Entered, [AccountsNext]_accountVars
  PROVE  Entered'
<1>1. CASE UNCHANGED accountVars
  BY <1>1 DEF accountVars, Entered, AccountsTypeOK
<1> QED
  BY <1>1, EnteredBegins, EnteredResumes DEF AccountsNext, AccountsResume

(***************************************************************************)
(* Sign-in challenges are one-time tokens: a step of SpendOnce or none.    *)
(***************************************************************************)

Issued == {c \in Sign : sso[c] # "none"}
Spent == {c \in Sign : accepted[c] > 0}

LEMMA SpentIsUsed ==
  ASSUME Entered
  PROVE  Spent = {c \in Sign : sso[c] = "used"} /\ \A c \in Sign : accepted[c] <= 1
  BY DEF Entered, Spent

LEMMA SignInStep ==
  ASSUME Entered, [AccountsNext]_accountVars
  PROVE  \/ \E c \in Sign : c \notin Issued /\ Issued' = Issued \cup {c} /\ Spent' = Spent
         \/ \E c \in Sign : c \in Issued \ Spent /\ Spent' = Spent \cup {c} /\ Issued' = Issued
         \/ Issued' = Issued /\ Spent' = Spent
<1>0. Spent' = {c \in Sign : sso'[c] = "used"} /\ Spent = {c \in Sign : sso[c] = "used"}
  BY SpentIsUsed, EnteredStep DEF Entered, Spent
<1>1. ASSUME NEW c \in Sign, StartSignIn(c)
      PROVE  c \notin Issued /\ Issued' = Issued \cup {c} /\ Spent' = Spent
  BY <1>0, <1>1, EnteredTypes DEF StartSignIn, Issued
<1>2. ASSUME NEW r \in Visitor, ConsumeSign(r)
      PROVE  \/ \E c \in Sign : c \in Issued \ Spent /\ Spent' = Spent \cup {c} /\ Issued' = Issued
             \/ Issued' = Issued /\ Spent' = Spent
  <2>1. PICK c : c = visit[r].sign
    OBVIOUS
  <2>2. c \in Sign
    BY <1>2, <2>1, VisitRow, VisitFields DEF ConsumeSign
  <2>3. CASE sso[c] = "open"
    BY <1>0, <1>2, <2>1, <2>2, <2>3, EnteredTypes DEF ConsumeSign, Issued
  <2> QED
    BY <1>0, <1>2, <2>1, <2>3 DEF ConsumeSign, Issued
<1>3. CASE UNCHANGED sso
  BY <1>0, <1>3 DEF Issued
<1>4. \/ UNCHANGED sso
      \/ \E c \in Sign : StartSignIn(c)
      \/ \E r \in Visitor : ConsumeSign(r)
  BY DEF AccountsNext, AccountsBegin, AccountsResume, accountVars, Login, ResetPassword,
         ConfirmSetup, DisableMfa, ResetMfa, VerifyMfa, CompleteSignIn, Logout, SetActive,
         ForgotPassword, ChangePassword, StartSetup, SoftDelete, CompleteLogin, OpenSession,
         Exchange, PresentCode, BurnCode, UseChallenge, TrustDevice, CommitReset, Enrol,
         ClearMfa, DropDevices, VisitorLost
<1> QED
  BY <1>1, <1>2, <1>3, <1>4

LEMMA SignInsStep ==
  ASSUME Entered, [AccountsNext]_accountVars
  PROVE  [SignIns!SpendNext]_<<{c \in Sign : sso[c] # "none"}, {c \in Sign : accepted[c] > 0}>>
  BY SignInStep DEF SignIns!SpendNext, SignIns!Issue, SignIns!Spend, Issued, Spent

\* What MCOffice runs of accounts is a behaviour of theirs.
LEMMA OfficeStepsAccounts ==
  ASSUME [OfficeNext]_officeVars
  PROVE  /\ [AccountsNext]_accountVars
         /\ alone' = alone
         /\ alone => (Lone(visit) /\ AccountsBegin) \/ AccountsResume \/ UNCHANGED accountVars
  BY DEF OfficeNext, officeVars, AccountsTurn, DirectoryTurn, AttachmentsTurn, EventsTurn,
         AccountsNext, AccountsContend, AccountsBegin

\* However requests overlap: every Microsoft sign-in challenge lets one request in at most,
\* two callbacks with the same state included.
THEOREM ChallengesSpentOnce == OfficeSpec => SignInsOnce
<1>1. OfficeInit => Entered /\ SignIns!SpendInit
  <2>1. SUFFICES ASSUME OfficeInit PROVE Entered /\ SignIns!SpendInit
    OBVIOUS
  <2>2. AccountsInit
    BY <2>1 DEF OfficeInit
  <2>3. Spent = {} /\ Issued = {}
    BY <2>2 DEF AccountsInit, Spent, Issued
  <2> QED
    BY <2>2, <2>3, EnteredInit DEF SignIns!SpendInit, Spent, Issued
<1>2. Entered /\ [OfficeNext]_officeVars => Entered'
  BY OfficeStepsAccounts, EnteredStep
<1>3. Entered /\ [OfficeNext]_officeVars
        => [SignIns!SpendNext]_<<{c \in Sign : sso[c] # "none"}, {c \in Sign : accepted[c] > 0}>>
  BY OfficeStepsAccounts, SignInsStep
<1>4. Entered => \A c \in Sign : accepted[c] <= 1
  BY SpentIsUsed
<1> QED
  BY <1>1, <1>2, <1>3, <1>4, PTL DEF OfficeSpec, SignInsOnce, SignIns!SpendSpec

(***************************************************************************)
(* Visited: while one request is in progress nobody else changes what it   *)
(* relies on.                                                              *)
(***************************************************************************)

LEMMA VisitedMoves ==
  ASSUME Entered, Visited, NEW r \in Visitor, visit[r] # Idle \/ Lone(visit), NEW q, Goes(r, q),
         CodesFresh', lastReset' <= account'.password, ResetSignsOut',
         Trusted' \/ q.op = "drop_devices", Relies(q)'
  PROVE  Visited'
<1>1. DOMAIN visit = Visitor /\ \A p \in Visitor \ {r} : visit[p] = Idle
  BY DEF Entered, Visited, OneAtATime, Lone
<1>2. DOMAIN visit' = Visitor /\ visit'[r] = q /\ \A p \in Visitor \ {r} : visit'[p] = Idle
  BY <1>1 DEF Goes
<1>3. OneAtATime(visit)'
  BY <1>2 DEF OneAtATime
<1>4. Relies(Idle)'
  BY DEF Relies, Ahead, Idle
<1>5. \A p \in Visitor : Relies(visit[p])'
  BY <1>2, <1>4
<1> QED
  BY <1>2, <1>3, <1>5 DEF Visited

LEMMA TrustedNow ==
  ASSUME Entered, Visited, NEW r \in Visitor, visit[r] # Idle \/ Lone(visit), visit[r].op # "drop_devices"
  PROVE  Trusted
<1>1. \A p \in Visitor : visit[p].op # "drop_devices"
  BY DEF Entered, Visited, OneAtATime, Lone, Idle
<1> QED
  BY <1>1 DEF Visited

LEMMA VisitedReads ==
  ASSUME Entered, Visited, NEW r \in Visitor, visit[r] # Idle \/ Lone(visit), visit[r].op # "drop_devices",
         NEW q, Goes(r, q), UNCHANGED <<account, session, device, lastReset, accepted>>, Relies(q)
  PROVE  Visited'
<1>1. Trusted'
  BY TrustedNow DEF Trusted
<1>2. CodesFresh' /\ lastReset' <= account'.password /\ ResetSignsOut' /\ Relies(q)'
  BY DEF Visited, CodesFresh, ResetSignsOut, Live, Present, Relies, Ahead
<1> QED
  BY <1>1, <1>2, VisitedMoves

\* Steps of nobody's request, while none is in progress.
LEMMA VisitedAround ==
  ASSUME Entered, Visited, Lone(visit), UNCHANGED visit, CodesFresh', lastReset' <= account'.password,
         ResetSignsOut', device' = device, account'.mfa = account.mfa
  PROVE  Visited'
<1>1. \A p \in Visitor : visit[p] = Idle
  BY DEF Entered, Lone
<1>2. Relies(Idle)'
  BY DEF Relies, Ahead, Idle
<1>3. Trusted'
  BY <1>1 DEF Visited, Trusted, Idle
<1> QED
  BY <1>1, <1>2, <1>3 DEF Visited, OneAtATime

LEMMA VisitedBegins ==
  ASSUME Entered, Visited, Lone(visit), AccountsBegin
  PROVE  Visited'
<1> USE EnteredTypes
<1>0. \A r \in Visitor : visit[r] = Idle /\ visit[r].op # "drop_devices"
  BY DEF Entered, Lone, Idle
<1>a. account.password \in Nat /\ lastReset \in Nat /\ lastReset <= account.password
  BY DEF Account, Password, Visited
<1>1. ASSUME NEW r \in Visitor, Login(r) PROVE Visited'
  <2>1. PICK q : q = [op |-> "checked", mfa |-> account.mfa, password |-> account.password]
    OBVIOUS
  <2>2. Relies(q)
    BY <1>a, <2>1 DEF Relies, Ahead
  <2> QED
    BY <1>0, <1>1, <2>1, <2>2, VisitedReads DEF Login
<1>2. ASSUME NEW op \in {"reset", "disable"}, NEW q,
             q = [op |-> "code", then |-> [op |-> op]] \/ q = [op |-> op]
      PROVE  Relies(q)
  BY <1>2 DEF Relies, Ahead
<1>3. ASSUME NEW r \in Visitor, ResetPassword(r) \/ DisableMfa(r) \/ ResetMfa(r) PROVE Visited'
  <2>1. PICK q : visit' = [visit EXCEPT ![r] = q]
              /\ \E op \in {"reset", "disable"} :
                    q = [op |-> "code", then |-> [op |-> op]] \/ q = [op |-> op]
    BY <1>3 DEF ResetPassword, DisableMfa, ResetMfa, Goes
  <2>2. Relies(q)
    BY <1>2, <2>1
  <2> QED
    BY <1>0, <1>3, <2>1, <2>2, VisitedReads DEF ResetPassword, DisableMfa, ResetMfa, Goes
<1>4. ASSUME NEW r \in Visitor, ConfirmSetup(r) PROVE Visited'
  <2>1. Relies([op |-> "confirm"])
    BY DEF Relies, Ahead
  <2> QED
    BY <1>0, <1>4, <2>1, VisitedReads DEF ConfirmSetup
<1>5. ASSUME NEW r \in Visitor, NEW trust \in BOOLEAN, VerifyMfa(r, trust) PROVE Visited'
  <2>0. PICK p \in challenge :
               Goes(r, [op |-> "code", then |-> [op |-> "use_mfa", trust |-> trust,
                                                 password |-> p, late |-> p < lastReset]])
    BY <1>5 DEF VerifyMfa
  <2>1. PICK next : next = [op |-> "use_mfa", trust |-> trust, password |-> p,
                            late |-> p < lastReset]
    OBVIOUS
  <2>2. PICK q : q = [op |-> "code", then |-> next]
    OBVIOUS
  <2>3. Ahead(q) = next /\ q.op = "code"
    BY <2>2 DEF Ahead
  <2>4. p >= lastReset \/ p < lastReset
    BY <1>a
  <2>5. /\ next.op = "use_mfa" /\ next.password = p
        /\ next.late = (p < lastReset) /\ account.mfa > 0
    BY <1>5, <2>1 DEF VerifyMfa
  <2>6. next.password >= lastReset \/ next.late
    BY <2>4, <2>5
  <2>7. Relies(q)
    BY <2>3, <2>5, <2>6 DEF Relies
  <2> QED
    BY <1>0, <1>5, <2>0, <2>1, <2>2, <2>7, VisitedReads DEF VerifyMfa
<1>6. ASSUME NEW r \in Visitor, NEW c \in Sign, CompleteSignIn(r, c) PROVE Visited'
  <2>1. Relies([op |-> "consume_sign", sign |-> c])
    BY DEF Relies, Ahead
  <2> QED
    BY <1>0, <1>6, <2>1, VisitedReads DEF CompleteSignIn
<1>7. ASSUME StartSetup \/ ForgotPassword \/ \E c \in Sign : StartSignIn(c) PROVE Visited'
  <2>1. UNCHANGED <<account, session, device, lastReset, accepted, visit>>
    BY <1>7 DEF StartSetup, ForgotPassword, StartSignIn
  <2> QED
    BY <2>1, VisitedAround DEF Visited, CodesFresh, ResetSignsOut, Live, Present
<1>8. ASSUME NEW s \in Session, Logout(s) PROVE Visited'
  <2>1. ResetSignsOut'
    BY <1>8 DEF Logout, Visited, ResetSignsOut, Live, Present, Sessions
  <2> QED
    BY <1>8, <2>1, VisitedAround DEF Logout, Visited, CodesFresh
<1>9. ASSUME SoftDelete \/ ChangePassword \/ \E active \in BOOLEAN : SetActive(active) PROVE Visited'
  <2>1. /\ account'.codes = account.codes /\ account'.mfa = account.mfa
        /\ account'.password \in {account.password, account.password + 1}
    BY <1>9 DEF SoftDelete, ChangePassword, SetActive, Account
  <2>2. UNCHANGED <<session, device, lastReset, accepted, visit>>
    BY <1>9 DEF SoftDelete, ChangePassword, SetActive
  <2>3. CodesFresh' /\ ResetSignsOut'
    BY <2>1, <2>2 DEF Visited, CodesFresh, ResetSignsOut, Live, Present
  <2>4. lastReset' <= account'.password
    BY <1>a, <2>1, <2>2
  <2> QED
    BY <2>1, <2>2, <2>3, <2>4, VisitedAround
<1> QED
  BY <1>1, <1>3, <1>4, <1>5, <1>6, <1>7, <1>8, <1>9 DEF AccountsBegin

LEMMA VisitedResumes ==
  ASSUME Entered, Visited, NEW r \in Visitor,
         \/ CompleteLogin(r) \/ OpenSession(r) \/ ConsumeSign(r) \/ Exchange(r)
         \/ PresentCode(r) \/ BurnCode(r) \/ UseChallenge(r) \/ TrustDevice(r)
         \/ CommitReset(r) \/ Enrol(r) \/ ClearMfa(r) \/ DropDevices(r)
  PROVE  Visited'
<1> USE EnteredTypes
<1> PICK v : v = visit[r]
  OBVIOUS
<1>0. v \in Visiting /\ Relies(v)
  BY VisitRow DEF Visited
<1>a. account.password \in Nat /\ lastReset \in Nat /\ lastReset <= account.password
  BY DEF Account, Password, Visited
<1>b. v # Idle
  BY DEF CompleteLogin, OpenSession, ConsumeSign, Exchange, PresentCode, BurnCode, UseChallenge,
         TrustDevice, CommitReset, Enrol, ClearMfa, DropDevices, Idle
<1>c. Relies(Idle) /\ Relies(Idle)'
  BY DEF Relies, Ahead, Idle
<1>1. CASE CompleteLogin(r)
  <2>1. v.op = "checked" /\ v.password \in Password
    BY <1>0, <1>1, VisitFields DEF CompleteLogin
  <2>2. v.password >= lastReset
    BY <1>0, <2>1 DEF Relies, Ahead
  <2>3. PICK q : q = [op |-> "open", password |-> v.password, trust |-> FALSE, late |-> FALSE]
    OBVIOUS
  <2>4. Relies(q)
    BY <2>2, <2>3 DEF Relies, Ahead
  <2>5. Goes(r, q) \/ Goes(r, Idle)
    BY <1>1, <2>3 DEF CompleteLogin
  <2>6. UNCHANGED <<account, session, device, lastReset, accepted>>
    BY <1>1 DEF CompleteLogin
  <2> QED
    BY <1>b, <1>c, <2>1, <2>4, <2>5, <2>6, VisitedReads
<1>2. CASE OpenSession(r)
  <2>1. v.op = "open" /\ v.password \in Password /\ v.late \in BOOLEAN
    BY <1>0, <1>2, VisitFields DEF OpenSession
  <2>2. (v.password >= lastReset \/ v.late) /\ (v.trust => account.mfa > 0)
    BY <1>0, <2>1 DEF Relies, Ahead
  <2>3. UNCHANGED <<account, device, lastReset, accepted>>
    BY <1>2 DEF OpenSession
  <2>4. ResetSignsOut'
    BY <1>2, <2>1, <2>2, <2>3 DEF OpenSession, Visited, ResetSignsOut, Live, Present, Sessions
  <2>5. CodesFresh' /\ lastReset' <= account'.password
    BY <2>3 DEF Visited, CodesFresh
  <2>6. Trusted'
    BY <1>b, <2>1, <2>3, TrustedNow DEF Trusted
  <2>7. CASE v.trust
    <3>1. Relies([op |-> "trust"])'
      BY <2>2, <2>3, <2>7 DEF Relies, Ahead
    <3>2. Goes(r, [op |-> "trust"])
      BY <1>2, <2>7 DEF OpenSession
    <3> QED
      BY <1>b, <2>4, <2>5, <2>6, <3>1, <3>2, VisitedMoves
  <2>8. CASE ~v.trust
    <3>1. Goes(r, Idle)
      BY <1>2, <2>8 DEF OpenSession
    <3> QED
      BY <1>b, <1>c, <2>4, <2>5, <2>6, <3>1, VisitedMoves
  <2> QED
    BY <2>7, <2>8
<1>3. CASE ConsumeSign(r)
  <2>1. v.op = "consume_sign" /\ v.sign \in Sign
    BY <1>0, <1>3, VisitFields DEF ConsumeSign
  <2>2. UNCHANGED <<account, session, device, lastReset>> /\ \A c \in Code : accepted'[c] = accepted[c]
    BY <1>3, <2>1, AccountsAssumption DEF ConsumeSign
  <2>3. CodesFresh' /\ lastReset' <= account'.password /\ ResetSignsOut'
    BY <2>2 DEF Visited, CodesFresh, ResetSignsOut, Live, Present
  <2>4. Trusted'
    BY <1>b, <2>1, <2>2, TrustedNow DEF Trusted
  <2>5. Relies([op |-> "exchange"])'
    BY DEF Relies, Ahead
  <2>6. Goes(r, [op |-> "exchange"]) \/ Goes(r, Idle)
    BY <1>3 DEF ConsumeSign
  <2> QED
    BY <1>b, <1>c, <2>3, <2>4, <2>5, <2>6, VisitedMoves
<1>4. CASE Exchange(r)
  <2>1. PICK q : q = [op |-> "checked", mfa |-> account.mfa, password |-> account.password]
    OBVIOUS
  <2>2. Relies(q)
    BY <1>a, <2>1 DEF Relies, Ahead
  <2>3. v.op = "exchange" /\ (Goes(r, q) \/ Goes(r, Idle))
        /\ UNCHANGED <<account, session, device, lastReset, accepted>>
    BY <1>4, <2>1 DEF Exchange
  <2> QED
    BY <1>b, <1>c, <2>2, <2>3, VisitedReads
<1>5. CASE PresentCode(r)
  <2>1. v.op = "code" /\ v.then \in Onward
    BY <1>0, <1>5, VisitFields DEF PresentCode
  <2>2. UNCHANGED <<account, session, device, lastReset, accepted>>
    BY <1>5 DEF PresentCode
  <2>3. Ahead(v) = v.then /\ v.then.op \in {"use_mfa", "reset", "disable"}
    BY <2>1 DEF Ahead, Onward
  <2>4. Ahead(v.then) = v.then
    BY <2>3 DEF Ahead
  <2>5. Relies(v.then)
    BY <1>0, <2>3, <2>4 DEF Relies
  <2>6. ASSUME NEW c \in account.codes,
               Goes(r, [op |-> "burn", code |-> c, left |-> account.codes \ {c}, then |-> v.then])
        PROVE  Visited'
    <3>1. PICK q : q = [op |-> "burn", code |-> c, left |-> account.codes \ {c}, then |-> v.then]
      OBVIOUS
    <3>2. Ahead(q) = v.then /\ q.code = c /\ q.left = account.codes \ {c}
      BY <3>1 DEF Ahead
    <3>3. Relies(q)
      BY <2>4, <2>5, <3>2 DEF Relies
    <3> QED
      BY <1>b, <2>1, <2>2, <2>6, <3>1, <3>3, VisitedReads
  <2> QED
    BY <1>5, <1>b, <1>c, <2>1, <2>2, <2>5, <2>6, VisitedReads DEF PresentCode
<1>6. CASE BurnCode(r)
  <2>1. v.op = "burn" /\ v.code \in Code /\ v.left \in SUBSET Code /\ v.then \in Onward
    BY <1>0, <1>6, VisitFields DEF BurnCode
  <2>2. v.code \in account.codes /\ v.left = account.codes \ {v.code}
    BY <1>0, <2>1 DEF Relies
  <2>3. accepted[v.code] = 0
    BY <2>1, <2>2 DEF Visited, CodesFresh
  <2>4. /\ account' = [account EXCEPT !.codes = v.left]
        /\ accepted' = [accepted EXCEPT ![v.code] = accepted[v.code] + 1]
        /\ Goes(r, v.then)
        /\ UNCHANGED <<session, device, lastReset>>
    BY <1>6, <2>1, <2>3 DEF BurnCode
  <2>5. account'.codes = v.left /\ account'.mfa = account.mfa /\ account'.password = account.password
    BY <2>4 DEF Account
  <2>6. CodesFresh'
    <3>1. \A c \in Code : accepted'[c] = IF c = v.code THEN 1 ELSE accepted[c]
      BY <2>1, <2>3, <2>4
    <3> QED
      BY <2>2, <2>5, <3>1 DEF Visited, CodesFresh
  <2>7. lastReset' <= account'.password /\ ResetSignsOut'
    BY <2>4, <2>5 DEF Visited, ResetSignsOut, Live, Present
  <2>8. Trusted'
    BY <1>b, <2>1, <2>4, <2>5, TrustedNow DEF Trusted
  <2>9. Ahead(v) = v.then /\ v.then.op \in {"use_mfa", "reset", "disable"}
    BY <2>1 DEF Ahead, Onward
  <2>10. Relies(v.then)'
    BY <1>0, <2>4, <2>5, <2>9 DEF Relies, Ahead
  <2> QED
    BY <1>b, <2>4, <2>6, <2>7, <2>8, <2>10, VisitedMoves
<1>7. CASE UseChallenge(r)
  <2>1. v.op = "use_mfa" /\ v \in [op : {"use_mfa"}, trust : BOOLEAN, password : Password, late : BOOLEAN]
    BY <1>0, <1>7, VisitFields DEF UseChallenge
  <2>2. PICK q : q = [v EXCEPT !.op = "open"]
    OBVIOUS
  <2>3. q.op = "open" /\ q.password = v.password /\ q.trust = v.trust /\ q.late = v.late
    BY <2>1, <2>2
  <2>4. Relies(q)
    BY <1>0, <2>1, <2>3 DEF Relies, Ahead
  <2> QED
    BY <1>7, <1>b, <2>1, <2>2, <2>4, VisitedReads DEF UseChallenge
<1>8. CASE TrustDevice(r)
  <2>1. v.op = "trust" /\ account.mfa > 0
    BY <1>0, <1>8 DEF TrustDevice, Relies, Ahead
  <2>2. UNCHANGED <<account, session, lastReset, accepted>> /\ Goes(r, Idle)
    BY <1>8 DEF TrustDevice
  <2>3. CodesFresh' /\ lastReset' <= account'.password /\ ResetSignsOut' /\ Trusted'
    BY <2>1, <2>2 DEF Visited, CodesFresh, ResetSignsOut, Live, Present, Trusted
  <2> QED
    BY <1>b, <1>c, <2>2, <2>3, VisitedMoves
<1>9. CASE CommitReset(r)
  <2>1. /\ account'.codes = account.codes /\ account'.password = account.password + 1
        /\ lastReset' = account.password + 1 /\ UNCHANGED accepted /\ Goes(r, Idle) /\ ~device'
    BY <1>9 DEF CommitReset, Account
  <2>2. CodesFresh' /\ lastReset' <= account'.password /\ Trusted'
    BY <1>a, <2>1 DEF Visited, CodesFresh, Trusted
  <2>3. ResetSignsOut'
    BY <1>9 DEF CommitReset, ResetSignsOut, Live, Present
  <2> QED
    BY <1>b, <1>c, <2>1, <2>2, <2>3, VisitedMoves
<1>10. CASE Enrol(r)
  <2>1. /\ account'.mfa = account.enrolments + 1 /\ account'.password = account.password
        /\ UNCHANGED <<session, device, lastReset>> /\ Goes(r, Idle)
    BY <1>10 DEF Enrol, Account
  <2>2. account.enrolments \in Nat
    BY AccountsAssumption DEF Account
  <2>3. account'.mfa > 0
    BY <2>1, <2>2
  <2>4. \A c \in Code : accepted'[c] = 0
    BY <1>10 DEF Enrol
  <2>5. CodesFresh' /\ lastReset' <= account'.password /\ ResetSignsOut' /\ Trusted'
    BY <2>1, <2>3, <2>4 DEF Visited, CodesFresh, ResetSignsOut, Live, Present, Trusted
  <2> QED
    BY <1>b, <1>c, <2>1, <2>5, VisitedMoves
<1>11. CASE ClearMfa(r)
  <2>1. /\ account'.codes = {} /\ account'.password = account.password
        /\ UNCHANGED <<session, lastReset, accepted>> /\ Goes(r, [op |-> "drop_devices"])
    BY <1>11 DEF ClearMfa, Account
  <2>2. CodesFresh' /\ lastReset' <= account'.password /\ ResetSignsOut'
    BY <2>1 DEF Visited, CodesFresh, ResetSignsOut, Live, Present
  <2>3. Relies([op |-> "drop_devices"])'
    BY DEF Relies, Ahead
  <2> QED
    BY <1>b, <2>1, <2>2, <2>3, VisitedMoves
<1>12. CASE DropDevices(r)
  <2>1. UNCHANGED <<account, session, lastReset, accepted>> /\ Goes(r, Idle) /\ ~device'
    BY <1>12 DEF DropDevices
  <2>2. CodesFresh' /\ lastReset' <= account'.password /\ ResetSignsOut' /\ Trusted'
    BY <2>1 DEF Visited, CodesFresh, ResetSignsOut, Live, Present, Trusted
  <2> QED
    BY <1>b, <1>c, <2>1, <2>2, VisitedMoves
<1> QED
  BY <1>1, <1>2, <1>3, <1>4, <1>5, <1>6, <1>7, <1>8, <1>9, <1>10, <1>11, <1>12

LEMMA AccountsInvStep ==
  ASSUME AccountsInv, [OfficeNext]_officeVars
  PROVE  AccountsInv'
<1>1. Entered'
  BY OfficeStepsAccounts, EnteredStep DEF AccountsInv
<1>2. ASSUME alone, UNCHANGED accountVars PROVE Visited'
  BY <1>2 DEF AccountsInv, accountVars, Visited, OneAtATime, CodesFresh, ResetSignsOut, Live,
              Present, Trusted, Relies, Ahead
<1>3. alone => Visited'
  BY <1>2, OfficeStepsAccounts, VisitedBegins, VisitedResumes DEF AccountsInv, AccountsResume
<1> QED
  BY <1>1, <1>3, OfficeStepsAccounts DEF AccountsInv

LEMMA AccountsInvInit ==
  ASSUME OfficeInit
  PROVE  AccountsInv
<1>1. AccountsInit
  BY DEF OfficeInit
<1>2. Entered
  BY <1>1, EnteredInit
<1>3. Relies(Idle)
  BY DEF Relies, Ahead, Idle
<1>4. Visited
  BY <1>1, <1>3 DEF AccountsInit, Visited, OneAtATime, CodesFresh, ResetSignsOut, Live, Present, Trusted
<1> QED
  BY <1>2, <1>4 DEF AccountsInv

\* With one request after the other: a recovery code lets its owner in once per enrolment,
\* no session of an older password outlives a reset or is opened after it, except by a
\* challenge opened before and answered after, and no browser stays trusted without two-factor.
THEOREM AccountsAlwaysSafe == OfficeSpec => []AccountsSafe
<1>1. AccountsInv => AccountsSafe
  <2>1. ASSUME Entered, Visited PROVE TrustEndsWithMfa
    <3>1. SUFFICES ASSUME Lone(visit), device PROVE account.mfa > 0
      BY DEF TrustEndsWithMfa
    <3>2. \A r \in Visitor : visit[r].op # "drop_devices"
      BY <2>1, <3>1 DEF Entered, Lone, Idle
    <3> QED
      BY <2>1, <3>1, <3>2 DEF Visited, Trusted
  <2> QED
    BY <2>1 DEF AccountsInv, AccountsSafe, Entered, Visited, CodesOnce, CodesFresh
<1> QED
  BY <1>1, AccountsInvInit, AccountsInvStep, PTL DEF OfficeSpec

(***************************************************************************)
(* The directory: requests in progress, and what is filed.                 *)
(***************************************************************************)

Working ==
    {Idle}
      \cup [op : {"insertUser"}, user : User, groups : SUBSET Group]
      \cup [op : {"clearGroups"}, user : User, active : BOOLEAN, groups : SUBSET Group]
      \cup [op : {"joinGroups"}, user : User, active : BOOLEAN, groups : SUBSET Group, seen : SUBSET Group]
      \cup [op : {"setRoles"}, group : Group, roles : SUBSET Role, seen : SUBSET Role]
      \cup [op : {"grant"}, role : Role, permissions : SUBSET Permission, seen : SUBSET Permission]
      \cup [op : {"view"}, view : View, default : Flag \ {"none"}, seen : SUBSET View]

Filed ==
    /\ DirectoryTypeOK /\ NothingDangles
    /\ work \in [Clerk -> Working]

IsActive(u) == user[u] # Absent /\ user[u].active

\* Whoever an update deactivates, another one is active; a view that becomes the default
\* has seen the one that was.
Considers(q) ==
    /\ q.op \in {"clearGroups", "joinGroups"} =>
          q.active \/ \E u \in User \ {q.user} : IsActive(u)
    /\ q.op = "view" /\ q.default = "default" =>
          \A w \in View \ {q.view} : view[w] = "default" => w \in q.seen

OneDefault == \A v, w \in View : view[v] = "default" /\ view[w] = "default" => v = w

Directed ==
    /\ OneAtATime(work)
    /\ \E u \in User : IsActive(u)
    /\ OneDefault
    /\ \A c \in Clerk : Considers(work[c])

DirectoryInv == Filed /\ (alone => Directed)

(***************************************************************************)
(* Filed, table by table.                                                  *)
(***************************************************************************)

LEMMA RowsAreThere == Absent \notin UserRow /\ Absent \notin GroupRow /\ Absent \notin RoleRow
<1>1. DOMAIN Absent = {"gone"}
  BY DEF Absent
<1>2. /\ \A x \in UserRow : DOMAIN x = {"active", "groups"}
      /\ \A x \in GroupRow : DOMAIN x = {"roles", "system"}
      /\ \A x \in RoleRow : DOMAIN x = {"permissions", "system"}
  BY DEF UserRow, GroupRow, RoleRow
<1>3. {"gone"} # {"active", "groups"} /\ {"gone"} # {"roles", "system"}
      /\ {"gone"} # {"permissions", "system"}
  OBVIOUS
<1> QED
  BY <1>1, <1>2, <1>3

LEMMA FiledTypes ==
  ASSUME Filed
  PROVE  /\ user \in [User -> UserRow \cup {Absent}] /\ group \in [Group -> GroupRow \cup {Absent}]
         /\ role \in [Role -> RoleRow \cup {Absent}] /\ view \in [View -> Flag]
         /\ work \in [Clerk -> Working]
         /\ Present(group) \subseteq Group /\ Present(role) \subseteq Role
         /\ \A u \in User : user[u] # Absent => user[u].groups \subseteq Present(group)
         /\ \A g \in Group : group[g] # Absent => group[g].roles \subseteq Present(role)
  BY DEF Filed, DirectoryTypeOK, NothingDangles, Present

LEMMA FiledFrom ==
  ASSUME user' \in [User -> UserRow \cup {Absent}], group' \in [Group -> GroupRow \cup {Absent}],
         role' \in [Role -> RoleRow \cup {Absent}], view' \in [View -> Flag],
         work' \in [Clerk -> Working],
         \A u \in User : user'[u] # Absent => user'[u].groups \subseteq Present(group)',
         \A g \in Group : group'[g] # Absent => group'[g].roles \subseteq Present(role)'
  PROVE  Filed'
  BY DEF Filed, DirectoryTypeOK, NothingDangles, Present

LEMMA WorkMoves ==
  ASSUME Filed, NEW c \in Clerk, NEW q \in Working, Works(c, q)
  PROVE  work' \in [Clerk -> Working]
  BY FiledTypes DEF Works

LEMMA FiledWaits ==
  ASSUME Filed, work' \in [Clerk -> Working], UNCHANGED <<user, group, role>>, view' \in [View -> Flag]
  PROVE  Filed'
  BY FiledTypes, FiledFrom DEF Present

LEMMA FiledUser ==
  ASSUME Filed, work' \in [Clerk -> Working], UNCHANGED <<group, role, view>>,
         NEW u \in User, NEW x \in UserRow \cup {Absent}, user' = [user EXCEPT ![u] = x],
         x # Absent => x.groups \subseteq Present(group)
  PROVE  Filed'
<1>1. user' \in [User -> UserRow \cup {Absent}]
  BY FiledTypes
<1>2. \A w \in User : user'[w] # Absent => user'[w].groups \subseteq Present(group)'
  BY FiledTypes DEF Present
<1> QED
  BY <1>1, <1>2, FiledTypes, FiledFrom DEF Present

LEMMA FiledGroup ==
  ASSUME Filed, work' \in [Clerk -> Working], UNCHANGED <<user, role, view>>,
         NEW g \in Group, NEW x \in GroupRow, group' = [group EXCEPT ![g] = x],
         x.roles \subseteq Present(role)
  PROVE  Filed'
<1>1. group' \in [Group -> GroupRow \cup {Absent}]
  BY FiledTypes
<1>2. Present(group) \subseteq Present(group)'
  BY FiledTypes, RowsAreThere DEF Present
<1>3. \A h \in Group : group'[h] # Absent => group'[h].roles \subseteq Present(role)'
  BY FiledTypes DEF Present
<1> QED
  BY <1>1, <1>2, <1>3, FiledTypes, FiledFrom

LEMMA FiledRole ==
  ASSUME Filed, work' \in [Clerk -> Working], UNCHANGED <<user, group, view>>,
         NEW k \in Role, NEW x \in RoleRow, role' = [role EXCEPT ![k] = x]
  PROVE  Filed'
<1>1. role' \in [Role -> RoleRow \cup {Absent}]
  BY FiledTypes
<1>2. Present(role) \subseteq Present(role)' /\ Present(group)' = Present(group)
  BY FiledTypes, RowsAreThere DEF Present
<1> QED
  BY <1>1, <1>2, FiledTypes, FiledFrom

\* Memberships and grants go with the group or role they refer to.
LEMMA FiledWithoutGroup ==
  ASSUME Filed, NEW by \in User, NEW g \in Group, DeleteGroup(by, g)
  PROVE  Filed'
<1>1. /\ group' = [group EXCEPT ![g] = Absent] /\ UNCHANGED <<role, view, work>>
      /\ user' = [u \in User |-> IF user[u] = Absent THEN Absent
                                 ELSE [user[u] EXCEPT !.groups = user[u].groups \ {g}]]
  BY DEF DeleteGroup
<1>2. Present(group)' = Present(group) \ {g}
  BY <1>1, FiledTypes DEF Present
<1>3. ASSUME NEW u \in User, user[u] # Absent
      PROVE  user'[u] \in UserRow /\ user'[u].groups \subseteq Present(group)'
  <2>1. PICK x : x = [user[u] EXCEPT !.groups = user[u].groups \ {g}]
    OBVIOUS
  <2>2. x.groups = user[u].groups \ {g} /\ x \in UserRow
    BY <1>3, <2>1, FiledTypes DEF UserRow
  <2> QED
    BY <1>1, <1>2, <1>3, <2>1, <2>2, FiledTypes
<1>4. user' \in [User -> UserRow \cup {Absent}]
  BY <1>1, <1>3
<1>5. \A u \in User : user'[u] # Absent => user'[u].groups \subseteq Present(group)'
  BY <1>1, <1>3
<1>6. \A h \in Group : group'[h] # Absent => group'[h].roles \subseteq Present(role)'
  BY <1>1, FiledTypes DEF Present
<1>7. group' \in [Group -> GroupRow \cup {Absent}] /\ work' \in [Clerk -> Working]
      /\ role' \in [Role -> RoleRow \cup {Absent}] /\ view' \in [View -> Flag]
  BY <1>1, FiledTypes
<1> QED
  BY <1>4, <1>5, <1>6, <1>7, FiledFrom

LEMMA FiledWithoutRole ==
  ASSUME Filed, NEW by \in User, NEW k \in Role, DeleteRole(by, k)
  PROVE  Filed'
<1>1. /\ role' = [role EXCEPT ![k] = Absent] /\ UNCHANGED <<user, view, work>>
      /\ group' = [g \in Group |-> IF group[g] = Absent THEN Absent
                                   ELSE [group[g] EXCEPT !.roles = group[g].roles \ {k}]]
  BY DEF DeleteRole
<1>2. Present(role)' = Present(role) \ {k}
  BY <1>1, FiledTypes DEF Present
<1>3. ASSUME NEW g \in Group, group[g] # Absent
      PROVE  group'[g] \in GroupRow /\ group'[g].roles \subseteq Present(role)'
  <2>1. PICK x : x = [group[g] EXCEPT !.roles = group[g].roles \ {k}]
    OBVIOUS
  <2>2. x.roles = group[g].roles \ {k} /\ x \in GroupRow
    BY <1>3, <2>1, FiledTypes DEF GroupRow
  <2> QED
    BY <1>1, <1>2, <1>3, <2>1, <2>2, FiledTypes
<1>4. group' \in [Group -> GroupRow \cup {Absent}]
  BY <1>1, <1>3
<1>5. \A g \in Group : group'[g] # Absent => group'[g].roles \subseteq Present(role)'
  BY <1>1, <1>3
<1>6. Present(group)' = Present(group)
  <2>1. \A g \in Group : group'[g] = Absent <=> group[g] = Absent
    BY <1>1, <1>3, RowsAreThere
  <2>2. DOMAIN group = Group /\ DOMAIN group' = Group
    BY <1>1, FiledTypes
  <2> QED
    BY <2>1, <2>2 DEF Present
<1>7. role' \in [Role -> RoleRow \cup {Absent}] /\ work' \in [Clerk -> Working]
      /\ user' \in [User -> UserRow \cup {Absent}] /\ view' \in [View -> Flag]
  BY <1>1, FiledTypes
<1>8. \A u \in User : user'[u] # Absent => user'[u].groups \subseteq Present(group)'
  BY <1>1, <1>6, FiledTypes
<1> QED
  BY <1>4, <1>5, <1>7, <1>8, FiledFrom

LEMMA FiledInit ==
  ASSUME DirectoryInit PROVE Filed
<1>1. PICK g \in Group, k \in Role :
       /\ user = [u \in User |-> IF u = Founder THEN [active |-> TRUE, groups |-> {g}] ELSE Absent]
       /\ group = [h \in Group |-> IF h = g THEN [roles |-> {k}, system |-> TRUE] ELSE Absent]
       /\ role = [j \in Role |-> IF j = k THEN [permissions |-> Permission, system |-> TRUE] ELSE Absent]
       /\ view = [v \in View |-> "none"] /\ work = [c \in Clerk |-> Idle]
  BY DEF DirectoryInit
<1>2. PICK x, y, z : /\ x = [active |-> TRUE, groups |-> {g}] /\ y = [roles |-> {k}, system |-> TRUE]
                     /\ z = [permissions |-> Permission, system |-> TRUE]
  OBVIOUS
<1>3. x \in UserRow /\ y \in GroupRow /\ z \in RoleRow /\ x.groups = {g} /\ y.roles = {k}
  BY <1>2 DEF UserRow, GroupRow, RoleRow
<1>4. user \in [User -> UserRow \cup {Absent}] /\ group \in [Group -> GroupRow \cup {Absent}]
      /\ role \in [Role -> RoleRow \cup {Absent}] /\ view \in [View -> Flag]
      /\ work \in [Clerk -> Working]
  BY <1>1, <1>2, <1>3 DEF Flag, Working
<1>5. g \in Present(group) /\ k \in Present(role)
  BY <1>1, <1>2, <1>3, RowsAreThere DEF Present
<1>6. NothingDangles
  BY <1>1, <1>2, <1>3, <1>5 DEF NothingDangles, Present
<1> QED
  BY <1>4, <1>6 DEF Filed, DirectoryTypeOK

LEMMA WorkFields ==
  ASSUME NEW q \in Working
  PROVE  /\ q.op = "insertUser" => q.user \in User /\ q.groups \in SUBSET Group
         /\ q.op = "clearGroups" => q.user \in User /\ q.active \in BOOLEAN /\ q.groups \in SUBSET Group
         /\ q.op = "joinGroups" => /\ q.user \in User /\ q.active \in BOOLEAN
                                   /\ q.groups \in SUBSET Group /\ q.seen \in SUBSET Group
         /\ q.op = "setRoles" => q.group \in Group /\ q.roles \in SUBSET Role /\ q.seen \in SUBSET Role
         /\ q.op = "grant" => /\ q.role \in Role /\ q.permissions \in SUBSET Permission
                              /\ q.seen \in SUBSET Permission
         /\ q.op = "view" => q.view \in View /\ q.default \in Flag \ {"none"} /\ q.seen \in SUBSET View
  BY DEF Working, Idle

LEMMA FiledBegins ==
  ASSUME Filed, DirectoryBegin
  PROVE  Filed'
<1> USE FiledTypes
<1>1. ASSUME NEW by \in User, NEW c \in Clerk, NEW u \in User, NEW groups \in SUBSET Group,
             CreateUser(c, by, u, groups)
      PROVE  Filed'
  <2>1. [op |-> "insertUser", user |-> u, groups |-> groups] \in Working
    BY DEF Working
  <2> QED
    BY <1>1, <2>1, WorkMoves, FiledWaits DEF CreateUser
<1>2. ASSUME NEW by \in User, NEW c \in Clerk, NEW u \in User, NEW groups \in SUBSET Group,
             NEW active \in BOOLEAN, UpdateUser(c, by, u, active, groups)
      PROVE  Filed'
  <2>1. [op |-> "clearGroups", user |-> u, active |-> active, groups |-> groups] \in Working
    BY DEF Working
  <2> QED
    BY <1>2, <2>1, WorkMoves, FiledWaits DEF UpdateUser
<1>3. ASSUME NEW by \in User, NEW u \in User, DeleteUser(by, u) PROVE Filed'
  BY <1>3, FiledUser DEF DeleteUser
<1>4. ASSUME NEW by \in User, NEW g \in Group, NEW roles \in SUBSET Role, CreateGroup(by, g, roles)
      PROVE  Filed'
  <2>1. PICK x : x = [roles |-> roles, system |-> FALSE]
    OBVIOUS
  <2>2. x \in GroupRow /\ x.roles \subseteq Present(role)
    BY <1>4, <2>1 DEF GroupRow, CreateGroup, RolesExist
  <2> QED
    BY <1>4, <2>1, <2>2, FiledGroup DEF CreateGroup
<1>5. ASSUME NEW by \in User, NEW c \in Clerk, NEW g \in Group, NEW roles \in SUBSET Role,
             UpdateGroup(c, by, g, roles)
      PROVE  Filed'
  <2>1. group[g].roles \in SUBSET Role
    BY <1>5 DEF UpdateGroup, GroupRow
  <2>2. PICK q : q = [op |-> "setRoles", group |-> g, roles |-> roles, seen |-> group[g].roles]
    OBVIOUS
  <2>3. q \in Working
    BY <2>1, <2>2 DEF Working
  <2> QED
    BY <1>5, <2>2, <2>3, WorkMoves, FiledWaits DEF UpdateGroup
<1>6. ASSUME NEW by \in User, NEW k \in Role, NEW permissions \in SUBSET Permission,
             CreateRole(by, k, permissions)
      PROVE  Filed'
  <2>1. PICK x : x = [permissions |-> permissions, system |-> FALSE]
    OBVIOUS
  <2>2. x \in RoleRow
    BY <2>1 DEF RoleRow
  <2> QED
    BY <1>6, <2>1, <2>2, FiledRole DEF CreateRole
<1>7. ASSUME NEW by \in User, NEW c \in Clerk, NEW k \in Role, NEW permissions \in SUBSET Permission,
             UpdateRole(c, by, k, permissions)
      PROVE  Filed'
  <2>1. role[k].permissions \in SUBSET Permission
    BY <1>7 DEF UpdateRole, RoleRow
  <2>2. PICK q : q = [op |-> "grant", role |-> k, permissions |-> permissions,
                      seen |-> role[k].permissions]
    OBVIOUS
  <2>3. q \in Working
    BY <2>1, <2>2 DEF Working
  <2> QED
    BY <1>7, <2>2, <2>3, WorkMoves, FiledWaits DEF UpdateRole
<1> QED
  BY <1>1, <1>2, <1>3, <1>4, <1>5, <1>6, <1>7, FiledWithoutGroup, FiledWithoutRole DEF DirectoryBegin

LEMMA FiledViews ==
  ASSUME Filed, ViewsBegin
  PROVE  Filed'
<1> USE FiledTypes
<1>1. ASSUME NEW c \in Clerk, NEW v \in View, NEW default \in {"default", "plain"},
             NEW seen \in SUBSET View
      PROVE  [op |-> "view", view |-> v, default |-> default, seen |-> seen] \in Working
  BY DEF Working, Flag
<1>2. ASSUME NEW c \in Clerk, NEW v \in View, NEW default \in Flag \ {"none"}, SaveView(c, v, default)
      PROVE  Filed'
  <2>1. PICK seen \in SUBSET View : seen = IF default = "default" THEN {w \in View : view[w] # "none"} ELSE {}
    OBVIOUS
  <2>2. PICK q : q = [op |-> "view", view |-> v, default |-> default, seen |-> seen]
    OBVIOUS
  <2>3. q \in Working
    BY <1>1, <2>2 DEF Flag
  <2> QED
    BY <1>2, <2>1, <2>2, <2>3, WorkMoves, FiledWaits DEF SaveView
<1>3. ASSUME NEW c \in Clerk, NEW v \in View, NEW default \in {"default", "plain", "keep"},
             UpdateView(c, v, default)
      PROVE  Filed'
  <2>1. PICK seen \in SUBSET View :
          seen = IF default = "default" THEN {w \in View \ {v} : view[w] # "none"} ELSE {}
    OBVIOUS
  <2>2. PICK flag : flag = IF default = "keep" THEN view[v] ELSE default
    OBVIOUS
  <2>3. flag \in {"default", "plain"}
    BY <1>3, <2>2 DEF UpdateView, Flag
  <2>4. PICK q : q = [op |-> "view", view |-> v, default |-> flag, seen |-> seen]
    OBVIOUS
  <2>5. q \in Working
    BY <1>1, <2>3, <2>4
  <2> QED
    BY <1>3, <2>1, <2>2, <2>4, <2>5, WorkMoves, FiledWaits DEF UpdateView
<1>4. ASSUME NEW v \in View, DeleteView(v) PROVE Filed'
  BY <1>4, FiledWaits DEF DeleteView, Flag
<1> QED
  BY <1>2, <1>3, <1>4 DEF ViewsBegin

LEMMA FiledResumes ==
  ASSUME Filed, DirectoryResume
  PROVE  Filed'
<1> USE FiledTypes
<1>0. ASSUME NEW c \in Clerk
      PROVE  work[c] \in Working /\ (Works(c, Idle) => work' \in [Clerk -> Working])
  BY WorkMoves DEF Working
<1>1. ASSUME NEW c \in Clerk, InsertUser(c) PROVE Filed'
  <2>1. PICK q : q = work[c]
    OBVIOUS
  <2>2. q.op = "insertUser" /\ q.user \in User /\ q.groups \in SUBSET Group
    BY <1>0, <1>1, <2>1, WorkFields DEF InsertUser
  <2>3. PICK x : x = [active |-> TRUE, groups |-> q.groups]
    OBVIOUS
  <2>4. x \in UserRow /\ x.groups = q.groups
    BY <2>2, <2>3 DEF UserRow
  <2>5. work' \in [Clerk -> Working] /\ UNCHANGED <<group, role, view>>
    BY <1>0, <1>1 DEF InsertUser
  <2>6. UNCHANGED user \/ (user' = [user EXCEPT ![q.user] = x] /\ q.groups \subseteq Present(group))
    BY <1>1, <2>1, <2>3 DEF InsertUser
  <2> QED
    BY <2>2, <2>4, <2>5, <2>6, FiledUser, FiledWaits
<1>2. ASSUME NEW c \in Clerk, ClearGroups(c) PROVE Filed'
  <2>1. PICK v : v = work[c]
    OBVIOUS
  <2>2. v.op = "clearGroups" /\ v.user \in User /\ v.active \in BOOLEAN /\ v.groups \in SUBSET Group
    BY <1>0, <1>2, <2>1, WorkFields DEF ClearGroups
  <2>3. PICK seen : seen = IF user[v.user] = Absent THEN {} ELSE user[v.user].groups
    OBVIOUS
  <2>4. seen \in SUBSET Group
    BY <2>2, <2>3
  <2>5. PICK q : q = [op |-> "joinGroups", user |-> v.user, active |-> v.active, groups |-> v.groups,
                      seen |-> seen]
    OBVIOUS
  <2>6. q \in Working
    BY <2>2, <2>4, <2>5 DEF Working
  <2>7. Works(c, q) /\ UNCHANGED <<user, group, role, view>>
    BY <1>2, <2>1, <2>3, <2>5 DEF ClearGroups
  <2> QED
    BY <2>6, <2>7, WorkMoves, FiledWaits
<1>3. ASSUME NEW c \in Clerk, JoinGroups(c) PROVE Filed'
  <2>1. PICK q : q = work[c]
    OBVIOUS
  <2>2. q.op = "joinGroups" /\ q.user \in User /\ q.active \in BOOLEAN /\ q.groups \in SUBSET Group
    BY <1>0, <1>3, <2>1, WorkFields DEF JoinGroups
  <2>3. work' \in [Clerk -> Working] /\ UNCHANGED <<group, role, view>>
    BY <1>0, <1>3 DEF JoinGroups
  <2>4. CASE user[q.user] # Absent /\ q.groups \subseteq Present(group)
    <3>1. PICK x : x = [active |-> q.active, groups |-> (user[q.user].groups \ q.seen) \cup q.groups]
      OBVIOUS
    <3>2. x \in UserRow /\ x.groups \subseteq Present(group)
      BY <2>2, <2>4, <3>1 DEF UserRow
    <3>3. user' = [user EXCEPT ![q.user] = x]
      BY <1>3, <2>1, <2>4, <3>1 DEF JoinGroups
    <3> QED
      BY <2>2, <2>3, <3>2, <3>3, FiledUser
  <2>5. CASE ~(user[q.user] # Absent /\ q.groups \subseteq Present(group))
    BY <1>3, <2>1, <2>3, <2>5, FiledWaits DEF JoinGroups
  <2> QED
    BY <2>4, <2>5
<1>4. ASSUME NEW c \in Clerk, SetRoles(c) PROVE Filed'
  <2>1. PICK q : q = work[c]
    OBVIOUS
  <2>2. q.op = "setRoles" /\ q.group \in Group /\ q.roles \in SUBSET Role
    BY <1>0, <1>4, <2>1, WorkFields DEF SetRoles
  <2>3. work' \in [Clerk -> Working] /\ UNCHANGED <<user, role, view>>
    BY <1>0, <1>4 DEF SetRoles
  <2>4. CASE group[q.group] # Absent /\ q.roles \subseteq Present(role)
    <3>1. PICK x : x = [group[q.group] EXCEPT !.roles = (group[q.group].roles \ q.seen) \cup q.roles]
      OBVIOUS
    <3>2. group[q.group] \in GroupRow /\ group[q.group].roles \subseteq Present(role)
      BY <2>2, <2>4
    <3>3. x.roles = (group[q.group].roles \ q.seen) \cup q.roles /\ x \in GroupRow
      BY <2>2, <3>1, <3>2 DEF GroupRow
    <3>4. x.roles \subseteq Present(role)
      BY <2>4, <3>2, <3>3
    <3>5. group' = [group EXCEPT ![q.group] = x]
      BY <1>4, <2>1, <2>4, <3>1 DEF SetRoles
    <3> QED
      BY <2>2, <2>3, <3>3, <3>4, <3>5, FiledGroup
  <2>5. CASE ~(group[q.group] # Absent /\ q.roles \subseteq Present(role))
    BY <1>4, <2>1, <2>3, <2>5, FiledWaits DEF SetRoles
  <2> QED
    BY <2>4, <2>5
<1>5. ASSUME NEW c \in Clerk, Grant(c) PROVE Filed'
  <2>1. PICK q : q = work[c]
    OBVIOUS
  <2>2. q.op = "grant" /\ q.role \in Role /\ q.permissions \in SUBSET Permission
    BY <1>0, <1>5, <2>1, WorkFields DEF Grant
  <2>3. work' \in [Clerk -> Working] /\ UNCHANGED <<user, group, view>>
    BY <1>0, <1>5 DEF Grant
  <2>4. CASE role[q.role] # Absent
    <3>1. PICK x : x = [role[q.role] EXCEPT !.permissions =
                          (role[q.role].permissions \ q.seen) \cup q.permissions]
      OBVIOUS
    <3>2. x \in RoleRow
      BY <2>2, <2>4, <3>1 DEF RoleRow
    <3>3. role' = [role EXCEPT ![q.role] = x]
      BY <1>5, <2>1, <2>4, <3>1 DEF Grant
    <3> QED
      BY <2>2, <2>3, <3>2, <3>3, FiledRole
  <2>5. CASE role[q.role] = Absent
    BY <1>5, <2>1, <2>3, <2>5, FiledWaits DEF Grant
  <2> QED
    BY <2>4, <2>5
<1>6. ASSUME NEW c \in Clerk, StoreView(c) PROVE Filed'
  <2>1. PICK q : q = work[c]
    OBVIOUS
  <2>2. q.op = "view" /\ q.view \in View /\ q.default \in Flag \ {"none"}
    BY <1>0, <1>6, <2>1, WorkFields DEF StoreView
  <2>3. view' \in [View -> Flag]
    BY <1>6, <2>1, <2>2 DEF StoreView, Flag
  <2> QED
    BY <1>0, <1>6, <2>3, FiledWaits DEF StoreView
<1> QED
  BY <1>1, <1>2, <1>3, <1>4, <1>5, <1>6 DEF DirectoryResume

LEMMA OfficeStepsDirectory ==
  ASSUME [OfficeNext]_officeVars
  PROVE  /\ DirectoryBegin \/ ViewsBegin \/ DirectoryResume \/ UNCHANGED directoryVars
         /\ alone' = alone
         /\ alone => \/ Lone(work) /\ (DirectoryBegin \/ ViewsBegin)
                     \/ DirectoryResume \/ UNCHANGED directoryVars
<1>1. DirectoryContend => DirectoryBegin
  <2>1. ASSUME NEW by \in User, NEW k \in Role, CreateRole(by, k, Permission) PROVE DirectoryBegin
    <3>1. Permission \in SUBSET Permission
      OBVIOUS
    <3> QED
      BY <2>1, <3>1 DEF DirectoryBegin
  <2> QED
    BY <2>1 DEF DirectoryContend, DirectoryBegin
<1> QED
  BY <1>1 DEF OfficeNext, officeVars, AccountsTurn, DirectoryTurn, AttachmentsTurn, EventsTurn

LEMMA FiledStep ==
  ASSUME Filed, [OfficeNext]_officeVars
  PROVE  Filed'
<1>1. CASE UNCHANGED directoryVars
  BY <1>1, FiledTypes, FiledWaits DEF directoryVars
<1> QED
  BY <1>1, OfficeStepsDirectory, FiledBegins, FiledViews, FiledResumes

(***************************************************************************)
(* Directed: with one request after the other, somebody active is left and *)
(* one view is the default.                                                *)
(***************************************************************************)

SomebodyActive == \E u \in User : IsActive(u)

LEMMA DirectedMoves ==
  ASSUME Filed, Directed, NEW c \in Clerk, work[c] # Idle \/ Lone(work), NEW q, Works(c, q),
         SomebodyActive', OneDefault', Considers(q)'
  PROVE  Directed'
<1>1. DOMAIN work = Clerk /\ \A p \in Clerk \ {c} : work[p] = Idle
  BY FiledTypes DEF Directed, OneAtATime, Lone
<1>2. DOMAIN work' = Clerk /\ work'[c] = q /\ \A p \in Clerk \ {c} : work'[p] = Idle
  BY <1>1 DEF Works
<1>3. OneAtATime(work)'
  BY <1>2 DEF OneAtATime
<1>4. Considers(Idle)'
  BY DEF Considers, Idle
<1>5. \A p \in Clerk : Considers(work[p])'
  BY <1>2, <1>4
<1> QED
  BY <1>3, <1>5 DEF Directed, SomebodyActive

LEMMA DirectedAround ==
  ASSUME Filed, Directed, Lone(work), UNCHANGED work, SomebodyActive', OneDefault'
  PROVE  Directed'
<1>1. \A p \in Clerk : work[p] = Idle
  BY FiledTypes DEF Lone
<1>2. Considers(Idle)'
  BY DEF Considers, Idle
<1> QED
  BY <1>1, <1>2 DEF Directed, OneAtATime, SomebodyActive

\* A request that was let in is of somebody active.
LEMMA CallerActive ==
  ASSUME NEW by \in User, "manage" \in Allowed(by)
  PROVE  IsActive(by)
  BY DEF Allowed, IsActive

LEMMA DirectedReads ==
  ASSUME Filed, Directed, NEW c \in Clerk, work[c] # Idle \/ Lone(work), NEW q, Works(c, q),
         UNCHANGED <<user, view>>, Considers(q)
  PROVE  Directed'
<1>1. SomebodyActive' /\ OneDefault' /\ Considers(q)'
  BY DEF Directed, SomebodyActive, IsActive, OneDefault, Considers
<1> QED
  BY <1>1, DirectedMoves

LEMMA DirectedBegins ==
  ASSUME Filed, Directed, Lone(work), DirectoryBegin
  PROVE  Directed'
<1> USE FiledTypes
<1>1. ASSUME NEW by \in User, NEW c \in Clerk, NEW u \in User, NEW groups \in SUBSET Group,
             CreateUser(c, by, u, groups)
      PROVE  Directed'
  <2>1. Considers([op |-> "insertUser", user |-> u, groups |-> groups])
    BY DEF Considers
  <2> QED
    BY <1>1, <2>1, DirectedReads DEF CreateUser
<1>2. ASSUME NEW by \in User, NEW c \in Clerk, NEW u \in User, NEW groups \in SUBSET Group,
             NEW active \in BOOLEAN, UpdateUser(c, by, u, active, groups)
      PROVE  Directed'
  <2>1. IsActive(by) /\ (u = by => active)
    BY <1>2, CallerActive DEF UpdateUser
  <2>2. PICK q : q = [op |-> "clearGroups", user |-> u, active |-> active, groups |-> groups]
    OBVIOUS
  <2>3. q.op = "clearGroups" /\ q.user = u /\ q.active = active
    BY <2>2
  <2>4. Considers(q)
    BY <2>1, <2>3 DEF Considers
  <2> QED
    BY <1>2, <2>2, <2>4, DirectedReads DEF UpdateUser
<1>3. ASSUME NEW by \in User, NEW u \in User, DeleteUser(by, u) PROVE Directed'
  <2>1. IsActive(by) /\ u # by
    BY <1>3, CallerActive DEF DeleteUser
  <2>2. SomebodyActive'
    BY <1>3, <2>1 DEF DeleteUser, SomebodyActive, IsActive
  <2> QED
    BY <1>3, <2>2, DirectedAround DEF DeleteUser, Directed, OneDefault
<1>4. ASSUME NEW by \in User, NEW g \in Group, NEW roles \in SUBSET Role, CreateGroup(by, g, roles)
      PROVE  Directed'
  BY <1>4, DirectedAround DEF CreateGroup, Directed, SomebodyActive, IsActive, OneDefault
<1>5. ASSUME NEW by \in User, NEW c \in Clerk, NEW g \in Group, NEW roles \in SUBSET Role,
             UpdateGroup(c, by, g, roles)
      PROVE  Directed'
  <2>1. Considers([op |-> "setRoles", group |-> g, roles |-> roles, seen |-> group[g].roles])
    BY DEF Considers
  <2> QED
    BY <1>5, <2>1, DirectedReads DEF UpdateGroup
<1>6. ASSUME NEW by \in User, NEW g \in Group, DeleteGroup(by, g) PROVE Directed'
  <2>1. ASSUME NEW u \in User, IsActive(u) PROVE IsActive(u)'
    <3>1. PICK x : x = [user[u] EXCEPT !.groups = user[u].groups \ {g}]
      OBVIOUS
    <3>2. user[u] \in UserRow
      BY <2>1 DEF IsActive
    <3>3. x \in UserRow /\ x.active = user[u].active
      BY <3>1, <3>2 DEF UserRow
    <3>4. user'[u] = x
      BY <1>6, <2>1, <3>1 DEF DeleteGroup, IsActive
    <3> QED
      BY <2>1, <3>3, <3>4, RowsAreThere DEF IsActive
  <2>2. SomebodyActive'
    BY <2>1 DEF Directed, SomebodyActive
  <2> QED
    BY <1>6, <2>2, DirectedAround DEF DeleteGroup, Directed, OneDefault
<1>7. ASSUME NEW by \in User, NEW k \in Role, NEW permissions \in SUBSET Permission,
             CreateRole(by, k, permissions)
      PROVE  Directed'
  BY <1>7, DirectedAround DEF CreateRole, Directed, SomebodyActive, IsActive, OneDefault
<1>8. ASSUME NEW by \in User, NEW c \in Clerk, NEW k \in Role, NEW permissions \in SUBSET Permission,
             UpdateRole(c, by, k, permissions)
      PROVE  Directed'
  <2>1. Considers([op |-> "grant", role |-> k, permissions |-> permissions, seen |-> role[k].permissions])
    BY DEF Considers
  <2> QED
    BY <1>8, <2>1, DirectedReads DEF UpdateRole
<1>9. ASSUME NEW by \in User, NEW k \in Role, DeleteRole(by, k) PROVE Directed'
  BY <1>9, DirectedAround DEF DeleteRole, Directed, SomebodyActive, IsActive, OneDefault
<1> QED
  BY <1>1, <1>2, <1>3, <1>4, <1>5, <1>6, <1>7, <1>8, <1>9 DEF DirectoryBegin

LEMMA DirectedViews ==
  ASSUME Filed, Directed, Lone(work), ViewsBegin
  PROVE  Directed'
<1> USE FiledTypes
<1>1. ASSUME NEW c \in Clerk, NEW v \in View, NEW default \in Flag \ {"none"}, SaveView(c, v, default)
      PROVE  Directed'
  <2>1. PICK seen : seen = IF default = "default" THEN {w \in View : view[w] # "none"} ELSE {}
    OBVIOUS
  <2>2. PICK q : q = [op |-> "view", view |-> v, default |-> default, seen |-> seen]
    OBVIOUS
  <2>3. Considers(q)
    BY <2>1, <2>2 DEF Considers
  <2> QED
    BY <1>1, <2>1, <2>2, <2>3, DirectedReads DEF SaveView
<1>2. ASSUME NEW c \in Clerk, NEW v \in View, NEW default \in {"default", "plain", "keep"},
             UpdateView(c, v, default)
      PROVE  Directed'
  <2>1. PICK seen : seen = IF default = "default" THEN {w \in View \ {v} : view[w] # "none"} ELSE {}
    OBVIOUS
  <2>2. PICK flag : flag = IF default = "keep" THEN view[v] ELSE default
    OBVIOUS
  <2>3. PICK q : q = [op |-> "view", view |-> v, default |-> flag, seen |-> seen]
    OBVIOUS
  <2>4. flag = "default" => \A w \in View \ {v} : view[w] = "default" => w \in seen
    BY <2>1, <2>2 DEF Directed, OneDefault
  <2>5. Considers(q)
    BY <2>3, <2>4 DEF Considers
  <2> QED
    BY <1>2, <2>1, <2>2, <2>3, <2>5, DirectedReads DEF UpdateView
<1>3. ASSUME NEW v \in View, DeleteView(v) PROVE Directed'
  <2>1. OneDefault'
    BY <1>3 DEF DeleteView, Directed, OneDefault
  <2> QED
    BY <1>3, <2>1, DirectedAround DEF DeleteView, Directed, SomebodyActive, IsActive
<1> QED
  BY <1>1, <1>2, <1>3 DEF ViewsBegin

LEMMA DirectedResumes ==
  ASSUME Filed, Directed, DirectoryResume
  PROVE  Directed'
<1> USE FiledTypes
<1>0. ASSUME NEW c \in Clerk
      PROVE  work[c] \in Working /\ Considers(work[c])
  BY DEF Directed
<1>a. Considers(Idle) /\ Considers(Idle)'
  BY DEF Considers, Idle
<1>1. ASSUME NEW c \in Clerk, InsertUser(c) PROVE Directed'
  <2>1. PICK x : x = [active |-> TRUE, groups |-> work[c].groups]
    OBVIOUS
  <2>2. x # Absent /\ x.active
    <3>1. work[c].groups \in SUBSET Group
      BY <1>0, <1>1, WorkFields DEF InsertUser
    <3>2. x \in UserRow /\ x.active
      BY <2>1, <3>1 DEF UserRow
    <3> QED
      BY <3>2, RowsAreThere
  <2>3. UNCHANGED user \/ user' = [user EXCEPT ![work[c].user] = x]
    BY <1>1, <2>1 DEF InsertUser
  <2>4. SomebodyActive'
    BY <2>2, <2>3 DEF Directed, SomebodyActive, IsActive
  <2>5. OneDefault'
    BY <1>1 DEF InsertUser, Directed, OneDefault
  <2> QED
    BY <1>1, <1>a, <2>4, <2>5, DirectedMoves DEF InsertUser, Idle
<1>2. ASSUME NEW c \in Clerk, ClearGroups(c) PROVE Directed'
  <2>1. PICK v : v = work[c]
    OBVIOUS
  <2>2. v.op = "clearGroups" /\ Considers(v)
    BY <1>0, <1>2, <2>1 DEF ClearGroups
  <2>3. PICK seen : seen = IF user[v.user] = Absent THEN {} ELSE user[v.user].groups
    OBVIOUS
  <2>4. PICK q : q = [op |-> "joinGroups", user |-> v.user, active |-> v.active, groups |-> v.groups,
                      seen |-> seen]
    OBVIOUS
  <2>5. q.op = "joinGroups" /\ q.user = v.user /\ q.active = v.active
    BY <2>4
  <2>6. Considers(q)
    BY <2>2, <2>5 DEF Considers
  <2>7. Works(c, q) /\ UNCHANGED <<user, view>> /\ v # Idle
    BY <1>2, <2>1, <2>2, <2>3, <2>4 DEF ClearGroups, Idle
  <2> QED
    BY <2>1, <2>6, <2>7, DirectedReads
<1>3. ASSUME NEW c \in Clerk, JoinGroups(c) PROVE Directed'
  <2>1. PICK q : q = work[c]
    OBVIOUS
  <2>2. q.op = "joinGroups" /\ q.user \in User /\ q.active \in BOOLEAN /\ q.groups \in SUBSET Group
        /\ Considers(q)
    BY <1>0, <1>3, <2>1, WorkFields DEF JoinGroups
  <2>3. SomebodyActive'
    <3>1. CASE user[q.user] # Absent /\ q.groups \subseteq Present(group)
      <4>1. PICK x : x = [active |-> q.active, groups |-> (user[q.user].groups \ q.seen) \cup q.groups]
        OBVIOUS
      <4>2. x \in UserRow /\ x.active = q.active
        BY <2>2, <3>1, <4>1 DEF UserRow
      <4>3. user' = [user EXCEPT ![q.user] = x]
        BY <1>3, <2>1, <3>1, <4>1 DEF JoinGroups
      <4>4. CASE q.active
        BY <2>2, <4>2, <4>3, <4>4, RowsAreThere DEF SomebodyActive, IsActive
      <4>5. CASE ~q.active
        BY <2>2, <4>3, <4>5 DEF Considers, SomebodyActive, IsActive
      <4> QED
        BY <4>4, <4>5
    <3>2. CASE ~(user[q.user] # Absent /\ q.groups \subseteq Present(group))
      BY <1>3, <2>1, <3>2 DEF JoinGroups, Directed, SomebodyActive, IsActive
    <3> QED
      BY <3>1, <3>2
  <2>4. OneDefault'
    BY <1>3 DEF JoinGroups, Directed, OneDefault
  <2> QED
    BY <1>3, <1>a, <2>3, <2>4, DirectedMoves DEF JoinGroups, Idle
<1>4. ASSUME NEW c \in Clerk, SetRoles(c) \/ Grant(c) PROVE Directed'
  <2>1. UNCHANGED <<user, view>> /\ Works(c, Idle) /\ work[c] # Idle
    BY <1>4 DEF SetRoles, Grant, Idle
  <2> QED
    BY <1>a, <2>1, DirectedReads
<1>5. ASSUME NEW c \in Clerk, StoreView(c) PROVE Directed'
  <2>1. PICK q : q = work[c]
    OBVIOUS
  <2>2. q.op = "view" /\ q.view \in View /\ Considers(q)
    BY <1>0, <1>5, <2>1, WorkFields DEF StoreView
  <2>3. \A w \in View : view'[w] = IF w = q.view THEN q.default
                                  ELSE IF w \in q.seen /\ view[w] # "none" THEN "plain" ELSE view[w]
    BY <1>5, <2>1 DEF StoreView
  <2>4. OneDefault'
    BY <2>2, <2>3 DEF Considers, Directed, OneDefault
  <2>5. SomebodyActive'
    BY <1>5 DEF StoreView, Directed, SomebodyActive, IsActive
  <2> QED
    BY <1>5, <1>a, <2>4, <2>5, DirectedMoves DEF StoreView, Idle
<1> QED
  BY <1>1, <1>2, <1>3, <1>4, <1>5 DEF DirectoryResume

LEMMA DirectoryInvInit ==
  ASSUME OfficeInit PROVE DirectoryInv
<1>1. DirectoryInit
  BY DEF OfficeInit
<1>2. Filed
  BY <1>1, FiledInit
<1>3. \A c \in Clerk : work[c] = Idle
  BY <1>1 DEF DirectoryInit
<1>4. Considers(Idle)
  BY DEF Considers, Idle
<1>5. IsActive(Founder)
  <2>1. PICK g \in Group : user[Founder] = [active |-> TRUE, groups |-> {g}]
    BY <1>1, FounderAssumption DEF DirectoryInit
  <2>2. user[Founder] \in UserRow /\ user[Founder].active
    BY <2>1 DEF UserRow
  <2> QED
    BY <2>2, RowsAreThere DEF IsActive
<1>6. OneDefault
  BY <1>1 DEF DirectoryInit, OneDefault
<1>7. OneAtATime(work)
  BY <1>2, <1>3, FiledTypes DEF OneAtATime
<1> QED
  BY <1>2, <1>3, <1>4, <1>5, <1>6, <1>7, FounderAssumption DEF DirectoryInv, Directed

LEMMA DirectoryInvStep ==
  ASSUME DirectoryInv, [OfficeNext]_officeVars
  PROVE  DirectoryInv'
<1>1. Filed'
  BY FiledStep DEF DirectoryInv
<1>2. ASSUME alone, UNCHANGED directoryVars PROVE Directed'
  BY <1>2 DEF DirectoryInv, directoryVars, Directed, OneAtATime, OneDefault, IsActive, Considers
<1>3. alone => Directed'
  BY <1>2, OfficeStepsDirectory, DirectedBegins, DirectedViews, DirectedResumes DEF DirectoryInv
<1> QED
  BY <1>1, <1>3, OfficeStepsDirectory DEF DirectoryInv

\* However requests overlap no membership and no grant survives what it refers to; with
\* one request after the other an active user is left and a user has one default view.
THEOREM DirectoryAlwaysSafe == OfficeSpec => []DirectorySafe
<1>1. ASSUME OneDefault PROVE OneDefaultView
  <2>1. PICK s : s = {v \in View : view[v] = "default"}
    OBVIOUS
  <2>2. s = {} \/ \E v \in View : s = {v}
    BY <1>1, <2>1 DEF OneDefault
  <2>3. Cardinality(s) \in {0, 1}
    BY <2>2, FS_EmptySet, FS_Singleton
  <2> QED
    BY <2>1, <2>3 DEF OneDefaultView
<1>2. ASSUME Filed, Directed PROVE SomeoneActive
  BY <1>2, FiledTypes DEF SomeoneActive, Directed, IsActive, Present
<1>3. DirectoryInv => DirectorySafe
  BY <1>1, <1>2 DEF DirectoryInv, DirectorySafe, Filed, Directed
<1> QED
  BY <1>3, DirectoryInvInit, DirectoryInvStep, PTL DEF OfficeSpec

(***************************************************************************)
(* Attachments: requests in progress, and what rows and files say.         *)
(***************************************************************************)

Files == SUBSET Attachment
Verdict == {"clean", "pending", "blocked"}
Keeping ==
    {Idle}
      \cup [op : {"scan"}, files : Files, fresh : BOOLEAN, more : Files]
      \cup [op : {"record"}, files : Files, fresh : BOOLEAN, more : Files, verdict : Verdict]
      \cup [op : {"stream", "bulk", "find"}, files : Files]
      \cup [op : {"remove"}, purge : BOOLEAN, files : Files, left : Files]

\* A cleanup removes files of rows it has chosen.
Kept ==
    /\ AttachmentsTypeOK
    /\ keep \in [Slot -> Keeping]
    /\ \A p \in Slot : keep[p].op = "remove" => keep[p].left \subseteq keep[p].files

Uploading(p, a) == keep[p].op \in {"scan", "record"} /\ keep[p].fresh /\ a \in keep[p].files
Expired(a) == row[a].aged \/ (bin # Absent /\ bin.aged)
\* A row without its file, or on a cleanup's list, is past its retention time or exposed; a
\* file on its way in is nobody else's.
Covered ==
    /\ \A a \in Present(row) : a \notin disk \/ Listed(a) => Expired(a) \/ a \in exposed
    /\ bin = Absent => Present(row) = {}
    /\ \A a \in Present(row) : row[a].aged => row[a].deleted
    /\ bin # Absent /\ bin.aged => bin.deleted
    /\ \A p \in Slot, a \in Attachment : Uploading(p, a) =>
          /\ a \in disk /\ a \notin Present(row) /\ ~Listed(a)
          /\ \A o \in Slot : Uploading(o, a) => o = p

\* Where files are ahead of rows (an upload) or behind them (a cleanup), and nowhere else.
Fits(q) ==
    /\ q.op \in {"scan", "record"} /\ q.fresh =>
          bin # Absent /\ q.files \cap Present(row) = {} /\ disk = Present(row) \cup q.files
    /\ q.op \in {"scan", "record"} /\ ~q.fresh => disk = Present(row)
    /\ q.op \in {"stream", "bulk", "find"} => disk = Present(row)
    /\ q.op = "remove" =>
          /\ q.files \subseteq Present(row) /\ (q.purge => q.files = Present(row))
          /\ disk = Present(row) \ (q.files \ q.left)

Matched ==
    /\ OneAtATime(keep)
    /\ RowsAndFilesAgree
    /\ \A p \in Slot : Fits(keep[p])

AttachmentsInv == Kept /\ Covered /\ (alone => Matched)

LEMMA KeptRowsThere == Absent \notin AttachmentRow /\ Absent \notin Deleted
<1>1. DOMAIN Absent = {"gone"}
  BY DEF Absent
<1>2. /\ \A x \in AttachmentRow : "deleted" \in DOMAIN x
      /\ \A x \in Deleted : "deleted" \in DOMAIN x
  BY DEF AttachmentRow, Deleted
<1> QED
  BY <1>1, <1>2

LEMMA KeptBins ==
  ASSUME NEW d \in BOOLEAN, NEW x, x = [deleted |-> d, aged |-> FALSE]
  PROVE  x \in Deleted /\ x # Absent /\ x.deleted = d /\ ~x.aged
<1>1. x \in Deleted
  BY DEF Deleted
<1>2. x.deleted = d /\ ~x.aged
  OBVIOUS
<1> QED
  BY <1>1, <1>2, KeptRowsThere

LEMMA KeptTypes ==
  ASSUME Kept
  PROVE  /\ bin \in Deleted \cup {Absent} /\ row \in [Attachment -> AttachmentRow \cup {Absent}]
         /\ disk \subseteq Attachment /\ sweeping \in BOOLEAN /\ keep \in [Slot -> Keeping]
         /\ (keep["timer"] # Idle => sweeping) /\ "timer" \in Slot
         /\ Present(row) \in Files /\ exposed \subseteq Attachment
  BY DEF Kept, AttachmentsTypeOK, Slot, Present, Files

LEMMA KeepFields ==
  ASSUME NEW q \in Keeping
  PROVE  /\ q.op \in {"scan", "record", "stream", "bulk", "find", "remove"} => q.files \in Files
         /\ q.op \in {"scan", "record"} => q.fresh \in BOOLEAN /\ q.more \in Files
         /\ q.op = "record" => q.verdict \in Verdict
         /\ q.op = "remove" => q.purge \in BOOLEAN /\ q.left \in Files
  BY DEF Keeping, Idle

LEMMA KeptMoves ==
  ASSUME Kept, NEW p \in Slot, NEW q \in Keeping, Keeps(p, q),
         bin' \in Deleted \cup {Absent}, row' \in [Attachment -> AttachmentRow \cup {Absent}],
         disk' \subseteq Attachment, exposed' \subseteq Attachment, sweeping' \in BOOLEAN,
         keep'["timer"] # Idle => sweeping',
         q.op = "remove" => q.left \subseteq q.files
  PROVE  Kept'
<1>1. keep' \in [Slot -> Keeping]
  BY KeptTypes DEF Keeps
<1>2. \A o \in Slot : keep'[o].op = "remove" => keep'[o].left \subseteq keep'[o].files
  BY KeptTypes DEF Keeps, Kept
<1> QED
  BY <1>1, <1>2 DEF Kept, AttachmentsTypeOK

\* A request goes on: the timer's only while the flag is set.
LEMMA KeptGoesOn ==
  ASSUME Kept, NEW p \in Slot, NEW q \in Keeping, Keeps(p, q), p \in Keeper \/ keep[p] # Idle,
         bin' \in Deleted \cup {Absent}, row' \in [Attachment -> AttachmentRow \cup {Absent}],
         disk' \subseteq Attachment, exposed' \subseteq Attachment, sweeping' = sweeping,
         q.op = "remove" => q.left \subseteq q.files
  PROVE  Kept'
<1>1. keep'["timer"] # Idle => sweeping'
  BY KeptTypes, KeeperAssumption DEF Keeps
<1>2. sweeping' \in BOOLEAN
  BY KeptTypes
<1> QED
  BY <1>1, <1>2, KeptMoves

LEMMA KeptStays ==
  ASSUME Kept, UNCHANGED <<keep, sweeping>>, bin' \in Deleted \cup {Absent},
         row' \in [Attachment -> AttachmentRow \cup {Absent}], disk' \subseteq Attachment,
         exposed' \subseteq Attachment
  PROVE  Kept'
  BY KeptTypes DEF Kept, AttachmentsTypeOK

LEMMA RowsEdited ==
  ASSUME Kept, NEW a \in Attachment, NEW x \in AttachmentRow, Servable(a), row' = [row EXCEPT ![a] = x]
  PROVE  row' \in [Attachment -> AttachmentRow \cup {Absent}] /\ Present(row)' = Present(row)
<1>1. row' \in [Attachment -> AttachmentRow \cup {Absent}]
  BY KeptTypes
<1>2. \A b \in Attachment : row'[b] = Absent <=> row[b] = Absent
  BY KeptTypes, KeptRowsThere DEF Servable
<1> QED
  BY <1>1, <1>2, KeptTypes DEF Present

LEMMA RowsAge ==
  ASSUME Kept, Age
  PROVE  /\ row' \in [Attachment -> AttachmentRow \cup {Absent}] /\ Present(row)' = Present(row)
         /\ bin' \in Deleted \cup {Absent} /\ (bin' = Absent <=> bin = Absent)
<1>1. ASSUME NEW a \in Attachment
      PROVE  row'[a] \in AttachmentRow \cup {Absent} /\ (row'[a] = Absent <=> row[a] = Absent)
  <2>1. PICK x : x = [row[a] EXCEPT !.aged = TRUE]
    OBVIOUS
  <2>2. row[a] # Absent => x \in AttachmentRow
    BY <2>1, KeptTypes DEF AttachmentRow
  <2>3. row'[a] = IF row[a] # Absent /\ row[a].deleted THEN x ELSE row[a]
    BY <2>1 DEF Age
  <2> QED
    BY <2>2, <2>3, KeptTypes, KeptRowsThere
<1>2. row' \in [Attachment -> AttachmentRow \cup {Absent}] /\ Present(row)' = Present(row)
  <2>1. DOMAIN row' = Attachment /\ DOMAIN row = Attachment
    BY KeptTypes DEF Age
  <2>2. row' = [a \in Attachment |-> row'[a]]
    BY DEF Age
  <2> QED
    BY <1>1, <2>1, <2>2 DEF Present
<1>3. bin' \in Deleted \cup {Absent} /\ (bin' = Absent <=> bin = Absent)
  <2>1. PICK x : x = [bin EXCEPT !.aged = TRUE]
    OBVIOUS
  <2>2. bin # Absent => x \in Deleted
    BY <2>1, KeptTypes DEF Deleted
  <2>3. bin' = IF bin # Absent /\ bin.deleted THEN x ELSE bin
    BY <2>1 DEF Age
  <2> QED
    BY <2>2, <2>3, KeptTypes, KeptRowsThere
<1> QED
  BY <1>2, <1>3

LEMMA KeptBegins ==
  ASSUME Kept, AttachmentsBegin
  PROVE  Kept'
<1> USE KeptTypes
<1>0. Keeper \subseteq Slot
  BY DEF Slot
<1>1. ASSUME NEW p \in Keeper, NEW a \in Attachment, Upload(p, a) \/ Rescan(p, a) PROVE Kept'
  <2>1. PICK fresh \in BOOLEAN :
          Keeps(p, [op |-> "scan", files |-> {a}, fresh |-> fresh, more |-> {}])
    BY <1>1 DEF Upload, Rescan
  <2>2. PICK q : q = [op |-> "scan", files |-> {a}, fresh |-> fresh, more |-> {}]
    OBVIOUS
  <2>3. q \in Keeping /\ q.op = "scan"
    BY <2>2 DEF Keeping, Files
  <2>4. disk' \subseteq Attachment /\ UNCHANGED <<bin, row, sweeping, exposed>>
    BY <1>1 DEF Upload, Rescan
  <2> QED
    BY <1>0, <2>1, <2>2, <2>3, <2>4, KeptGoesOn
<1>2. ASSUME NEW p \in Keeper, NEW files \in Files, NEW op \in {"stream", "bulk", "find"},
             Keeps(p, [op |-> op, files |-> files]), UNCHANGED <<bin, row, disk, sweeping, exposed>>
      PROVE  Kept'
  <2>1. PICK q : q = [op |-> op, files |-> files]
    OBVIOUS
  <2>2. q \in Keeping /\ q.op # "remove"
    BY <2>1 DEF Keeping
  <2> QED
    BY <1>0, <1>2, <2>1, <2>2, KeptGoesOn
<1>3. ASSUME NEW p \in Keeper, NEW files \in SUBSET Attachment, Download(p, files) PROVE Kept'
  BY <1>2, <1>3 DEF Download, Files
<1>4. ASSUME NEW p \in Keeper, ManualCleanup(p) PROVE Kept'
  BY <1>2, <1>4 DEF ManualCleanup, Files
<1>5. ASSUME NEW p \in Keeper, BulkRescan(p) PROVE Kept'
  BY <1>2, <1>5 DEF BulkRescan, Files
<1>6. ASSUME NEW a \in Attachment, DeleteAttachment(a) PROVE Kept'
  <2>1. PICK x : x = [row[a] EXCEPT !.deleted = TRUE]
    OBVIOUS
  <2>2. x \in AttachmentRow
    BY <1>6, <2>1 DEF DeleteAttachment, Servable, AttachmentRow
  <2>3. row' = [row EXCEPT ![a] = x] /\ Servable(a)
    BY <1>6, <2>1 DEF DeleteAttachment
  <2> QED
    BY <1>6, <2>2, <2>3, RowsEdited, KeptStays DEF DeleteAttachment
<1>7. ASSUME NEW a \in Attachment, Override(a) PROVE Kept'
  <2>1. PICK x : x = [row[a] EXCEPT !.scan = "clean", !.overridden = TRUE]
    OBVIOUS
  <2>2. x \in AttachmentRow
    BY <1>7, <2>1 DEF Override, Servable, AttachmentRow
  <2>3. row' = [row EXCEPT ![a] = x] /\ Servable(a)
    BY <1>7, <2>1 DEF Override
  <2> QED
    BY <1>7, <2>2, <2>3, RowsEdited, KeptStays DEF Override
<1>8. CASE Recycle \/ Unrecycle
  <2>1. bin' \in Deleted
    <3>1. \A d \in BOOLEAN : [deleted |-> d, aged |-> FALSE] \in Deleted
      BY DEF Deleted
    <3> QED
      BY <1>8, <3>1 DEF Recycle, Unrecycle
  <2>2. exposed' \subseteq Attachment
    BY <1>8 DEF Recycle, Unrecycle, Present
  <2>3. UNCHANGED <<row, disk, sweeping, keep>>
    BY <1>8 DEF Recycle, Unrecycle
  <2> QED
    BY <2>1, <2>2, <2>3, KeptStays
<1>9. CASE Tick
  <2>1. [op |-> "find", files |-> {}] \in Keeping
    BY DEF Keeping, Files
  <2> QED
    BY <1>9, <2>1, KeptMoves DEF Tick
<1>10. CASE Age
  BY <1>10, RowsAge, KeptStays DEF Age
<1> QED
  BY <1>1, <1>3, <1>4, <1>5, <1>6, <1>7, <1>8, <1>9, <1>10 DEF AttachmentsBegin

LEMMA RecordedRows ==
  ASSUME Kept, NEW p \in Slot, RecordVerdict(p), NEW q, q = keep[p]
  PROVE  /\ q.op = "record" /\ q.files \in Files /\ q.more \in Files /\ q.fresh \in BOOLEAN
         /\ row' \in [Attachment -> AttachmentRow \cup {Absent}]
         /\ Present(row)' = IF q.fresh /\ bin # Absent THEN Present(row) \cup q.files ELSE Present(row)
<1>1. q \in Keeping /\ q.op = "record"
  BY KeptTypes DEF RecordVerdict
<1>2. q.files \in Files /\ q.more \in Files /\ q.fresh \in BOOLEAN /\ q.verdict \in Verdict
  BY <1>1, KeepFields
<1>3. PICK x : x = [deleted |-> FALSE, aged |-> FALSE, scan |-> q.verdict, overridden |-> FALSE]
  OBVIOUS
<1>4. x \in AttachmentRow
  BY <1>2, <1>3 DEF AttachmentRow, Verdict
<1>5. ASSUME NEW a \in Attachment
      PROVE  /\ row'[a] \in AttachmentRow \cup {Absent}
             /\ row'[a] = Absent <=> row[a] = Absent /\ ~(a \in q.files /\ q.fresh /\ bin # Absent)
  <2>1. PICK y : y = [row[a] EXCEPT !.scan = q.verdict, !.overridden = FALSE]
    OBVIOUS
  <2>2. row[a] # Absent => y \in AttachmentRow
    BY <1>2, <2>1, KeptTypes DEF AttachmentRow, Verdict
  <2>3. row'[a] = IF a \notin q.files THEN row[a]
                  ELSE IF q.fresh /\ bin # Absent THEN x
                  ELSE IF ~q.fresh /\ row[a] # Absent THEN y ELSE row[a]
    BY <1>3, <2>1 DEF RecordVerdict
  <2> QED
    BY <1>4, <2>2, <2>3, KeptTypes, KeptRowsThere
<1>6. DOMAIN row' = Attachment /\ row' = [a \in Attachment |-> row'[a]]
  BY DEF RecordVerdict
<1>7. row' \in [Attachment -> AttachmentRow \cup {Absent}]
  BY <1>5, <1>6
<1>8. Present(row)' = IF q.fresh /\ bin # Absent THEN Present(row) \cup q.files ELSE Present(row)
  <2>1. DOMAIN row = Attachment
    BY KeptTypes
  <2>2. CASE q.fresh /\ bin # Absent
    BY <1>2, <1>5, <1>6, <2>1, <2>2 DEF Present, Files
  <2>3. CASE ~(q.fresh /\ bin # Absent)
    BY <1>2, <1>5, <1>6, <2>1, <2>3 DEF Present, Files
  <2> QED
    BY <2>2, <2>3
<1> QED
  BY <1>1, <1>2, <1>7, <1>8

LEMMA KeptResumes ==
  ASSUME Kept, NEW p \in Slot,
         \/ ScanTarget(p) \/ ScanFile(p) \/ RecordVerdict(p) \/ Stream(p)
         \/ Find(p) \/ RemoveFile(p) \/ Purge(p) \/ KeeperLost(p)
  PROVE  Kept'
<1> USE KeptTypes
<1> PICK v : v = keep[p]
  OBVIOUS
<1>0. v \in Keeping /\ Idle \in Keeping /\ Idle.op = "idle"
  BY DEF Keeping, Idle
<1>1. CASE ScanTarget(p)
  <2>1. v.op = "bulk" /\ v.files \in Files /\ v # Idle
    BY <1>0, <1>1, KeepFields DEF ScanTarget, Idle
  <2>2. PICK a \in v.files :
          Keeps(p, IF a \in disk
                   THEN [op |-> "scan", files |-> {a}, fresh |-> FALSE, more |-> v.files \ {a}]
                   ELSE IF v.files \ {a} = {} THEN Idle ELSE [op |-> "bulk", files |-> v.files \ {a}])
    BY <1>1 DEF ScanTarget
  <2>3. PICK q, r : /\ q = [op |-> "scan", files |-> {a}, fresh |-> FALSE, more |-> v.files \ {a}]
                    /\ r = [op |-> "bulk", files |-> v.files \ {a}]
    OBVIOUS
  <2>4. q \in Keeping /\ r \in Keeping /\ q.op # "remove" /\ r.op # "remove"
    BY <2>1, <2>3 DEF Keeping, Files
  <2>5. Keeps(p, q) \/ Keeps(p, Idle) \/ Keeps(p, r)
    BY <2>2, <2>3
  <2>6. UNCHANGED <<bin, row, disk, sweeping, exposed>>
    BY <1>1 DEF ScanTarget
  <2> QED
    BY <1>0, <2>1, <2>4, <2>5, <2>6, KeptGoesOn
<1>2. CASE ScanFile(p)
  <2>1. v.op = "scan" /\ v.files \in Files /\ v.fresh \in BOOLEAN /\ v.more \in Files /\ v # Idle
    BY <1>0, <1>2, KeepFields DEF ScanFile, Idle
  <2>2. PICK verdict \in Verdict :
          Keeps(p, [op |-> "record", files |-> v.files, fresh |-> v.fresh, more |-> v.more,
                    verdict |-> verdict])
    BY <1>2 DEF ScanFile, Verdict
  <2>3. PICK q : q = [op |-> "record", files |-> v.files, fresh |-> v.fresh, more |-> v.more,
                      verdict |-> verdict]
    OBVIOUS
  <2>4. q \in Keeping /\ q.op # "remove"
    BY <2>1, <2>3 DEF Keeping
  <2>5. UNCHANGED <<bin, row, disk, sweeping, exposed>>
    BY <1>2 DEF ScanFile
  <2> QED
    BY <2>1, <2>2, <2>3, <2>4, <2>5, KeptGoesOn
<1>3. CASE RecordVerdict(p)
  <2>1. /\ v.op = "record" /\ v.more \in Files /\ v # Idle
        /\ row' \in [Attachment -> AttachmentRow \cup {Absent}]
    BY <1>3, RecordedRows DEF Idle
  <2>2. PICK q : q = [op |-> "bulk", files |-> v.more]
    OBVIOUS
  <2>3. q \in Keeping /\ q.op # "remove"
    BY <2>1, <2>2 DEF Keeping
  <2>4. Keeps(p, Idle) \/ Keeps(p, q)
    BY <1>3, <2>2 DEF RecordVerdict
  <2>5. UNCHANGED <<bin, disk, sweeping, exposed>>
    BY <1>3 DEF RecordVerdict
  <2> QED
    BY <1>0, <2>1, <2>3, <2>4, <2>5, KeptGoesOn
<1>4. CASE Stream(p)
  BY <1>0, <1>4, KeptGoesOn DEF Stream, Idle
<1>5. CASE Find(p)
  <2> DEFINE purge == bin # Absent /\ bin.aged
             files == {a \in Present(row) : row[a].aged \/ purge}
             q == [op |-> "remove", purge |-> purge, files |-> files, left |-> files]
  <2>1. Keeps(p, q) /\ UNCHANGED <<bin, row, disk, sweeping, exposed>> /\ v.op = "find"
    BY <1>5 DEF Find
  <2>2. purge \in BOOLEAN /\ files \in Files
    BY DEF Files
  <2> HIDE DEF purge, files
  <2>3. q \in Keeping /\ q.left \subseteq q.files
    BY <2>2 DEF Keeping
  <2> HIDE DEF q
  <2> QED
    BY <1>0, <2>1, <2>3, KeptGoesOn
<1>6. CASE RemoveFile(p)
  <2>1. v.op = "remove" /\ v.files \in Files /\ v.left \in Files /\ v.purge \in BOOLEAN /\ v # Idle
        /\ v.left \subseteq v.files
    BY <1>0, <1>6, KeepFields DEF RemoveFile, Idle, Kept
  <2>2. PICK a \in v.left : disk' = disk \ {a} /\ Keeps(p, [v EXCEPT !.left = v.left \ {a}])
    BY <1>6 DEF RemoveFile
  <2>3. PICK q : q = [v EXCEPT !.left = v.left \ {a}]
    OBVIOUS
  <2>4. v \in [op : {"remove"}, purge : BOOLEAN, files : Files, left : Files]
    BY <1>0, <2>1 DEF Keeping, Idle
  <2>5. q \in [op : {"remove"}, purge : BOOLEAN, files : Files, left : Files]
        /\ q.files = v.files /\ q.left = v.left \ {a}
    BY <2>1, <2>3, <2>4 DEF Files
  <2>6. q \in Keeping /\ q.left \subseteq q.files
    BY <2>1, <2>5 DEF Keeping
  <2>7. disk' \subseteq Attachment /\ UNCHANGED <<bin, row, sweeping, exposed>>
    BY <1>6, <2>2 DEF RemoveFile
  <2> QED
    BY <2>1, <2>2, <2>3, <2>6, <2>7, KeptGoesOn
<1>7. ASSUME Keeps(p, Idle), sweeping' = (sweeping /\ p # "timer") PROVE keep'["timer"] # Idle => sweeping'
  BY <1>7 DEF Keeps
<1>8. CASE Purge(p)
  <2>1. row' \in [Attachment -> AttachmentRow \cup {Absent}] /\ bin' \in Deleted \cup {Absent}
    BY <1>8 DEF Purge
  <2>2. /\ Keeps(p, Idle) /\ disk' = disk /\ sweeping' = (sweeping /\ p # "timer")
        /\ sweeping' \in BOOLEAN /\ exposed' \subseteq Attachment
    BY <1>8 DEF Purge
  <2> QED
    BY <1>0, <1>7, <2>1, <2>2, KeptMoves
<1>9. CASE KeeperLost(p)
  <2>1. /\ Keeps(p, Idle) /\ UNCHANGED <<bin, row, disk, exposed>> /\ sweeping' = (sweeping /\ p # "timer")
        /\ sweeping' \in BOOLEAN
    BY <1>9 DEF KeeperLost
  <2> QED
    BY <1>0, <1>7, <2>1, KeptMoves
<1> QED
  BY <1>1, <1>2, <1>3, <1>4, <1>5, <1>6, <1>8, <1>9

LEMMA KeptInit ==
  ASSUME AttachmentsInit PROVE Kept
<1>1. keep \in [Slot -> Keeping] /\ \A p \in Slot : keep[p] = Idle
  BY DEF AttachmentsInit, Keeping
<1>2. bin \in Deleted
  BY DEF AttachmentsInit, Deleted
<1> QED
  BY <1>1, <1>2 DEF AttachmentsInit, Kept, AttachmentsTypeOK, Idle, Slot

LEMMA OfficeStepsAttachments ==
  ASSUME [OfficeNext]_officeVars
  PROVE  /\ [AttachmentsNext]_attachmentVars
         /\ alone' = alone
         /\ alone => (Lone(keep) /\ AttachmentsBegin) \/ AttachmentsResume \/ UNCHANGED attachmentVars
<1>1. AttachmentsContend => AttachmentsBegin
  <2>1. SUFFICES ASSUME AttachmentsContend PROVE AttachmentsBegin
    OBVIOUS
  <2>2. PICK a : a = CHOOSE b \in Attachment : TRUE
    OBVIOUS
  <2>3. \/ \E p \in Keeper : \/ Upload(p, a) \/ Rescan(p, a) \/ Download(p, {a})
                             \/ ManualCleanup(p) \/ BulkRescan(p)
        \/ DeleteAttachment(a) \/ Override(a) \/ Recycle \/ Unrecycle \/ Tick \/ Age
    BY <2>1, <2>2 DEF AttachmentsContend
  <2>4. a \in Attachment /\ {a} \in SUBSET Attachment
    BY <2>2, KeeperAssumption
  <2> QED
    BY <2>3, <2>4 DEF AttachmentsBegin
<1> QED
  BY <1>1 DEF OfficeNext, officeVars, AccountsTurn, DirectoryTurn, AttachmentsTurn, EventsTurn,
              AttachmentsNext

LEMMA KeptStep ==
  ASSUME Kept, [AttachmentsNext]_attachmentVars
  PROVE  Kept'
<1>1. CASE UNCHANGED attachmentVars
  BY <1>1, KeptTypes, KeptStays DEF attachmentVars
<1> QED
  BY <1>1, KeptBegins, KeptResumes DEF AttachmentsNext, AttachmentsResume
LEMMA KeptTurn ==
  ASSUME Kept, [OfficeNext]_officeVars
  PROVE  Kept'
  BY OfficeStepsAttachments, KeptStep


(***************************************************************************)
(* Covered: whatever overlaps, restores included, and dies.                *)
(***************************************************************************)

\* Slots that list nothing new and upload nothing new leave it alone while rows and files
\* stay as they are.
LEMMA CoveredMoves ==
  ASSUME Kept, Covered, NEW p \in Slot, NEW q \in Keeping, Keeps(p, q),
         UNCHANGED <<bin, row, disk, exposed>>,
         q.op = "remove" => keep[p].op = "remove" /\ q.files = keep[p].files,
         q.op \in {"scan", "record"} /\ q.fresh =>
            keep[p].op \in {"scan", "record"} /\ keep[p].fresh /\ q.files = keep[p].files
  PROVE  Covered'
<1> USE KeptTypes
<1>1. \A o \in Slot : keep'[o] = IF o = p THEN q ELSE keep[o]
  BY DEF Keeps
<1>2. \A a \in Attachment : Listed(a)' => Listed(a)
  BY <1>1 DEF Listed
<1>3. \A o \in Slot, a \in Attachment : Uploading(o, a)' => Uploading(o, a)
  BY <1>1 DEF Uploading
<1>4. Present(row)' = Present(row) /\ Present(row) \subseteq Attachment
  BY DEF Present
<1>5. \A a \in Attachment : Expired(a)' = Expired(a)
  BY DEF Expired
<1>6. \A a \in Present(row)' : a \notin disk' \/ Listed(a)' => Expired(a)' \/ a \in exposed'
  BY <1>2, <1>4, <1>5 DEF Covered
<1>7. ASSUME NEW o \in Slot, NEW a \in Attachment, Uploading(o, a)'
      PROVE  /\ a \in disk' /\ a \notin Present(row)' /\ ~Listed(a)'
             /\ \A w \in Slot : Uploading(w, a)' => w = o
  BY <1>2, <1>3, <1>4, <1>7 DEF Covered
<1> QED
  BY <1>6, <1>7, <1>4 DEF Covered

\* Rows and the bin change, the requests and the disk do not.
LEMMA CoveredStays ==
  ASSUME Kept, Covered, UNCHANGED <<keep, disk>>, Present(row)' = Present(row),
         bin' = Absent <=> bin = Absent, exposed \subseteq exposed',
         \A a \in Present(row) : a \notin disk \/ Listed(a) => Expired(a)' \/ a \in exposed',
         \A a \in Present(row) : row'[a].aged => row'[a].deleted,
         bin' # Absent /\ bin'.aged => bin'.deleted
  PROVE  Covered'
<1>1. \A a \in Attachment : Listed(a)' = Listed(a)
  BY DEF Listed
<1>2. \A o \in Slot, a \in Attachment : Uploading(o, a)' = Uploading(o, a)
  BY DEF Uploading
<1>3. Present(row) \subseteq Attachment
  BY KeptTypes DEF Present
<1>4. ASSUME NEW o \in Slot, NEW a \in Attachment, Uploading(o, a)'
      PROVE  /\ a \in disk' /\ a \notin Present(row)' /\ ~Listed(a)'
             /\ \A w \in Slot : Uploading(w, a)' => w = o
  BY <1>1, <1>2, <1>4 DEF Covered
<1>5. \A a \in Present(row)' : a \notin disk' \/ Listed(a)' => Expired(a)' \/ a \in exposed'
  BY <1>1, <1>3
<1>6. bin' = Absent => Present(row)' = {}
  BY DEF Covered
<1> QED
  BY <1>4, <1>5, <1>6 DEF Covered

LEMMA CoveredBegins ==
  ASSUME Kept, Covered, AttachmentsBegin
  PROVE  Covered'
<1> USE KeptTypes
<1>0. Keeper \subseteq Slot /\ Present(row) \subseteq Attachment
  BY DEF Slot, Present
<1>1. ASSUME NEW p \in Keeper, NEW a \in Attachment, Upload(p, a) PROVE Covered'
  <2>1. PICK q : q = [op |-> "scan", files |-> {a}, fresh |-> TRUE, more |-> {}]
    OBVIOUS
  <2>2. q.op = "scan" /\ q.files = {a} /\ q.fresh
    BY <2>1
  <2>3. /\ keep[p] = Idle /\ a \notin disk /\ a \notin Present(row) /\ bin # Absent
        /\ \A o \in Slot : keep[o] # Idle => a \notin keep[o].files
        /\ disk' = disk \cup {a} /\ UNCHANGED <<bin, row, exposed>>
        /\ \A o \in Slot : keep'[o] = IF o = p THEN q ELSE keep[o]
    BY <1>0, <1>1, <2>1 DEF Upload, Keeps, Present, InReach
  <2>4. ~Listed(a) /\ \A o \in Slot : ~Uploading(o, a)
    BY <2>3 DEF Listed, Uploading, Idle
  <2>5. \A b \in Attachment : Listed(b)' = Listed(b)
    BY <1>0, <2>2, <2>3 DEF Listed, Idle
  <2>6. \A o \in Slot, b \in Attachment : Uploading(o, b)' => Uploading(o, b) \/ (o = p /\ b = a)
    BY <2>2, <2>3 DEF Uploading
  <2>7. Present(row)' = Present(row) /\ \A b \in Attachment : Expired(b)' = Expired(b)
    BY <2>3 DEF Present, Expired
  <2>8. \A b \in Present(row)' : b \notin disk' \/ Listed(b)' => Expired(b)' \/ b \in exposed'
    BY <1>0, <2>3, <2>5, <2>7 DEF Covered
  <2>9. ASSUME NEW o \in Slot, NEW b \in Attachment, Uploading(o, b)'
        PROVE  /\ b \in disk' /\ b \notin Present(row)' /\ ~Listed(b)'
               /\ \A w \in Slot : Uploading(w, b)' => w = o
    BY <2>3, <2>4, <2>5, <2>6, <2>7, <2>9 DEF Covered
  <2> QED
    BY <2>3, <2>7, <2>8, <2>9 DEF Covered
<1>2. ASSUME NEW p \in Keeper, NEW a \in Attachment, Rescan(p, a) PROVE Covered'
  <2>1. PICK q : q = [op |-> "scan", files |-> {a}, fresh |-> FALSE, more |-> {}]
    OBVIOUS
  <2>2. q \in Keeping /\ q.op = "scan" /\ ~q.fresh
    BY <2>1 DEF Keeping, Files
  <2> QED
    BY <1>0, <1>2, <2>1, <2>2, CoveredMoves DEF Rescan
<1>3. ASSUME NEW p \in Slot, NEW files \in Files, NEW op \in {"stream", "bulk", "find"},
             Keeps(p, [op |-> op, files |-> files]), UNCHANGED <<bin, row, disk, exposed>>
      PROVE  Covered'
  <2>1. PICK q : q = [op |-> op, files |-> files]
    OBVIOUS
  <2>2. q \in Keeping /\ q.op \notin {"remove", "scan", "record"}
    BY <2>1 DEF Keeping
  <2> QED
    BY <1>3, <2>1, <2>2, CoveredMoves
<1>4. ASSUME NEW p \in Keeper, NEW files \in SUBSET Attachment, Download(p, files) PROVE Covered'
  BY <1>0, <1>3, <1>4 DEF Download, Files
<1>5. ASSUME NEW p \in Keeper, ManualCleanup(p) \/ BulkRescan(p) PROVE Covered'
  BY <1>0, <1>3, <1>5 DEF ManualCleanup, BulkRescan, Files
<1>6. CASE Tick
  BY <1>3, <1>6 DEF Tick, Files
<1>7. ASSUME NEW a \in Attachment, DeleteAttachment(a) PROVE Covered'
  <2>1. PICK x : x = [row[a] EXCEPT !.deleted = TRUE]
    OBVIOUS
  <2>2. x \in AttachmentRow /\ x.deleted /\ x.aged = row[a].aged
    BY <1>7, <2>1 DEF DeleteAttachment, Servable, AttachmentRow
  <2>3. row' = [row EXCEPT ![a] = x] /\ Servable(a) /\ UNCHANGED <<bin, disk, keep, exposed>>
    BY <1>7, <2>1 DEF DeleteAttachment
  <2>4. Present(row)' = Present(row)
    BY <2>2, <2>3, RowsEdited
  <2>5. \A b \in Attachment : row'[b] = row[b] \/ (row'[b].deleted /\ row'[b].aged = row[b].aged)
    BY <2>2, <2>3
  <2>6. \A b \in Attachment : Expired(b)' = Expired(b)
    BY <2>3, <2>5 DEF Expired
  <2> QED
    BY <1>0, <2>3, <2>4, <2>5, <2>6, CoveredStays DEF Covered
<1>8. ASSUME NEW a \in Attachment, Override(a) PROVE Covered'
  <2>1. PICK x : x = [row[a] EXCEPT !.scan = "clean", !.overridden = TRUE]
    OBVIOUS
  <2>2. x \in AttachmentRow /\ x.deleted = row[a].deleted /\ x.aged = row[a].aged
    BY <1>8, <2>1 DEF Override, Servable, AttachmentRow
  <2>3. row' = [row EXCEPT ![a] = x] /\ Servable(a) /\ UNCHANGED <<bin, disk, keep, exposed>>
    BY <1>8, <2>1 DEF Override
  <2>4. Present(row)' = Present(row)
    BY <2>2, <2>3, RowsEdited
  <2>5. \A b \in Attachment : row'[b].deleted = row[b].deleted /\ row'[b].aged = row[b].aged
    BY <2>2, <2>3
  <2>6. \A b \in Attachment : Expired(b)' = Expired(b)
    BY <2>3, <2>5 DEF Expired
  <2> QED
    BY <1>0, <2>3, <2>4, <2>5, <2>6, CoveredStays DEF Covered
<1>9. CASE Recycle
  <2>1. /\ bin # Absent /\ ~bin.deleted /\ bin' = [deleted |-> TRUE, aged |-> FALSE]
        /\ UNCHANGED <<row, disk, keep, exposed>>
    BY <1>9 DEF Recycle, InReach
  <2>2. bin' # Absent /\ ~bin'.aged
    BY <2>1, KeptBins
  <2>3. \A a \in Present(row) : Expired(a) => Expired(a)'
    BY <2>1 DEF Covered, Expired
  <2>4. Present(row)' = Present(row)
    BY <2>1
  <2> QED
    BY <2>1, <2>2, <2>3, <2>4, CoveredStays DEF Covered
<1>10. CASE Unrecycle
  <2>1. /\ bin # Absent /\ bin' = [deleted |-> FALSE, aged |-> FALSE]
        /\ exposed' = exposed \cup {a \in Present(row) : bin.aged /\ (a \notin disk \/ Listed(a))}
        /\ UNCHANGED <<row, disk, keep>>
    BY <1>10 DEF Unrecycle
  <2>2. bin' # Absent /\ ~bin'.aged
    BY <2>1, KeptBins
  <2>3. \A a \in Present(row) : a \notin disk \/ Listed(a) => Expired(a)' \/ a \in exposed'
    BY <2>1 DEF Covered, Expired
  <2>4. Present(row)' = Present(row)
    BY <2>1
  <2> QED
    BY <2>1, <2>2, <2>3, <2>4, CoveredStays DEF Covered
<1>11. CASE Age
  <2>1. UNCHANGED <<disk, keep, exposed>>
    BY <1>11 DEF Age
  <2>2. ASSUME NEW a \in Present(row)
        PROVE  /\ row'[a].aged => row'[a].deleted
               /\ row[a].aged => row'[a].aged
    <3>1. PICK x : x = [row[a] EXCEPT !.aged = TRUE]
      OBVIOUS
    <3>2. row[a] \in AttachmentRow
      BY DEF Present
    <3>3. x.aged /\ x.deleted = row[a].deleted
      BY <3>1, <3>2 DEF AttachmentRow
    <3>4. row'[a] = IF row[a].deleted THEN x ELSE row[a]
      BY <1>0, <1>11, <3>1 DEF Age, Present
    <3> QED
      BY <3>3, <3>4 DEF Covered
  <2>3. bin # Absent => /\ bin'.aged => bin'.deleted
                        /\ bin.aged => bin'.aged
    <3>1. SUFFICES ASSUME bin # Absent PROVE (bin'.aged => bin'.deleted) /\ (bin.aged => bin'.aged)
      OBVIOUS
    <3>2. PICK x : x = [bin EXCEPT !.aged = TRUE]
      OBVIOUS
    <3>3. bin \in Deleted
      BY <3>1
    <3>4. x.aged /\ x.deleted = bin.deleted
      BY <3>2, <3>3 DEF Deleted
    <3>5. bin' = IF bin.deleted THEN x ELSE bin
      BY <1>11, <3>1, <3>2 DEF Age
    <3> QED
      BY <3>1, <3>4, <3>5 DEF Covered
  <2>4. Present(row)' = Present(row) /\ (bin' = Absent <=> bin = Absent)
    BY <1>11, RowsAge
  <2>5. \A a \in Present(row) : Expired(a) => Expired(a)'
    BY <2>2, <2>3, <2>4 DEF Expired
  <2> QED
    BY <2>1, <2>2, <2>3, <2>4, <2>5, CoveredStays DEF Covered
<1> QED
  BY <1>1, <1>2, <1>4, <1>5, <1>6, <1>7, <1>8, <1>9, <1>10, <1>11 DEF AttachmentsBegin

LEMMA CoveredResumes ==
  ASSUME Kept, Covered, NEW p \in Slot,
         \/ ScanTarget(p) \/ ScanFile(p) \/ RecordVerdict(p) \/ Stream(p)
         \/ Find(p) \/ RemoveFile(p) \/ Purge(p) \/ KeeperLost(p)
  PROVE  Covered'
<1> USE KeptTypes
<1> PICK v : v = keep[p]
  OBVIOUS
<1>0. /\ v \in Keeping /\ Idle \in Keeping /\ Idle.op = "idle"
      /\ Present(row) = {a \in Attachment : row[a] # Absent}
  BY DEF Keeping, Idle, Present
<1>1. CASE ScanTarget(p)
  <2>1. v.op = "bulk" /\ v.files \in Files
    BY <1>0, <1>1, KeepFields DEF ScanTarget
  <2>2. PICK a \in v.files :
          Keeps(p, IF a \in disk
                   THEN [op |-> "scan", files |-> {a}, fresh |-> FALSE, more |-> v.files \ {a}]
                   ELSE IF v.files \ {a} = {} THEN Idle ELSE [op |-> "bulk", files |-> v.files \ {a}])
    BY <1>1 DEF ScanTarget
  <2>3. PICK q, o : /\ q = [op |-> "scan", files |-> {a}, fresh |-> FALSE, more |-> v.files \ {a}]
                    /\ o = [op |-> "bulk", files |-> v.files \ {a}]
    OBVIOUS
  <2>4. q \in Keeping /\ o \in Keeping /\ q.op = "scan" /\ ~q.fresh /\ o.op = "bulk"
    BY <2>1, <2>3 DEF Keeping, Files
  <2>5. Keeps(p, q) \/ Keeps(p, Idle) \/ Keeps(p, o)
    BY <2>2, <2>3
  <2> QED
    BY <1>0, <1>1, <2>4, <2>5, CoveredMoves DEF ScanTarget
<1>2. CASE ScanFile(p)
  <2>1. v.op = "scan" /\ v.files \in Files /\ v.fresh \in BOOLEAN /\ v.more \in Files
    BY <1>0, <1>2, KeepFields DEF ScanFile
  <2>2. PICK verdict \in Verdict :
          Keeps(p, [op |-> "record", files |-> v.files, fresh |-> v.fresh, more |-> v.more,
                    verdict |-> verdict])
    BY <1>2 DEF ScanFile, Verdict
  <2>3. PICK q : q = [op |-> "record", files |-> v.files, fresh |-> v.fresh, more |-> v.more,
                      verdict |-> verdict]
    OBVIOUS
  <2>4. q \in Keeping /\ q.op = "record" /\ q.fresh = v.fresh /\ q.files = v.files
    BY <2>1, <2>3 DEF Keeping
  <2> QED
    BY <1>2, <2>1, <2>2, <2>3, <2>4, CoveredMoves DEF ScanFile
<1>3. CASE RecordVerdict(p)
  <2>1. /\ v.op = "record" /\ v.files \in Files /\ v.fresh \in BOOLEAN
        /\ Present(row)' = IF v.fresh /\ bin # Absent THEN Present(row) \cup v.files ELSE Present(row)
    BY <1>3, RecordedRows
  <2>2. PICK q : q = [op |-> "bulk", files |-> v.more]
    OBVIOUS
  <2>3. q.op = "bulk" /\ (Keeps(p, Idle) \/ Keeps(p, q)) /\ UNCHANGED <<bin, disk, exposed>>
    BY <1>3, <2>2 DEF RecordVerdict
  <2>4. /\ \A o \in Slot : o # p => keep'[o] = keep[o]
        /\ keep'[p].op \in {"idle", "bulk"}
    BY <1>0, <2>3 DEF Keeps
  <2>5. \A a \in Attachment : Listed(a)' => Listed(a)
    BY <2>4 DEF Listed
  <2>6. \A o \in Slot, a \in Attachment : Uploading(o, a)' => Uploading(o, a) /\ o # p
    BY <2>1, <2>4 DEF Uploading
  <2>7. \A a \in v.files : v.fresh => Uploading(p, a)
    BY <2>1 DEF Uploading
  <2>8. ASSUME NEW a \in Present(row)'
        PROVE  /\ row'[a].aged => row'[a].deleted
               /\ a \notin disk' \/ Listed(a)' => Expired(a)' \/ a \in exposed'
    <3>0. a \in Attachment
      BY <1>0, <2>1 DEF Files
    <3>1. CASE v.fresh /\ bin # Absent /\ a \in v.files
      <4>1. PICK x : x = [deleted |-> FALSE, aged |-> FALSE, scan |-> v.verdict, overridden |-> FALSE]
        OBVIOUS
      <4>2. row'[a] = x /\ ~x.aged
        BY <1>3, <3>0, <3>1, <4>1 DEF RecordVerdict
      <4>3. a \in disk /\ ~Listed(a)
        BY <2>7, <3>0, <3>1 DEF Covered
      <4> QED
        BY <2>3, <2>5, <3>0, <4>2, <4>3
    <3>2. CASE ~(v.fresh /\ bin # Absent /\ a \in v.files)
      <4>1. a \in Present(row) /\ row[a] \in AttachmentRow
        BY <2>1, <3>2 DEF Present
      <4>2. PICK y : y = [row[a] EXCEPT !.scan = v.verdict, !.overridden = FALSE]
        OBVIOUS
      <4>3. y.aged = row[a].aged /\ y.deleted = row[a].deleted
        BY <4>1, <4>2 DEF AttachmentRow
      <4>4. row'[a] = row[a] \/ row'[a] = y
        BY <1>3, <3>0, <3>2, <4>2 DEF RecordVerdict
      <4>5. row'[a].aged = row[a].aged /\ row'[a].deleted = row[a].deleted
        BY <4>3, <4>4
      <4>6. Expired(a)' = Expired(a)
        BY <2>3, <4>5 DEF Expired
      <4> QED
        BY <2>3, <2>5, <3>0, <4>1, <4>5, <4>6 DEF Covered
    <3> QED
      BY <3>1, <3>2
  <2>9. ASSUME NEW o \in Slot, NEW a \in Attachment, Uploading(o, a)'
        PROVE  /\ a \in disk' /\ a \notin Present(row)' /\ ~Listed(a)'
               /\ \A w \in Slot : Uploading(w, a)' => w = o
    <3>1. Uploading(o, a) /\ o # p
      BY <2>6, <2>9
    <3>2. v.fresh => a \notin v.files
      BY <2>7, <3>1 DEF Covered
    <3> QED
      BY <2>1, <2>3, <2>5, <2>6, <3>1, <3>2 DEF Covered
  <2>10. bin' = Absent => Present(row)' = {}
    BY <2>1, <2>3 DEF Covered
  <2>11. bin' # Absent /\ bin'.aged => bin'.deleted
    BY <2>3 DEF Covered
  <2> QED
    BY <2>8, <2>9, <2>10, <2>11 DEF Covered
<1>4. CASE Stream(p)
  BY <1>0, <1>4, CoveredMoves DEF Stream
<1>5. CASE Find(p)
  <2> DEFINE purge == bin # Absent /\ bin.aged
             files == {a \in Present(row) : row[a].aged \/ purge}
             q == [op |-> "remove", purge |-> purge, files |-> files, left |-> files]
  <2>1. Keeps(p, q) /\ UNCHANGED <<bin, row, disk, exposed>> /\ v.op = "find"
    BY <1>5 DEF Find
  <2>2. files \subseteq Present(row) /\ \A a \in files : Expired(a)
    BY DEF Expired
  <2> HIDE DEF purge, files
  <2>3. q.op = "remove" /\ q.files = files
    OBVIOUS
  <2> HIDE DEF q
  <2>4. \A o \in Slot : keep'[o] = IF o = p THEN q ELSE keep[o]
    BY <2>1 DEF Keeps
  <2>5. \A a \in Attachment : Listed(a)' => Listed(a) \/ a \in files
    BY <2>3, <2>4 DEF Listed
  <2>6. \A o \in Slot, a \in Attachment : Uploading(o, a)' => Uploading(o, a)
    BY <2>3, <2>4 DEF Uploading
  <2>7. /\ Present(row)' = Present(row)
        /\ \A a \in Attachment : Expired(a)' = Expired(a)
    BY <2>1 DEF Present, Expired
  <2>8. \A a \in Present(row)' : a \notin disk' \/ Listed(a)' => Expired(a)' \/ a \in exposed'
    BY <1>0, <2>1, <2>2, <2>5, <2>7 DEF Covered
  <2>9. ASSUME NEW o \in Slot, NEW a \in Attachment, Uploading(o, a)'
        PROVE  /\ a \in disk' /\ a \notin Present(row)' /\ ~Listed(a)'
               /\ \A w \in Slot : Uploading(w, a)' => w = o
    BY <2>1, <2>2, <2>5, <2>6, <2>7, <2>9 DEF Covered
  <2> QED
    BY <2>1, <2>7, <2>8, <2>9 DEF Covered
<1>6. CASE RemoveFile(p)
  <2>1. v.op = "remove" /\ v.left \subseteq v.files
    BY <1>6 DEF RemoveFile, Kept
  <2>2. PICK a \in v.left : disk' = disk \ {a} /\ Keeps(p, [v EXCEPT !.left = v.left \ {a}])
    BY <1>6 DEF RemoveFile
  <2>3. PICK q : q = [v EXCEPT !.left = v.left \ {a}]
    OBVIOUS
  <2>4. v \in [op : {"remove"}, purge : BOOLEAN, files : Files, left : Files]
    BY <1>0, <2>1 DEF Keeping, Idle
  <2>5. q.op = "remove" /\ q.files = v.files
    BY <2>3, <2>4
  <2>6. UNCHANGED <<bin, row, exposed>> /\ \A o \in Slot : keep'[o] = IF o = p THEN q ELSE keep[o]
    BY <1>6, <2>2, <2>3 DEF RemoveFile, Keeps
  <2>7. \A b \in Attachment : Listed(b)' = Listed(b)
    BY <2>1, <2>5, <2>6 DEF Listed
  <2>8. \A o \in Slot, b \in Attachment : Uploading(o, b)' => Uploading(o, b)
    BY <2>5, <2>6 DEF Uploading
  <2>9. Listed(a) /\ a \in Attachment
    BY <2>1, <2>4 DEF Listed, Files
  <2>10. /\ Present(row)' = Present(row)
         /\ \A b \in Attachment : Expired(b)' = Expired(b)
    BY <2>6 DEF Present, Expired
  <2>11. \A b \in Present(row)' : b \notin disk' \/ Listed(b)' => Expired(b)' \/ b \in exposed'
    BY <1>0, <2>2, <2>6, <2>7, <2>9, <2>10 DEF Covered
  <2>12. ASSUME NEW o \in Slot, NEW b \in Attachment, Uploading(o, b)'
         PROVE  /\ b \in disk' /\ b \notin Present(row)' /\ ~Listed(b)'
                /\ \A w \in Slot : Uploading(w, b)' => w = o
    BY <2>2, <2>7, <2>8, <2>9, <2>10, <2>12 DEF Covered
  <2> QED
    BY <2>6, <2>10, <2>11, <2>12 DEF Covered
<1>7. CASE Purge(p)
  <2>1. /\ v.op = "remove" /\ Keeps(p, Idle) /\ disk' = disk
        /\ bin' = IF v.purge THEN Absent ELSE bin
        /\ exposed' = exposed \cap Present(row')
    BY <1>7 DEF Purge
  <2>2. DOMAIN row = Attachment /\ DOMAIN row' = Attachment
        /\ \A a \in Attachment : row'[a] = IF v.purge \/ a \in v.files THEN Absent ELSE row[a]
    BY <1>7 DEF Purge
  <2>3. Present(row)' = IF v.purge THEN {} ELSE Present(row) \ v.files
    BY <2>2 DEF Present
  <2>4. \A o \in Slot : keep'[o] = IF o = p THEN Idle ELSE keep[o]
    BY <2>1 DEF Keeps
  <2>5. \A a \in Attachment : Listed(a)' => Listed(a)
    BY <1>0, <2>4 DEF Listed
  <2>6. \A o \in Slot, a \in Attachment : Uploading(o, a)' => Uploading(o, a)
    BY <1>0, <2>4 DEF Uploading
  <2>7. ASSUME NEW a \in Present(row)'
        PROVE  /\ row'[a].aged => row'[a].deleted
               /\ a \notin disk' \/ Listed(a)' => Expired(a)' \/ a \in exposed'
    <3>1. a \in Present(row) /\ a \in Attachment /\ row'[a] = row[a] /\ bin' = bin
      BY <1>0, <2>1, <2>2, <2>3
    <3>2. a \in exposed => a \in exposed'
      BY <2>1, <2>7
    <3> QED
      BY <2>1, <2>5, <3>1, <3>2 DEF Covered, Expired
  <2>8. ASSUME NEW o \in Slot, NEW a \in Attachment, Uploading(o, a)'
        PROVE  /\ a \in disk' /\ a \notin Present(row)' /\ ~Listed(a)'
               /\ \A w \in Slot : Uploading(w, a)' => w = o
    BY <2>1, <2>3, <2>5, <2>6, <2>8 DEF Covered
  <2>9. bin' = Absent => Present(row)' = {}
    BY <2>1, <2>3 DEF Covered
  <2>10. bin' # Absent /\ bin'.aged => bin'.deleted
    BY <2>1 DEF Covered
  <2> QED
    BY <2>7, <2>8, <2>9, <2>10 DEF Covered
<1>8. CASE KeeperLost(p)
  BY <1>0, <1>8, CoveredMoves DEF KeeperLost
<1> QED
  BY <1>1, <1>2, <1>3, <1>4, <1>5, <1>6, <1>7, <1>8

LEMMA CoveredStep ==
  ASSUME Kept, Covered, [AttachmentsNext]_attachmentVars
  PROVE  Covered'
<1>1. CASE UNCHANGED attachmentVars
  BY <1>1 DEF attachmentVars, Covered, Listed, Uploading, Expired, Present
<1> QED
  BY <1>1, CoveredBegins, CoveredResumes DEF AttachmentsNext, AttachmentsResume

LEMMA CoveredServes ==
  ASSUME Kept, Covered
  PROVE  FilesKept
<1>1. SUFFICES ASSUME InReach, NEW a \in Attachment, Servable(a) PROVE a \in disk \cup exposed
  BY DEF FilesKept
<1>2. a \in Present(row) /\ ~row[a].deleted /\ ~bin.deleted
  BY <1>1, KeptTypes DEF Servable, Present, InReach
<1>3. ~Expired(a)
  BY <1>1, <1>2 DEF Covered, Expired, InReach
<1> QED
  BY <1>2, <1>3 DEF Covered

(***************************************************************************)
(* Matched: with one request after the other.                              *)
(***************************************************************************)

LEMMA MatchedMoves ==
  ASSUME Kept, Matched, NEW p \in Slot, keep[p] # Idle \/ Lone(keep), NEW q, Keeps(p, q),
         Fits(q)', q = Idle => disk' = Present(row)'
  PROVE  Matched'
<1>1. DOMAIN keep = Slot /\ \A o \in Slot \ {p} : keep[o] = Idle
  BY KeptTypes DEF Matched, OneAtATime, Lone
<1>2. DOMAIN keep' = Slot /\ keep'[p] = q /\ \A o \in Slot \ {p} : keep'[o] = Idle
  BY <1>1 DEF Keeps
<1>3. OneAtATime(keep)'
  BY <1>2 DEF OneAtATime
<1>4. Fits(Idle)'
  BY DEF Fits, Idle
<1>5. \A o \in Slot : Fits(keep[o])'
  BY <1>2, <1>4
<1>6. RowsAndFilesAgree'
  BY <1>2 DEF RowsAndFilesAgree, Lone
<1> QED
  BY <1>3, <1>5, <1>6 DEF Matched

LEMMA MatchedAround ==
  ASSUME Kept, Matched, Lone(keep), UNCHANGED keep, disk' = Present(row)'
  PROVE  Matched'
<1>1. \A p \in Slot : keep[p] = Idle
  BY KeptTypes DEF Lone
<1>2. Fits(Idle)'
  BY DEF Fits, Idle
<1> QED
  BY <1>1, <1>2 DEF Matched, OneAtATime, RowsAndFilesAgree

LEMMA MatchedBegins ==
  ASSUME Kept, Matched, Lone(keep), AttachmentsBegin
  PROVE  Matched'
<1> USE KeptTypes
<1>0. Keeper \subseteq Slot /\ disk = Present(row)
  BY DEF Slot, Matched, RowsAndFilesAgree
<1>1. ASSUME NEW p \in Slot, NEW q, Keeps(p, q), q.op \in {"stream", "bulk", "find"},
             UNCHANGED <<row, disk>>
      PROVE  Matched'
  <2>1. Fits(q)'
    BY <1>0, <1>1 DEF Fits
  <2> QED
    BY <1>0, <1>1, <2>1, MatchedMoves
<1>2. ASSUME NEW p \in Keeper, NEW a \in Attachment, Upload(p, a) PROVE Matched'
  <2>1. PICK q : q = [op |-> "scan", files |-> {a}, fresh |-> TRUE, more |-> {}]
    OBVIOUS
  <2>2. q.op = "scan" /\ q.files = {a} /\ q.fresh
    BY <2>1
  <2>3. Fits(q)' /\ q # Idle
    BY <1>0, <1>2, <2>2 DEF Upload, Fits, InReach, Present, Idle
  <2> QED
    BY <1>0, <1>2, <2>1, <2>3, MatchedMoves DEF Upload
<1>3. ASSUME NEW p \in Keeper, NEW a \in Attachment, Rescan(p, a) PROVE Matched'
  <2>1. PICK q : q = [op |-> "scan", files |-> {a}, fresh |-> FALSE, more |-> {}]
    OBVIOUS
  <2>2. q.op = "scan" /\ ~q.fresh
    BY <2>1
  <2>3. Fits(q)' /\ q # Idle
    BY <1>0, <1>3, <2>2 DEF Rescan, Fits, Idle
  <2> QED
    BY <1>0, <1>3, <2>1, <2>3, MatchedMoves DEF Rescan
<1>4. ASSUME NEW p \in Keeper, NEW files \in SUBSET Attachment, Download(p, files) PROVE Matched'
  BY <1>0, <1>1, <1>4 DEF Download
<1>5. ASSUME NEW p \in Keeper, ManualCleanup(p) \/ BulkRescan(p) PROVE Matched'
  BY <1>0, <1>1, <1>5 DEF ManualCleanup, BulkRescan
<1>6. CASE Tick
  BY <1>1, <1>6 DEF Tick
<1>7. ASSUME NEW a \in Attachment, DeleteAttachment(a) PROVE Matched'
  <2>1. PICK x : x = [row[a] EXCEPT !.deleted = TRUE]
    OBVIOUS
  <2>2. x \in AttachmentRow
    BY <1>7, <2>1 DEF DeleteAttachment, Servable, AttachmentRow
  <2>3. row' = [row EXCEPT ![a] = x] /\ Servable(a) /\ UNCHANGED <<disk, keep>>
    BY <1>7, <2>1 DEF DeleteAttachment
  <2> QED
    BY <1>0, <2>2, <2>3, RowsEdited, MatchedAround
<1>8. ASSUME NEW a \in Attachment, Override(a) PROVE Matched'
  <2>1. PICK x : x = [row[a] EXCEPT !.scan = "clean", !.overridden = TRUE]
    OBVIOUS
  <2>2. x \in AttachmentRow
    BY <1>8, <2>1 DEF Override, Servable, AttachmentRow
  <2>3. row' = [row EXCEPT ![a] = x] /\ Servable(a) /\ UNCHANGED <<disk, keep>>
    BY <1>8, <2>1 DEF Override
  <2> QED
    BY <1>0, <2>2, <2>3, RowsEdited, MatchedAround
<1>9. CASE Recycle \/ Unrecycle
  BY <1>0, <1>9, MatchedAround DEF Recycle, Unrecycle
<1>10. CASE Age
  BY <1>0, <1>10, RowsAge, MatchedAround DEF Age
<1> QED
  BY <1>2, <1>3, <1>4, <1>5, <1>6, <1>7, <1>8, <1>9, <1>10 DEF AttachmentsBegin

LEMMA MatchedResumes ==
  ASSUME Kept, Matched, AttachmentsResume
  PROVE  Matched'
<1> USE KeptTypes
<1>0. ASSUME NEW p \in Slot
      PROVE  keep[p] \in Keeping /\ Fits(keep[p])
  BY DEF Matched
<1>1. ASSUME NEW p \in Slot, NEW q, Keeps(p, q), keep[p] # Idle,
             q = Idle \/ q.op \in {"stream", "bulk", "find"}, disk' = Present(row)'
      PROVE  Matched'
  <2>1. Fits(q)'
    BY <1>1 DEF Fits, Idle
  <2> QED
    BY <1>1, <2>1, MatchedMoves
<1>2. ASSUME NEW p \in Slot, ScanTarget(p) PROVE Matched'
  <2>1. keep[p].op = "bulk" /\ keep[p] # Idle /\ disk = Present(row) /\ UNCHANGED <<row, disk>>
    BY <1>0, <1>2 DEF ScanTarget, Fits, Idle
  <2>2. PICK a, more :
          Keeps(p, IF a \in disk THEN [op |-> "scan", files |-> {a}, fresh |-> FALSE, more |-> more]
                   ELSE IF more = {} THEN Idle ELSE [op |-> "bulk", files |-> more])
    BY <1>2 DEF ScanTarget
  <2>3. PICK q : q = [op |-> "scan", files |-> {a}, fresh |-> FALSE, more |-> more]
    OBVIOUS
  <2>4. q.op = "scan" /\ ~q.fresh
    BY <2>3
  <2>5. Fits(q)' /\ q # Idle
    BY <2>1, <2>4 DEF Fits, Idle
  <2>6. CASE a \in disk
    BY <2>1, <2>2, <2>3, <2>5, <2>6, MatchedMoves
  <2>7. CASE a \notin disk
    BY <1>1, <2>1, <2>2, <2>7
  <2> QED
    BY <2>6, <2>7
<1>3. ASSUME NEW p \in Slot, ScanFile(p) PROVE Matched'
  <2>1. PICK v : v = keep[p]
    OBVIOUS
  <2>2. v.op = "scan" /\ v # Idle /\ Fits(v) /\ UNCHANGED <<bin, row, disk>> /\ v.fresh \in BOOLEAN
    BY <1>0, <1>3, <2>1, KeepFields DEF ScanFile, Idle
  <2>3. PICK verdict \in Verdict :
          Keeps(p, [op |-> "record", files |-> v.files, fresh |-> v.fresh, more |-> v.more,
                    verdict |-> verdict])
    BY <1>3, <2>1 DEF ScanFile, Verdict
  <2>4. PICK q : q = [op |-> "record", files |-> v.files, fresh |-> v.fresh, more |-> v.more,
                      verdict |-> verdict]
    OBVIOUS
  <2>5. q.op = "record" /\ q.files = v.files /\ q.fresh = v.fresh
    BY <2>4
  <2>6. Fits(q)' /\ q # Idle
    BY <2>2, <2>5 DEF Fits, Idle
  <2> QED
    BY <2>1, <2>2, <2>3, <2>4, <2>6, MatchedMoves
<1>4. ASSUME NEW p \in Slot, RecordVerdict(p) PROVE Matched'
  <2>1. PICK v : v = keep[p]
    OBVIOUS
  <2>2. /\ v.op = "record" /\ v # Idle /\ v.fresh \in BOOLEAN /\ Fits(v)
        /\ Present(row)' = IF v.fresh /\ bin # Absent THEN Present(row) \cup v.files ELSE Present(row)
    BY <1>0, <1>4, <2>1, RecordedRows DEF Idle
  <2>3. disk' = Present(row)'
    BY <1>4, <2>2 DEF Fits, RecordVerdict
  <2>4. PICK q : q = [op |-> "bulk", files |-> v.more]
    OBVIOUS
  <2>5. q.op = "bulk" /\ (Keeps(p, Idle) \/ Keeps(p, q))
    BY <1>4, <2>1, <2>4 DEF RecordVerdict
  <2> QED
    BY <1>1, <2>1, <2>2, <2>3, <2>5
<1>5. ASSUME NEW p \in Slot, Stream(p) PROVE Matched'
  <2>1. keep[p] # Idle /\ disk' = Present(row)'
    BY <1>0, <1>5 DEF Stream, Fits, Idle
  <2> QED
    BY <1>1, <1>5, <2>1 DEF Stream
<1>6. ASSUME NEW p \in Slot, Find(p) PROVE Matched'
  <2> DEFINE purge == bin # Absent /\ bin.aged
             files == {a \in Present(row) : row[a].aged \/ purge}
             q == [op |-> "remove", purge |-> purge, files |-> files, left |-> files]
  <2>1. Keeps(p, q) /\ UNCHANGED <<bin, row, disk>> /\ keep[p].op = "find"
    BY <1>6 DEF Find
  <2>2. files \subseteq Present(row) /\ (purge => files = Present(row))
    OBVIOUS
  <2>3. disk = Present(row) /\ keep[p] # Idle
    BY <1>0, <2>1 DEF Fits, Idle
  <2>4. purge \in BOOLEAN
    OBVIOUS
  <2> HIDE DEF purge, files
  <2>5. PICK r : r = q
    OBVIOUS
  <2>6. r.op = "remove" /\ r.files = files /\ r.left = files /\ r.purge = purge
    BY <2>5
  <2>7. Present(row)' = Present(row) /\ disk' = disk
    BY <2>1
  <2>8. r.files \ r.left = {} /\ r # Idle
    BY <2>6 DEF Idle
  <2>9. Fits(r)'
    BY <2>2, <2>3, <2>4, <2>6, <2>7, <2>8 DEF Fits
  <2> QED
    BY <2>1, <2>3, <2>5, <2>8, <2>9, MatchedMoves
<1>7. ASSUME NEW p \in Slot, RemoveFile(p) PROVE Matched'
  <2>1. PICK v : v = keep[p]
    OBVIOUS
  <2>2. v.op = "remove" /\ v # Idle /\ v \in Keeping /\ Fits(v) /\ v.left \subseteq v.files
    BY <1>0, <1>7, <2>1 DEF RemoveFile, Idle, Kept
  <2>3. PICK a \in v.left : disk' = disk \ {a} /\ Keeps(p, [v EXCEPT !.left = v.left \ {a}])
    BY <1>7, <2>1 DEF RemoveFile
  <2>4. PICK q : q = [v EXCEPT !.left = v.left \ {a}]
    OBVIOUS
  <2>5. v \in [op : {"remove"}, purge : BOOLEAN, files : Files, left : Files]
    BY <2>2 DEF Keeping, Idle
  <2>6. q.op = "remove" /\ q.files = v.files /\ q.left = v.left \ {a} /\ q.purge = v.purge
    BY <2>4, <2>5
  <2>7. UNCHANGED row /\ Present(row)' = Present(row)
    BY <1>7 DEF RemoveFile
  <2>8. Fits(q)' /\ q # Idle
    BY <2>2, <2>3, <2>6, <2>7 DEF Fits, Idle
  <2> QED
    BY <2>1, <2>2, <2>3, <2>4, <2>8, MatchedMoves
<1>8. ASSUME NEW p \in Slot, Purge(p) PROVE Matched'
  <2>1. PICK v : v = keep[p]
    OBVIOUS
  <2>2. v.op = "remove" /\ v # Idle /\ Fits(v) /\ v.left = {}
    BY <1>0, <1>8, <2>1 DEF Purge, Idle
  <2>3. disk' = disk /\ Keeps(p, Idle)
    BY <1>8 DEF Purge
  <2>4. DOMAIN row = Attachment /\ DOMAIN row' = Attachment
        /\ \A a \in Attachment : row'[a] = IF v.purge \/ a \in v.files THEN Absent ELSE row[a]
    BY <1>8, <2>1 DEF Purge
  <2>5. Present(row)' = IF v.purge THEN {} ELSE Present(row) \ v.files
    BY <2>4 DEF Present
  <2>6. disk' = Present(row)'
    BY <2>2, <2>3, <2>5 DEF Fits
  <2> QED
    BY <1>1, <2>1, <2>2, <2>3, <2>6
<1> QED
  BY <1>2, <1>3, <1>4, <1>5, <1>6, <1>7, <1>8 DEF AttachmentsResume

LEMMA AttachmentsInvInit ==
  ASSUME OfficeInit PROVE AttachmentsInv
<1>1. AttachmentsInit
  BY DEF OfficeInit
<1>2. Kept
  BY <1>1, KeptInit
<1>3. \A p \in Slot : keep[p] = Idle
  BY <1>1 DEF AttachmentsInit
<1>4. Fits(Idle)
  BY DEF Fits, Idle
<1>5. OneAtATime(keep)
  BY <1>2, <1>3, KeptTypes DEF OneAtATime
<1>6. disk = Present(row) /\ Present(row) = {}
  BY <1>1 DEF AttachmentsInit, Present
<1>7. bin # Absent /\ ~bin.aged
  BY <1>1, KeptBins DEF AttachmentsInit
<1>8. \A p \in Slot, a \in Attachment : ~Uploading(p, a)
  BY <1>3 DEF Uploading, Idle
<1>9. Covered
  BY <1>6, <1>7, <1>8 DEF Covered
<1> QED
  BY <1>2, <1>3, <1>4, <1>5, <1>6, <1>9 DEF AttachmentsInv, Matched, RowsAndFilesAgree

LEMMA AttachmentsInvStep ==
  ASSUME AttachmentsInv, [OfficeNext]_officeVars
  PROVE  AttachmentsInv'
<1>1. Kept'
  BY KeptTurn DEF AttachmentsInv
<1>2. ASSUME alone, UNCHANGED attachmentVars PROVE Matched'
  BY <1>2 DEF AttachmentsInv, attachmentVars, Matched, OneAtATime, RowsAndFilesAgree, Lone, Fits, Present
<1>3. alone => Matched'
  BY <1>2, OfficeStepsAttachments, MatchedBegins, MatchedResumes DEF AttachmentsInv
<1>4. Covered'
  BY OfficeStepsAttachments, CoveredStep DEF AttachmentsInv
<1> QED
  BY <1>1, <1>3, <1>4, OfficeStepsAttachments DEF AttachmentsInv

\* However uploads, scans, deletions, cleanups and restores overlap or die: an attachment on
\* offer has its file, unless its ticket was restored after its retention time with a
\* cleanup at work on it or dead half way; with one request after the other files and rows
\* are the same.
THEOREM AttachmentsAlwaysSafe == OfficeSpec => []AttachmentsSafe
<1>1. AttachmentsInv => AttachmentsSafe
  BY CoveredServes DEF AttachmentsInv, AttachmentsSafe, Kept, Matched
<1> QED
  BY <1>1, AttachmentsInvInit, AttachmentsInvStep, PTL DEF OfficeSpec

(***************************************************************************)
(* Events: requests in progress, and what they may count on.               *)
(***************************************************************************)

Planning ==
    {Idle}
      \cup [op : {"form", "fields", "submit"}, evt : Evt, crew : SUBSET Crew,
            saw : {"none", "bare", "full"}]
      \cup [op : {"update"}, evt : Evt, was : EvtStatus, status : EvtStatus, crew : SUBSET Crew]
      \cup [op : {"tell"}, evt : Evt, status : EvtStatus]
      \cup [op : {"assign"}, task : Task, user : Crew \cup {None, "keep"},
            outside : Outside \cup {None, "keep"}, evt : {None}]
      \cup [op : {"release"}, evt : Evt, outside : Outside]
      \cup [op : {"entry"}, task : Task, user : Crew, evt : {None}]
      \cup [op : {"record"}, task : Task, entry : 1 .. MaxEntries, evt : {None}]
      \cup [op : {"mail", "store", "link"}, evt : Evt, note : Note, public : BOOLEAN,
            files : SUBSET File]

\* The form is complete before a request is taken, rows that were read are not removed,
\* and a public message is stored only after its mail.
Ready(q) ==
    /\ q.op = "submit" => catalog = "full"
    /\ q.op \in {"update", "tell"} => evt[q.evt] # Absent
    /\ q.op \in {"assign", "entry", "record"} => task[q.task] # Absent
    /\ q.op = "assign" => q.user \notin Crew \/ q.outside \notin Outside
    /\ q.op = "store" /\ q.public => q.note \in posted

Tables == EventsTypeOK /\ FormBeforeRequest /\ SingleAssignee /\ StoredWasMailed
PlansReady == plan \in [Planner -> Planning] /\ \A p \in Planner : Ready(plan[p])
Planned == Tables /\ PlansReady

\* What no step takes back.
Grows ==
    /\ catalog = "full" => catalog' = "full"
    /\ Present(evt) \subseteq Present(evt)'
    /\ Present(task) \subseteq Present(task)'
    /\ posted \subseteq posted'

\* With one request after the other the last mail names the status, or it is known to be
\* unmailed, but for the mail that is about to be sent.
Agreed(e) == evt[e] # Absent => LastHeard(e) = evt[e].status
Tells(q) ==
    /\ q.op = "tell" => evt[q.evt].status = q.status /\ \A e \in Evt \ {q.evt} : Agreed(e)
    /\ q.op \notin {"tell", "idle"} => \A e \in Evt : Agreed(e)
    /\ q.op = "update" => q.was = evt[q.evt].status
Informed == OneAtATime(plan) /\ StatusTold /\ \A p \in Planner : Tells(plan[p])

EventsInv == Planned /\ (alone => Informed)
LEMMA EventRowsThere ==
  /\ Absent \notin EvtRow /\ Absent \notin TaskRow
  /\ Absent \notin [evt : Evt, public : BOOLEAN, files : SUBSET File]
  /\ Absent \notin [evt : Evt, note : Note \cup {None}, deleted : BOOLEAN]
<1>1. DOMAIN Absent = {"gone"}
  BY DEF Absent
<1>2. /\ \A x \in EvtRow : "status" \in DOMAIN x
      /\ \A x \in TaskRow : "evt" \in DOMAIN x
      /\ \A x \in [evt : Evt, public : BOOLEAN, files : SUBSET File] : "evt" \in DOMAIN x
      /\ \A x \in [evt : Evt, note : Note \cup {None}, deleted : BOOLEAN] : "evt" \in DOMAIN x
  BY DEF EvtRow, TaskRow
<1> QED
  BY <1>1, <1>2

NoteRow == [evt : Evt, public : BOOLEAN, files : SUBSET File]
FileRow == [evt : Evt, note : Note \cup {None}, deleted : BOOLEAN]

LEMMA EventTypes ==
  ASSUME Planned
  PROVE  /\ catalog \in {"none", "bare", "full"}
         /\ evt \in [Evt -> EvtRow \cup {Absent}]
         /\ guest \subseteq Evt \X Outside /\ listed \subseteq Outside
         /\ task \in [Task -> TaskRow \cup {Absent}]
         /\ entries \in [1 .. MaxEntries -> Crew \cup {None}]
         /\ note \in [Note -> NoteRow \cup {Absent}]
         /\ file \in [File -> FileRow \cup {Absent}]
         /\ posted \subseteq Note /\ told \in [Evt -> Notice]
         /\ plan \in [Planner -> Planning]
         /\ Absent \notin EvtRow /\ Absent \notin TaskRow
         /\ Absent \notin NoteRow /\ Absent \notin FileRow
  BY EventRowsThere DEF Planned, Tables, EventsTypeOK, PlansReady, NoteRow, FileRow

\* What a status mail, or the lack of one, leaves on record.
LEMMA HeardNow ==
  ASSUME Planned, NEW e \in Evt, NEW s \in EvtStatus,
         \/ told' = [told EXCEPT ![e] = [mailed |-> s, silent |-> None]]
         \/ told' = [told EXCEPT ![e].silent = s]
  PROVE  /\ told' \in [Evt -> Notice]
         /\ LastHeard(e)' = s /\ \A o \in Evt \ {e} : LastHeard(o)' = LastHeard(o)
<1> USE EventTypes
<1>1. PICK x, y : x = [mailed |-> s, silent |-> None] /\ y = [told[e] EXCEPT !.silent = s]
  OBVIOUS
<1>2. /\ x \in Notice /\ x.mailed = s /\ x.silent = None
      /\ y \in Notice /\ y.silent = s /\ s # None
  BY <1>1 DEF Notice, EvtStatus, None
<1>3. told' = [told EXCEPT ![e] = x] \/ told' = [told EXCEPT ![e] = y]
  BY <1>1
<1> QED
  BY <1>2, <1>3 DEF LastHeard

LEMMA PlanFields ==
  ASSUME NEW q \in Planning
  PROVE  /\ q.op \in {"form", "fields", "submit"} =>
              q \in [op : {"form", "fields", "submit"}, evt : Evt, crew : SUBSET Crew,
                     saw : {"none", "bare", "full"}]
         /\ q.op = "update" => q.evt \in Evt /\ q.status \in EvtStatus /\ q.crew \in SUBSET Crew
         /\ q.op = "tell" => q.evt \in Evt /\ q.status \in EvtStatus
         /\ q.op = "assign" => q.task \in Task /\ q.user \in Crew \cup {None, "keep"}
                               /\ q.outside \in Outside \cup {None, "keep"}
         /\ q.op = "entry" => q.task \in Task /\ q.user \in Crew
         /\ q.op = "record" => q.task \in Task /\ q.entry \in 1 .. MaxEntries
         /\ q.op \in {"mail", "store", "link"} =>
              q \in [op : {"mail", "store", "link"}, evt : Evt, note : Note, public : BOOLEAN,
                     files : SUBSET File]
  BY DEF Planning, Idle

\* A request goes on to q, which the tables allow.
LEMMA PlanGoes ==
  ASSUME Planned, Grows, Tables', NEW p \in Planner, NEW q \in Planning, Plans(p, q), Ready(q)'
  PROVE  Planned'
<1>1. plan' \in [Planner -> Planning]
  BY EventTypes DEF Plans
<1>2. ASSUME NEW o \in Planner PROVE Ready(plan[o])'
  <2>1. CASE o = p
    BY <2>1, EventTypes DEF Plans
  <2>2. CASE o # p
    <3>1. PICK r : r = plan[o]
      OBVIOUS
    <3>2. plan'[o] = r /\ r \in Planning /\ Ready(r)
      BY <2>2, <3>1, EventTypes DEF Plans, Planned, PlansReady
    <3>3. Ready(r)'
      BY <3>2, EventTypes, PlanFields DEF Ready, Grows, Present
    <3> QED
      BY <3>2, <3>3
  <2> QED
    BY <2>1, <2>2
<1> QED
  BY <1>1, <1>2 DEF Planned, PlansReady

LEMMA PlanStays ==
  ASSUME Planned, Grows, Tables', UNCHANGED plan
  PROVE  Planned'
<1>1. ASSUME NEW o \in Planner PROVE Ready(plan[o])'
  <2>1. PICK r : r = plan[o]
    OBVIOUS
  <2>2. plan'[o] = r /\ r \in Planning /\ Ready(r)
    BY <2>1, EventTypes DEF Planned, PlansReady
  <2>3. Ready(r)'
    BY <2>2, EventTypes, PlanFields DEF Ready, Grows, Present
  <2> QED
    BY <2>2, <2>3
<1> QED
  BY <1>1, EventTypes DEF Planned, PlansReady

LEMMA TablesStay ==
  ASSUME Planned, UNCHANGED <<deskVars, evt, told>>
  PROVE  Tables' /\ Grows
  BY DEF Planned, deskVars, Tables, EventsTypeOK, FormBeforeRequest, SingleAssignee,
         StoredWasMailed, Grows, Present

LEMMA EvtWritten ==
  ASSUME Planned, NEW e \in Evt, NEW x \in EvtRow, evt' = [evt EXCEPT ![e] = x],
         x.public => catalog = "full", told' \in [Evt -> Notice], UNCHANGED deskVars
  PROVE  Tables' /\ Grows
<1>1. evt' \in [Evt -> EvtRow \cup {Absent}] /\ Present(evt)' = Present(evt) \cup {e}
  BY EventTypes DEF Present
<1>2. FormBeforeRequest'
  BY <1>1, EventTypes DEF Planned, Tables, FormBeforeRequest, deskVars, Present
<1> QED
  BY <1>1, <1>2 DEF Planned, Tables, EventsTypeOK, SingleAssignee, StoredWasMailed, Grows, deskVars,
                    Present

LEMMA CatalogMade ==
  ASSUME Planned, catalog' \in {"none", "bare", "full"}, catalog = "full" => catalog' = "full",
         UNCHANGED <<evt, guest, listed, task, entries, note, file, posted, told>>
  PROVE  Tables' /\ Grows
  BY DEF Planned, Tables, EventsTypeOK, FormBeforeRequest, SingleAssignee, StoredWasMailed, Grows,
         Present

LEMMA TaskWritten ==
  ASSUME Planned, NEW t \in Task, NEW x \in TaskRow, task' = [task EXCEPT ![t] = x],
         x.user = None \/ x.outside = None,
         UNCHANGED <<catalog, evt, guest, listed, entries, note, file, posted, told>>
  PROVE  Tables' /\ Grows
<1>1. task' \in [Task -> TaskRow \cup {Absent}] /\ Present(task)' = Present(task) \cup {t}
  BY EventTypes DEF Present
<1>2. SingleAssignee'
  BY <1>1, EventTypes DEF Planned, Tables, SingleAssignee, Present
<1> QED
  BY <1>1, <1>2 DEF Planned, Tables, EventsTypeOK, FormBeforeRequest, StoredWasMailed, Grows, Present

LEMMA FileWritten ==
  ASSUME Planned, file' \in [File -> FileRow \cup {Absent}],
         UNCHANGED <<catalog, evt, guest, listed, task, entries, note, posted, told>>
  PROVE  Tables' /\ Grows
  BY DEF Planned, Tables, EventsTypeOK, FormBeforeRequest, SingleAssignee, StoredWasMailed, Grows,
         Present, FileRow

LEMMA NoteWritten ==
  ASSUME Planned, NEW n \in Note, NEW x \in NoteRow, note' = [note EXCEPT ![n] = x],
         x.public => n \in posted,
         UNCHANGED <<catalog, evt, guest, listed, task, entries, file, posted, told>>
  PROVE  Tables' /\ Grows
<1>1. note' \in [Note -> NoteRow \cup {Absent}] /\ Present(note)' = Present(note) \cup {n}
  BY EventTypes DEF Present
<1>2. StoredWasMailed'
  BY <1>1, EventTypes DEF Planned, Tables, StoredWasMailed, Present
<1> QED
  BY <1>1, <1>2 DEF Planned, Tables, EventsTypeOK, FormBeforeRequest, SingleAssignee, Grows, Present,
                    NoteRow

LEMMA OthersWritten ==
  ASSUME Planned, guest' \subseteq Evt \X Outside, listed' \subseteq Outside,
         entries' \in [1 .. MaxEntries -> Crew \cup {None}], posted' \subseteq Note,
         posted \subseteq posted', UNCHANGED <<catalog, evt, task, note, file, told>>
  PROVE  Tables' /\ Grows
  BY DEF Planned, Tables, EventsTypeOK, FormBeforeRequest, SingleAssignee, StoredWasMailed, Grows,
         Present
LEMMA PlanReads ==
  ASSUME Planned, NEW p \in Planner, NEW q \in Planning, Plans(p, q), Ready(q),
         UNCHANGED <<deskVars, evt, told>>
  PROVE  Planned'
<1>1. Ready(q)'
  BY DEF Ready, deskVars
<1> QED
  BY <1>1, TablesStay, PlanGoes

LEMMA PlannedRequests ==
  ASSUME Planned, RequestsBegin
  PROVE  Planned'
<1> USE EventTypes
<1>1. ASSUME NEW p \in Planner, NEW e \in Evt, NEW crew \in SUBSET Crew, Visit(p, e, crew)
      PROVE  Planned'
  <2>1. PICK q : q = [op |-> "form", evt |-> e, crew |-> crew, saw |-> catalog]
    OBVIOUS
  <2>2. q \in Planning /\ q.op = "form"
    BY <2>1 DEF Planning
  <2>3. Ready(q)
    BY <2>2 DEF Ready
  <2> QED
    BY <1>1, <2>1, <2>2, <2>3, PlanReads DEF Visit
<1>2. ASSUME NEW p \in Planner, NEW e \in Evt, NEW crew \in SUBSET Crew, NEW s \in EvtStatus,
             UpdateRequest(p, e, s, crew)
      PROVE  Planned'
  <2>1. PICK q : q = [op |-> "update", evt |-> e, was |-> evt[e].status, status |-> s, crew |-> crew]
    OBVIOUS
  <2>2. evt[e] # Absent /\ evt[e].status \in EvtStatus
    BY <1>2 DEF UpdateRequest, Found, EvtRow
  <2>3. q \in Planning /\ q.op = "update" /\ q.evt = e
    BY <2>1, <2>2 DEF Planning
  <2>4. Ready(q)
    BY <2>2, <2>3 DEF Ready
  <2> QED
    BY <1>2, <2>1, <2>3, <2>4, PlanReads DEF UpdateRequest
<1>3. ASSUME NEW e \in Evt, NEW deleted \in BOOLEAN, BinRequest(e, deleted) PROVE Planned'
  <2>1. PICK x : x = [evt[e] EXCEPT !.deleted = deleted]
    OBVIOUS
  <2>2. evt[e] \in EvtRow
    BY <1>3 DEF BinRequest
  <2>3. x \in EvtRow /\ x.public = evt[e].public
    BY <2>1, <2>2 DEF EvtRow
  <2>4. x.public => catalog = "full"
    BY <1>3, <2>3 DEF BinRequest, Planned, Tables, FormBeforeRequest, Present
  <2>5. evt' = [evt EXCEPT ![e] = x] /\ UNCHANGED <<deskVars, told, plan>>
    BY <1>3, <2>1 DEF BinRequest
  <2> QED
    BY <2>3, <2>4, <2>5, EvtWritten, PlanStays
<1>4. ASSUME NEW e \in Evt, NEW crew \in SUBSET Crew, Create(e, crew) PROVE Planned'
  <2>1. Opening(crew) \in EvtStatus
    BY DEF Opening, EvtStatus
  <2>2. PICK x : x = [status |-> Opening(crew), deleted |-> FALSE, public |-> FALSE, crew |-> crew,
                      completed |-> FALSE, cancelled |-> FALSE]
    OBVIOUS
  <2>3. x \in EvtRow /\ ~x.public
    BY <2>1, <2>2 DEF EvtRow
  <2>4. evt' = [evt EXCEPT ![e] = x] /\ told' \in [Evt -> Notice] /\ UNCHANGED <<deskVars, plan>>
    BY <1>4, <2>1, <2>2, HeardNow DEF Create
  <2> QED
    BY <2>3, <2>4, EvtWritten, PlanStays
<1> QED
  BY <1>1, <1>2, <1>3, <1>4 DEF RequestsBegin

LEMMA PlannedTasks ==
  ASSUME Planned, TasksBegin
  PROVE  Planned'
<1> USE EventTypes
<1>1. ASSUME NEW p \in Planner, NEW t \in Task, NEW u \in Crew \cup {None},
             NEW x \in Outside \cup {None}, NEW e \in Evt, CreateTask(p, t, e, u, x)
      PROVE  Planned'
  <2>1. 0 \in 0 .. MaxEntries
    BY NamesAssumption
  <2>2. PICK y : y = [evt |-> e, user |-> u, outside |-> x, entry |-> 0]
    OBVIOUS
  <2>3. y \in TaskRow /\ (y.user = None \/ y.outside = None)
    BY <1>1, <2>1, <2>2 DEF TaskRow, CreateTask
  <2>4. /\ task' = [task EXCEPT ![t] = y]
        /\ UNCHANGED <<catalog, evt, guest, listed, entries, note, file, posted, told, plan>>
    BY <1>1, <2>2 DEF CreateTask
  <2> QED
    BY <2>3, <2>4, TaskWritten, PlanStays
<1>2. ASSUME NEW p \in Planner, NEW t \in Task, NEW u \in Crew \cup {None, "keep"},
             NEW x \in Outside \cup {None, "keep"}, AssignTask(p, t, u, x)
      PROVE  Planned'
  <2>1. PICK q : q = [op |-> "assign", task |-> t, user |-> u, outside |-> x, evt |-> None]
    OBVIOUS
  <2>2. q \in Planning /\ q.op = "assign" /\ q.task = t /\ q.user = u /\ q.outside = x
    BY <2>1 DEF Planning
  <2>3. Ready(q)
    BY <1>2, <2>2 DEF Ready, AssignTask
  <2> QED
    BY <1>2, <2>1, <2>2, <2>3, PlanReads DEF AssignTask
<1>3. ASSUME NEW e \in Evt, NEW x \in Outside, AddOutside(e, x) PROVE Planned'
  BY <1>3, OthersWritten, PlanStays DEF AddOutside
<1>4. ASSUME NEW e \in Evt, NEW x \in Outside, NEW p \in Planner, RemoveOutside(p, e, x) PROVE Planned'
  <2>1. PICK q : q = [op |-> "release", evt |-> e, outside |-> x]
    OBVIOUS
  <2>2. q \in Planning /\ q.op = "release"
    BY <2>1 DEF Planning
  <2>3. Ready(q)'
    BY <2>2 DEF Ready
  <2>4. Tables' /\ Grows
    BY <1>4, OthersWritten DEF RemoveOutside
  <2> QED
    BY <1>4, <2>1, <2>2, <2>3, <2>4, PlanGoes DEF RemoveOutside
<1>5. ASSUME NEW x \in Outside, ArchiveOutside(x) PROVE Planned'
  BY <1>5, OthersWritten, PlanStays DEF ArchiveOutside
<1>6. ASSUME NEW p \in Planner, NEW t \in Task, SyncTask(p, t) PROVE Planned'
  <2>1. task[t] \in TaskRow /\ task[t].user # None
    BY <1>6 DEF SyncTask
  <2>2. task[t].user \in Crew
    BY <2>1 DEF TaskRow
  <2>3. PICK q : q = [op |-> "entry", task |-> t, user |-> task[t].user, evt |-> None]
    OBVIOUS
  <2>4. q \in Planning /\ q.op = "entry" /\ q.task = t
    BY <2>2, <2>3 DEF Planning
  <2>5. Ready(q)
    BY <2>1, <2>4 DEF Ready
  <2> QED
    BY <1>6, <2>3, <2>4, <2>5, PlanReads DEF SyncTask
<1> QED
  BY <1>1, <1>2, <1>3, <1>4, <1>5, <1>6 DEF TasksBegin

LEMMA PlannedNotes ==
  ASSUME Planned, NotesBegin
  PROVE  Planned'
<1> USE EventTypes
<1>1. ASSUME NEW e \in Evt, NEW f \in File, UploadFile(e, f) PROVE Planned'
  <2>1. PICK x : x = [evt |-> e, note |-> None, deleted |-> FALSE]
    OBVIOUS
  <2>2. x \in FileRow
    BY <2>1 DEF FileRow
  <2>3. file' = [file EXCEPT ![f] = x]
    BY <1>1, <2>1 DEF UploadFile
  <2> QED
    BY <1>1, <2>2, <2>3, FileWritten, PlanStays DEF UploadFile
<1>2. ASSUME NEW f \in File, DeleteFile(f) PROVE Planned'
  <2>1. PICK x : x = [file[f] EXCEPT !.deleted = TRUE]
    OBVIOUS
  <2>2. x \in FileRow
    BY <1>2, <2>1 DEF FileRow, DeleteFile
  <2>3. file' = [file EXCEPT ![f] = x]
    BY <1>2, <2>1 DEF DeleteFile
  <2> QED
    BY <1>2, <2>2, <2>3, FileWritten, PlanStays DEF DeleteFile
<1>3. ASSUME NEW p \in Planner, NEW n \in Note, NEW e \in Evt, NEW public \in BOOLEAN,
             NEW files \in SUBSET File, SendNote(p, n, e, public, files)
      PROVE  Planned'
  <2>1. PICK op : op = IF public THEN "mail" ELSE "store"
    OBVIOUS
  <2>2. PICK q : q = [op |-> op, evt |-> e, note |-> n, public |-> public, files |-> files]
    OBVIOUS
  <2>3. op \in {"mail", "store"} /\ (public => op = "mail")
    BY <2>1
  <2>4. q \in Planning /\ q.op = op /\ q.public = public
    BY <2>2, <2>3 DEF Planning
  <2>5. Ready(q)
    BY <2>3, <2>4 DEF Ready
  <2> QED
    BY <1>3, <2>1, <2>2, <2>4, <2>5, PlanReads DEF SendNote
<1> QED
  BY <1>1, <1>2, <1>3 DEF NotesBegin
\* A request moves on in its own slot: to another step with the same record.
LEMMA FormSteps ==
  ASSUME NEW v \in [op : {"form", "fields", "submit"}, evt : Evt, crew : SUBSET Crew,
                    saw : {"none", "bare", "full"}],
         NEW op \in {"fields", "submit"}, NEW q, q = [v EXCEPT !.op = op]
  PROVE  q \in Planning /\ q.op = op
<1>1. q \in [op : {"form", "fields", "submit"}, evt : Evt, crew : SUBSET Crew,
            saw : {"none", "bare", "full"}] /\ q.op = op
  OBVIOUS
<1> QED
  BY <1>1 DEF Planning

LEMMA NoteSteps ==
  ASSUME NEW v \in [op : {"mail", "store", "link"}, evt : Evt, note : Note, public : BOOLEAN,
                    files : SUBSET File],
         NEW op \in {"store", "link"}, NEW q, q = [v EXCEPT !.op = op]
  PROVE  q \in Planning /\ q.op = op /\ q.note = v.note /\ q.public = v.public
<1>1. q \in [op : {"mail", "store", "link"}, evt : Evt, note : Note, public : BOOLEAN,
            files : SUBSET File] /\ q.op = op /\ q.note = v.note /\ q.public = v.public
  OBVIOUS
<1> QED
  BY <1>1 DEF Planning

LEMMA PlannedForm ==
  ASSUME Planned, NEW p \in Planner, SeedForm(p) \/ SeedFields(p) \/ Submit(p)
  PROVE  Planned'
<1> USE EventTypes
<1> PICK v : v = plan[p]
  OBVIOUS
<1>0. v \in Planning /\ Ready(v) /\ Idle \in Planning /\ Ready(Idle)'
  BY DEF Planning, Planned, PlansReady, Ready, Idle
<1>1. v \in [op : {"form", "fields", "submit"}, evt : Evt, crew : SUBSET Crew,
            saw : {"none", "bare", "full"}]
  BY <1>0, PlanFields DEF SeedForm, SeedFields, Submit
<1>2. CASE SeedForm(p)
  <2>1. PICK q : q = [v EXCEPT !.op = IF catalog = "full" THEN "submit" ELSE "fields"]
    OBVIOUS
  <2>2. q \in Planning /\ (q.op = "fields" \/ (catalog = "full" /\ q.op = "submit"))
    BY <1>1, <2>1, FormSteps
  <2>3. /\ catalog' \in {"none", "bare", "full"} /\ (catalog = "full" => catalog' = "full")
        /\ UNCHANGED <<evt, guest, listed, task, entries, note, file, posted, told>>
        /\ Plans(p, Idle) \/ Plans(p, q)
    BY <1>2, <2>1 DEF SeedForm
  <2>4. Ready(q)'
    BY <2>2, <2>3 DEF Ready
  <2> QED
    BY <1>0, <2>2, <2>3, <2>4, CatalogMade, PlanGoes
<1>3. CASE SeedFields(p)
  <2>1. PICK q : q = [v EXCEPT !.op = "submit"]
    OBVIOUS
  <2>2. q \in Planning /\ q.op = "submit"
    BY <1>1, <2>1, FormSteps
  <2>3. /\ catalog' = "full" /\ (Plans(p, Idle) \/ Plans(p, q))
        /\ UNCHANGED <<evt, guest, listed, task, entries, note, file, posted, told>>
    BY <1>3, <2>1 DEF SeedFields
  <2>4. Ready(q)'
    BY <2>2, <2>3 DEF Ready
  <2> QED
    BY <1>0, <2>2, <2>3, <2>4, CatalogMade, PlanGoes
<1>4. CASE Submit(p)
  <2>1. Opening(v.crew) \in EvtStatus
    BY DEF Opening, EvtStatus
  <2>2. PICK x : x = [status |-> Opening(v.crew), deleted |-> FALSE, public |-> TRUE, crew |-> v.crew,
                      completed |-> FALSE, cancelled |-> FALSE]
    OBVIOUS
  <2>3. x \in EvtRow /\ v.evt \in Evt
    BY <1>1, <2>1, <2>2 DEF EvtRow
  <2>4. /\ evt' = [evt EXCEPT ![v.evt] = x] /\ told' \in [Evt -> Notice]
        /\ UNCHANGED deskVars /\ Plans(p, Idle) /\ catalog = "full"
    BY <1>0, <1>4, <2>1, <2>2, <2>3, HeardNow DEF Submit, Ready
  <2> QED
    BY <1>0, <2>3, <2>4, EvtWritten, PlanGoes
<1> QED
  BY <1>2, <1>3, <1>4

LEMMA PlannedUpdate ==
  ASSUME Planned, NEW p \in Planner, CommitUpdate(p) \/ Tell(p)
  PROVE  Planned'
<1> USE EventTypes
<1> PICK v : v = plan[p]
  OBVIOUS
<1>0. v \in Planning /\ Ready(v) /\ Idle \in Planning /\ Ready(Idle)'
  BY DEF Planning, Planned, PlansReady, Ready, Idle
<1>1. v.evt \in Evt /\ v.status \in EvtStatus /\ evt[v.evt] # Absent
  BY <1>0, PlanFields DEF CommitUpdate, Tell, Ready
<1>2. CASE CommitUpdate(p)
  <2>1. v.op = "update" /\ v.crew \in SUBSET Crew
    BY <1>0, <1>2, PlanFields DEF CommitUpdate
  <2>2. evt[v.evt] \in EvtRow
    BY <1>1
  <2>3. PICK x : x = [evt[v.evt] EXCEPT !.status = v.status, !.crew = v.crew,
                                        !.completed = @ \/ v.status = "COMPLETED",
                                        !.cancelled = @ \/ v.status = "CANCELLED"]
    OBVIOUS
  <2>4. x \in EvtRow /\ x.public = evt[v.evt].public
    BY <1>1, <2>1, <2>2, <2>3 DEF EvtRow
  <2>5. x.public => catalog = "full"
    BY <1>1, <2>4 DEF Planned, Tables, FormBeforeRequest, Present
  <2>6. evt' = [evt EXCEPT ![v.evt] = x] /\ UNCHANGED <<deskVars, told>>
    BY <1>1, <1>2, <2>3 DEF CommitUpdate
  <2>7. Tables' /\ Grows
    BY <1>1, <2>4, <2>5, <2>6, EvtWritten
  <2>8. PICK q : q = [op |-> "tell", evt |-> v.evt, status |-> v.status]
    OBVIOUS
  <2>9. q \in Planning /\ q.op = "tell" /\ q.evt = v.evt
    BY <1>1, <2>8 DEF Planning
  <2>10. Ready(q)'
    BY <1>1, <2>4, <2>6, <2>9 DEF Ready
  <2>11. Plans(p, Idle) \/ Plans(p, q)
    BY <1>2, <2>8 DEF CommitUpdate
  <2> QED
    BY <1>0, <2>7, <2>9, <2>10, <2>11, PlanGoes
<1>3. CASE Tell(p)
  <2>1. told' \in [Evt -> Notice] /\ UNCHANGED <<deskVars, evt>> /\ Plans(p, Idle)
    BY <1>1, <1>3, HeardNow DEF Tell
  <2>2. Tables' /\ Grows
    BY <2>1 DEF Planned, deskVars, Tables, EventsTypeOK, FormBeforeRequest, SingleAssignee,
                StoredWasMailed, Grows, Present
  <2> QED
    BY <1>0, <2>1, <2>2, PlanGoes
<1> QED
  BY <1>2, <1>3

LEMMA PlannedAssign ==
  ASSUME Planned, NEW p \in Planner,
         CommitAssign(p) \/ ReleaseTasks(p) \/ MakeEntry(p) \/ RecordEntry(p)
  PROVE  Planned'
<1> USE EventTypes
<1> PICK v : v = plan[p]
  OBVIOUS
<1>0. v \in Planning /\ Ready(v) /\ Idle \in Planning /\ Ready(Idle)'
  BY DEF Planning, Planned, PlansReady, Ready, Idle
<1>1. CASE CommitAssign(p)
  <2>1. /\ v.op = "assign" /\ v.task \in Task /\ v.user \in Crew \cup {None, "keep"}
        /\ v.outside \in Outside \cup {None, "keep"}
        /\ v.user \notin Crew \/ v.outside \notin Outside
        /\ task[v.task] \in TaskRow
    BY <1>0, <1>1, PlanFields DEF CommitAssign, Ready
  <2>2. task[v.task].user = None \/ task[v.task].outside = None
    BY <2>1 DEF Planned, Tables, SingleAssignee, Present
  <2>3. PICK u : u = IF v.user # "keep" THEN v.user
                     ELSE IF v.outside \in Outside THEN None ELSE task[v.task].user
    OBVIOUS
  <2>4. PICK o : o = IF v.outside # "keep" THEN v.outside
                     ELSE IF v.user \in Crew THEN None ELSE task[v.task].outside
    OBVIOUS
  <2>5. u \in Crew \cup {None} /\ o \in Outside \cup {None}
    BY <2>1, <2>3, <2>4 DEF TaskRow
  <2>6. u = None \/ o = None
    BY <2>1, <2>2, <2>3, <2>4, NamesAssumption DEF None, TaskRow
  <2>7. PICK x : x = [task[v.task] EXCEPT !.user = u, !.outside = o]
    OBVIOUS
  <2>8. x \in TaskRow /\ x.user = u /\ x.outside = o
    BY <2>1, <2>5, <2>7 DEF TaskRow
  <2>9. /\ task' = [task EXCEPT ![v.task] = x] /\ Plans(p, Idle)
        /\ UNCHANGED <<catalog, evt, guest, listed, entries, note, file, posted, told>>
    BY <1>1, <2>1, <2>3, <2>4, <2>7 DEF CommitAssign
  <2> QED
    BY <1>0, <2>1, <2>6, <2>8, <2>9, TaskWritten, PlanGoes
<1>2. CASE ReleaseTasks(p)
  <2>1. ASSUME NEW t \in Task
        PROVE  /\ task'[t] \in TaskRow \cup {Absent} /\ (task'[t] = Absent <=> task[t] = Absent)
               /\ task[t] # Absent => task'[t].user = task[t].user
                                     /\ task'[t].outside \in {task[t].outside, None}
    <3>1. PICK x : x = [task[t] EXCEPT !.outside = None]
      OBVIOUS
    <3>2. task[t] # Absent => x \in TaskRow /\ x.user = task[t].user /\ x.outside = None
      BY <3>1 DEF TaskRow
    <3>3. task'[t] = IF task[t] # Absent /\ task[t].evt = v.evt /\ task[t].outside = v.outside
                     THEN x ELSE task[t]
      BY <1>2, <3>1 DEF ReleaseTasks
    <3> QED
      BY <3>2, <3>3
  <2>2. task' = [t \in Task |-> task'[t]] /\ DOMAIN task' = Task
    BY <1>2 DEF ReleaseTasks
  <2>3. task' \in [Task -> TaskRow \cup {Absent}] /\ Present(task)' = Present(task)
    BY <2>1, <2>2 DEF Present
  <2>4. SingleAssignee'
    BY <2>1, <2>3 DEF Planned, Tables, SingleAssignee, Present
  <2>5. UNCHANGED <<catalog, evt, guest, listed, entries, note, file, posted, told>> /\ Plans(p, Idle)
    BY <1>2 DEF ReleaseTasks
  <2>6. Tables' /\ Grows
    BY <2>3, <2>4, <2>5 DEF Planned, Tables, EventsTypeOK, FormBeforeRequest, StoredWasMailed, Grows,
                            Present
  <2> QED
    BY <1>0, <2>5, <2>6, PlanGoes
<1>3. CASE MakeEntry(p)
  <2>1. v.op = "entry" /\ v.task \in Task /\ v.user \in Crew /\ task[v.task] # Absent
    BY <1>0, <1>3, PlanFields DEF MakeEntry, Ready
  <2>2. PICK i \in 1 .. MaxEntries :
          /\ entries' = [entries EXCEPT ![i] = v.user]
          /\ Plans(p, [op |-> "record", task |-> v.task, entry |-> i, evt |-> None])
    BY <1>3 DEF MakeEntry
  <2>3. PICK q : q = [op |-> "record", task |-> v.task, entry |-> i, evt |-> None]
    OBVIOUS
  <2>4. q \in Planning /\ q.op = "record" /\ q.task = v.task
    BY <2>1, <2>3 DEF Planning
  <2>5. UNCHANGED <<catalog, evt, guest, listed, task, note, file, posted, told>>
    BY <1>3 DEF MakeEntry
  <2>6. entries' \in [1 .. MaxEntries -> Crew \cup {None}]
    BY <2>1, <2>2
  <2>7. Tables' /\ Grows
    BY <2>5, <2>6, OthersWritten
  <2>8. Ready(q)'
    BY <2>1, <2>4, <2>5 DEF Ready
  <2> QED
    BY <2>2, <2>3, <2>4, <2>7, <2>8, PlanGoes
<1>4. CASE RecordEntry(p)
  <2>1. v.op = "record" /\ v.task \in Task /\ v.entry \in 0 .. MaxEntries /\ task[v.task] \in TaskRow
    BY <1>0, <1>4, PlanFields, NamesAssumption DEF RecordEntry, Ready
  <2>2. task[v.task].user = None \/ task[v.task].outside = None
    BY <2>1 DEF Planned, Tables, SingleAssignee, Present
  <2>3. PICK x : x = [task[v.task] EXCEPT !.entry = v.entry]
    OBVIOUS
  <2>4. x \in TaskRow /\ x.user = task[v.task].user /\ x.outside = task[v.task].outside
    BY <2>1, <2>3 DEF TaskRow
  <2>5. /\ task' = [task EXCEPT ![v.task] = x] /\ Plans(p, Idle)
        /\ UNCHANGED <<catalog, evt, guest, listed, entries, note, file, posted, told>>
    BY <1>4, <2>1, <2>3 DEF RecordEntry
  <2> QED
    BY <1>0, <2>1, <2>2, <2>4, <2>5, TaskWritten, PlanGoes
<1> QED
  BY <1>1, <1>2, <1>3, <1>4

LEMMA PlannedMail ==
  ASSUME Planned, NEW p \in Planner, Mail(p) \/ StoreNote(p) \/ LinkFiles(p)
  PROVE  Planned'
<1> USE EventTypes
<1> PICK v : v = plan[p]
  OBVIOUS
<1>0. v \in Planning /\ Ready(v) /\ Idle \in Planning /\ Ready(Idle)'
  BY DEF Planning, Planned, PlansReady, Ready, Idle
<1>1. v \in [op : {"mail", "store", "link"}, evt : Evt, note : Note, public : BOOLEAN,
            files : SUBSET File]
  BY <1>0, PlanFields DEF Mail, StoreNote, LinkFiles
<1>2. CASE Mail(p)
  <2>1. PICK q : q = [v EXCEPT !.op = "store"]
    OBVIOUS
  <2>2. q \in Planning /\ q.op = "store" /\ q.note = v.note
    BY <1>1, <2>1, NoteSteps
  <2>3. /\ UNCHANGED <<catalog, evt, guest, listed, task, entries, note, file, told>>
        /\ \/ posted' = posted \cup {v.note} /\ Plans(p, q)
           \/ UNCHANGED posted /\ Plans(p, Idle)
    BY <1>2, <2>1 DEF Mail
  <2>4. Tables' /\ Grows
    BY <1>1, <2>3, OthersWritten
  <2>5. CASE posted' = posted \cup {v.note} /\ Plans(p, q)
    <3>1. Ready(q)'
      BY <2>2, <2>5 DEF Ready
    <3> QED
      BY <2>2, <2>4, <2>5, <3>1, PlanGoes
  <2>6. CASE Plans(p, Idle)
    BY <1>0, <2>4, <2>6, PlanGoes
  <2> QED
    BY <2>3, <2>5, <2>6
<1>3. CASE StoreNote(p)
  <2>1. PICK q : q = [v EXCEPT !.op = "link"]
    OBVIOUS
  <2>2. q \in Planning /\ q.op = "link"
    BY <1>1, <2>1, NoteSteps
  <2>3. Ready(q)'
    BY <2>2 DEF Ready
  <2>4. PICK x : x = [evt |-> v.evt, public |-> v.public, files |-> v.files]
    OBVIOUS
  <2>5. x \in NoteRow /\ x.public = v.public
    BY <1>1, <2>4 DEF NoteRow
  <2>6. v.public => v.note \in posted
    BY <1>0, <1>3 DEF StoreNote, Ready
  <2>7. /\ note' = [note EXCEPT ![v.note] = x] /\ Plans(p, q)
        /\ UNCHANGED <<catalog, evt, guest, listed, task, entries, file, posted, told>>
    BY <1>3, <2>1, <2>4 DEF StoreNote
  <2>8. Tables' /\ Grows
    BY <1>1, <2>5, <2>6, <2>7, NoteWritten
  <2> QED
    BY <2>2, <2>3, <2>7, <2>8, PlanGoes
<1>4. CASE LinkFiles(p)
  <2>1. ASSUME NEW f \in File PROVE file'[f] \in FileRow \cup {Absent}
    <3>1. PICK x : x = [file[f] EXCEPT !.note = v.note]
      OBVIOUS
    <3>2. file[f] # Absent => x \in FileRow
      BY <1>1, <3>1 DEF FileRow
    <3>3. file'[f] = IF f \in v.files /\ Loose(f, v.evt) THEN x ELSE file[f]
      BY <1>4, <3>1 DEF LinkFiles
    <3> QED
      BY <3>2, <3>3 DEF Loose
  <2>2. file' = [f \in File |-> file'[f]]
    BY <1>4 DEF LinkFiles
  <2>3. file' \in [File -> FileRow \cup {Absent}]
    BY <2>1, <2>2
  <2>4. /\ Plans(p, Idle)
        /\ UNCHANGED <<catalog, evt, guest, listed, task, entries, note, posted, told>>
    BY <1>4 DEF LinkFiles
  <2> QED
    BY <1>0, <2>3, <2>4, FileWritten, PlanGoes
<1> QED
  BY <1>2, <1>3, <1>4

LEMMA PlannedLoss ==
  ASSUME Planned, EventsLoss
  PROVE  Planned'
<1>1. Idle \in Planning /\ Ready(Idle)
  BY DEF Planning, Ready, Idle
<1> QED
  BY <1>1, PlanReads DEF EventsLoss, PlannerLost

LEMMA PlannedInit ==
  ASSUME EventsInit \/ EventsOpen
  PROVE  Planned
<1>1. plan = [p \in Planner |-> Idle] /\ Idle \in Planning /\ Ready(Idle)
  BY DEF EventsInit, EventsOpen, Planning, Ready, Idle
<1>2. PlansReady
  BY <1>1 DEF PlansReady
<1>3. /\ catalog \in {"none", "bare", "full"} /\ guest \subseteq Evt \X Outside /\ listed \subseteq Outside
      /\ task \in [Task -> TaskRow \cup {Absent}] /\ entries \in [1 .. MaxEntries -> Crew \cup {None}]
      /\ note \in [Note -> NoteRow \cup {Absent}] /\ file \in [File -> FileRow \cup {Absent}]
      /\ posted \subseteq Note /\ told \in [Evt -> Notice]
      /\ Present(task) = {} /\ Present(note) = {}
  BY DEF EventsInit, EventsOpen, Present, EvtStatus, Notice
<1>4. PICK x : x = [status |-> "NEW", deleted |-> FALSE, public |-> TRUE, crew |-> {},
                    completed |-> FALSE, cancelled |-> FALSE]
  OBVIOUS
<1>5. x \in EvtRow
  BY <1>4 DEF EvtRow, EvtStatus
<1>6. CASE EventsInit
  <2>1. evt \in [Evt -> EvtRow \cup {Absent}] /\ Present(evt) = {}
    BY <1>6 DEF EventsInit, Present
  <2> QED
    BY <1>2, <1>3, <2>1 DEF Planned, Tables, EventsTypeOK, FormBeforeRequest, SingleAssignee,
                            StoredWasMailed, NoteRow, FileRow
<1>7. CASE EventsOpen
  <2>1. evt \in [Evt -> EvtRow \cup {Absent}] /\ catalog = "full"
    BY <1>4, <1>5, <1>7 DEF EventsOpen
  <2> QED
    BY <1>2, <1>3, <2>1 DEF Planned, Tables, EventsTypeOK, FormBeforeRequest, SingleAssignee,
                            StoredWasMailed, NoteRow, FileRow
<1> QED
  BY <1>6, <1>7
LEMMA OfficeStepsEvents ==
  ASSUME [OfficeNext]_officeVars
  PROVE  /\ \/ RequestsBegin \/ TasksBegin \/ NotesBegin \/ EventsResume \/ EventsLoss
            \/ UNCHANGED eventVars
         /\ alone' = alone
         /\ alone => \/ Lone(plan) /\ (RequestsBegin \/ TasksBegin \/ NotesBegin)
                     \/ EventsResume \/ UNCHANGED eventVars
<1>1. RequestsContend => RequestsBegin
  BY DEF RequestsContend, RequestsBegin, EvtStatus
<1> QED
  BY <1>1 DEF OfficeNext, officeVars, AccountsTurn, DirectoryTurn, AttachmentsTurn, EventsTurn

LEMMA PlannedStep ==
  ASSUME Planned, [OfficeNext]_officeVars
  PROVE  Planned'
<1>1. CASE UNCHANGED eventVars
  <2>1. UNCHANGED <<deskVars, evt, told>> /\ UNCHANGED plan
    BY <1>1 DEF eventVars, deskVars
  <2> QED
    BY <2>1, TablesStay, PlanStays
<1>2. CASE EventsResume
  BY <1>2, PlannedForm, PlannedUpdate, PlannedAssign, PlannedMail DEF EventsResume
<1> QED
  BY <1>1, <1>2, OfficeStepsEvents, PlannedRequests, PlannedTasks, PlannedNotes, PlannedLoss

\* A row of an upload is written where its message is still open, or keeps its message.
LEMMA FilesKeepMessages ==
  ASSUME Planned, [OfficeNext]_officeVars, NEW f \in File, file[f] # Absent, file[f].note # None
  PROVE  file'[f].note = file[f].note
<1>1. file[f] \in FileRow
  BY EventTypes
<1>2. ASSUME NEW e \in Evt, NEW g \in File, UploadFile(e, g) PROVE file'[f] = file[f]
  BY <1>2, EventTypes DEF UploadFile
<1>3. ASSUME NEW g \in File, DeleteFile(g) PROVE file'[f].note = file[f].note
  <2>1. PICK x : x = [file[g] EXCEPT !.deleted = TRUE]
    OBVIOUS
  <2>2. file' = [file EXCEPT ![g] = x]
    BY <1>3, <2>1 DEF DeleteFile
  <2>3. g = f => x.note = file[f].note
    BY <1>1, <2>1 DEF FileRow
  <2> QED
    BY <2>2, <2>3, EventTypes
<1>4. ASSUME NEW p \in Planner, LinkFiles(p) PROVE file'[f] = file[f]
  BY <1>4 DEF LinkFiles, Loose
<1>5. \/ UNCHANGED file
      \/ \E e \in Evt, g \in File : UploadFile(e, g)
      \/ \E g \in File : DeleteFile(g)
      \/ \E p \in Planner : LinkFiles(p)
  BY OfficeStepsEvents
     DEF eventVars, deskVars, RequestsBegin, TasksBegin, NotesBegin, EventsResume, EventsLoss, Visit,
         UpdateRequest, BinRequest, Create, CreateTask, AssignTask, AddOutside, RemoveOutside,
         ArchiveOutside, SyncTask, SendNote, SeedForm, SeedFields, Submit, CommitUpdate, Tell,
         CommitAssign, ReleaseTasks, MakeEntry, RecordEntry, Mail, StoreNote, PlannerLost
<1> QED
  BY <1>2, <1>3, <1>4, <1>5

(***************************************************************************)
(* Informed: with one request after the other.                             *)
(***************************************************************************)

LEMMA InformedMoves ==
  ASSUME Planned, Informed, NEW p \in Planner, plan[p] # Idle \/ Lone(plan), NEW q, Plans(p, q),
         DOMAIN evt' = Evt, Tells(q)', q = Idle => (\A e \in Evt : Agreed(e))'
  PROVE  Informed'
<1>1. DOMAIN plan = Planner /\ \A o \in Planner \ {p} : plan[o] = Idle
  BY EventTypes DEF Informed, OneAtATime, Lone
<1>2. DOMAIN plan' = Planner /\ plan'[p] = q /\ \A o \in Planner \ {p} : plan'[o] = Idle
  BY <1>1 DEF Plans
<1>3. OneAtATime(plan)'
  BY <1>2 DEF OneAtATime
<1>4. Tells(Idle)'
  BY DEF Tells, Idle
<1>5. \A o \in Planner : Tells(plan[o])'
  BY <1>2, <1>4
<1>6. StatusTold'
  BY <1>2 DEF StatusTold, Lone, Agreed, Present
<1> QED
  BY <1>3, <1>5, <1>6 DEF Informed

LEMMA InformedAround ==
  ASSUME Planned, Informed, Lone(plan), UNCHANGED plan, DOMAIN evt' = Evt,
         (\A e \in Evt : Agreed(e))'
  PROVE  Informed'
<1>1. \A p \in Planner : plan[p] = Idle
  BY EventTypes DEF Lone
<1>2. Tells(Idle)'
  BY DEF Tells, Idle
<1> QED
  BY <1>1, <1>2 DEF Informed, OneAtATime, StatusTold, Agreed, Present

\* Who is idle, or is not about to mail, finds all mails sent.
LEMMA AllAgree ==
  ASSUME Planned, Informed,
         Lone(plan) \/ \E p \in Planner : plan[p].op \notin {"tell", "idle"}
  PROVE  \A e \in Evt : Agreed(e)
  BY EventTypes DEF Informed, StatusTold, Tells, Agreed, Present
LEMMA InformedKept ==
  ASSUME Planned, Informed, NEW p \in Planner, NEW q, Plans(p, q), UNCHANGED <<evt, told>>,
         Lone(plan) \/ plan[p].op \notin {"tell", "idle"}, q.op \notin {"tell", "update"}
  PROVE  Informed'
<1>1. \A e \in Evt : Agreed(e)
  BY AllAgree
<1>2. (\A e \in Evt : Agreed(e))' /\ DOMAIN evt' = Evt
  BY <1>1, EventTypes DEF Agreed, LastHeard
<1>3. Tells(q)'
  BY <1>2 DEF Tells
<1>4. plan[p] # Idle \/ Lone(plan)
  BY DEF Idle
<1> QED
  BY <1>2, <1>3, <1>4, InformedMoves

LEMMA InformedBegins ==
  ASSUME Planned, Informed, Lone(plan), RequestsBegin \/ TasksBegin \/ NotesBegin
  PROVE  Informed'
<1> USE EventTypes
<1>0. \A e \in Evt : Agreed(e)
  BY AllAgree
<1>1. ASSUME UNCHANGED <<evt, told, plan>> PROVE Informed'
  <2>1. (\A e \in Evt : Agreed(e))' /\ DOMAIN evt' = Evt
    BY <1>0, <1>1 DEF Agreed, LastHeard
  <2> QED
    BY <1>1, <2>1, InformedAround
<1>2. ASSUME NEW p \in Planner, NEW e \in Evt, NEW crew \in SUBSET Crew, Visit(p, e, crew)
      PROVE  Informed'
  <2>1. PICK q : q = [op |-> "form", evt |-> e, crew |-> crew, saw |-> catalog]
    OBVIOUS
  <2>2. q.op = "form"
    BY <2>1
  <2> QED
    BY <1>2, <2>1, <2>2, InformedKept DEF Visit
<1>3. ASSUME NEW p \in Planner, NEW e \in Evt, NEW crew \in SUBSET Crew, NEW s \in EvtStatus,
             UpdateRequest(p, e, s, crew)
      PROVE  Informed'
  <2>1. PICK q : q = [op |-> "update", evt |-> e, was |-> evt[e].status, status |-> s, crew |-> crew]
    OBVIOUS
  <2>2. q.op = "update" /\ q.evt = e /\ q.was = evt[e].status /\ UNCHANGED <<evt, told>>
    BY <1>3, <2>1 DEF UpdateRequest
  <2>3. (\A o \in Evt : Agreed(o))' /\ DOMAIN evt' = Evt
    BY <1>0, <2>2 DEF Agreed, LastHeard
  <2>4. Tells(q)'
    BY <2>2, <2>3 DEF Tells
  <2> QED
    BY <1>3, <2>1, <2>3, <2>4, InformedMoves DEF UpdateRequest
<1>4. ASSUME NEW e \in Evt, NEW deleted \in BOOLEAN, BinRequest(e, deleted) PROVE Informed'
  <2>1. PICK x : x = [evt[e] EXCEPT !.deleted = deleted]
    OBVIOUS
  <2>2. evt[e] \in EvtRow
    BY <1>4 DEF BinRequest
  <2>3. x.status = evt[e].status
    BY <2>1, <2>2 DEF EvtRow
  <2>4. evt' = [evt EXCEPT ![e] = x] /\ UNCHANGED <<told, plan>>
    BY <1>4, <2>1 DEF BinRequest
  <2>5. (\A o \in Evt : Agreed(o))' /\ DOMAIN evt' = Evt
    BY <1>0, <2>2, <2>3, <2>4 DEF Agreed, LastHeard
  <2> QED
    BY <2>4, <2>5, InformedAround
<1>5. ASSUME NEW e \in Evt, NEW crew \in SUBSET Crew, Create(e, crew) PROVE Informed'
  <2>1. PICK x : x = [status |-> Opening(crew), deleted |-> FALSE, public |-> FALSE, crew |-> crew,
                      completed |-> FALSE, cancelled |-> FALSE]
    OBVIOUS
  <2>2. x.status = Opening(crew)
    BY <2>1
  <2>3. /\ evt' = [evt EXCEPT ![e] = x] /\ UNCHANGED plan /\ LastHeard(e)' = Opening(crew)
        /\ \A o \in Evt \ {e} : LastHeard(o)' = LastHeard(o)
    BY <1>5, <2>1, HeardNow DEF Create, Opening, EvtStatus
  <2>4. (\A o \in Evt : Agreed(o))' /\ DOMAIN evt' = Evt
    BY <1>0, <2>2, <2>3 DEF Agreed
  <2> QED
    BY <2>3, <2>4, InformedAround
<1>6. CASE RequestsBegin
  BY <1>2, <1>3, <1>4, <1>5, <1>6 DEF RequestsBegin
<1>7. CASE TasksBegin
  <2>1. ASSUME NEW p \in Planner, NEW t \in Task, NEW u \in Crew \cup {None, "keep"},
               NEW x \in Outside \cup {None, "keep"}, AssignTask(p, t, u, x)
        PROVE  Informed'
    <3>1. [op |-> "assign", task |-> t, user |-> u, outside |-> x, evt |-> None].op = "assign"
      OBVIOUS
    <3> QED
      BY <2>1, <3>1, InformedKept DEF AssignTask
  <2>2. ASSUME NEW p \in Planner, NEW e \in Evt, NEW x \in Outside, RemoveOutside(p, e, x)
        PROVE  Informed'
    BY <2>2, InformedKept DEF RemoveOutside
  <2>3. ASSUME NEW p \in Planner, NEW t \in Task, SyncTask(p, t) PROVE Informed'
    BY <2>3, InformedKept DEF SyncTask
  <2> QED
    BY <1>1, <1>7, <2>1, <2>2, <2>3 DEF TasksBegin, CreateTask, AddOutside, ArchiveOutside
<1>8. CASE NotesBegin
  <2>1. ASSUME NEW p \in Planner, NEW n \in Note, NEW e \in Evt, NEW public \in BOOLEAN,
               NEW files \in SUBSET File, SendNote(p, n, e, public, files)
        PROVE  Informed'
    <3>1. PICK op \in {"mail", "store"} : op = IF public THEN "mail" ELSE "store"
      OBVIOUS
    <3> QED
      BY <2>1, <3>1, InformedKept DEF SendNote
  <2> QED
    BY <1>1, <1>8, <2>1 DEF NotesBegin, UploadFile, DeleteFile
<1> QED
  BY <1>6, <1>7, <1>8

LEMMA InformedResumes ==
  ASSUME Planned, Informed, EventsResume
  PROVE  Informed'
<1> USE EventTypes
<1>0. Idle.op = "idle"
  BY DEF Idle
<1>1. ASSUME NEW p \in Planner, SeedForm(p) \/ SeedFields(p) PROVE Informed'
  <2>1. PICK v : v = plan[p]
    OBVIOUS
  <2>2. v \in [op : {"form", "fields", "submit"}, evt : Evt, crew : SUBSET Crew,
              saw : {"none", "bare", "full"}] /\ v.op \in {"form", "fields"}
    BY <1>1, <2>1, PlanFields DEF SeedForm, SeedFields
  <2>3. PICK q, r : q = [v EXCEPT !.op = "submit"] /\ r = [v EXCEPT !.op = "fields"]
    OBVIOUS
  <2>4. q.op = "submit" /\ r.op = "fields"
    BY <2>2, <2>3
  <2>5. Plans(p, Idle) \/ Plans(p, q) \/ Plans(p, r)
    BY <1>1, <2>1, <2>3 DEF SeedForm, SeedFields
  <2>6. UNCHANGED <<evt, told>>
    BY <1>1 DEF SeedForm, SeedFields
  <2> QED
    BY <1>0, <2>1, <2>2, <2>4, <2>5, <2>6, InformedKept
<1>2. ASSUME NEW p \in Planner, Submit(p) PROVE Informed'
  <2>1. PICK v : v = plan[p]
    OBVIOUS
  <2>2. v.op = "submit" /\ v.evt \in Evt /\ v # Idle
    BY <1>2, <2>1, PlanFields DEF Submit, Idle
  <2>3. PICK x : x = [status |-> Opening(v.crew), deleted |-> FALSE, public |-> TRUE, crew |-> v.crew,
                      completed |-> FALSE, cancelled |-> FALSE]
    OBVIOUS
  <2>4. x.status = Opening(v.crew)
    BY <2>3
  <2>5. /\ evt' = [evt EXCEPT ![v.evt] = x] /\ Plans(p, Idle)
        /\ LastHeard(v.evt)' = Opening(v.crew)
        /\ \A o \in Evt \ {v.evt} : LastHeard(o)' = LastHeard(o)
    BY <1>2, <2>1, <2>2, <2>3, HeardNow DEF Submit, Opening, EvtStatus
  <2>6. \A e \in Evt : Agreed(e)
    BY <2>1, <2>2, AllAgree
  <2>7. (\A e \in Evt : Agreed(e))' /\ DOMAIN evt' = Evt
    BY <2>2, <2>4, <2>5, <2>6 DEF Agreed
  <2>8. Tells(Idle)'
    BY <1>0 DEF Tells
  <2> QED
    BY <2>1, <2>2, <2>5, <2>7, <2>8, InformedMoves
<1>3. ASSUME NEW p \in Planner, CommitUpdate(p) PROVE Informed'
  <2>1. PICK v : v = plan[p]
    OBVIOUS
  <2>2. v.op = "update" /\ v.evt \in Evt /\ v # Idle /\ v.was = evt[v.evt].status
        /\ evt[v.evt] \in EvtRow
    BY <1>3, <2>1, PlanFields DEF CommitUpdate, Idle, Informed, Tells, Planned, PlansReady, Ready
  <2>3. PICK x : x = [evt[v.evt] EXCEPT !.status = v.status, !.crew = v.crew,
                                        !.completed = @ \/ v.status = "COMPLETED",
                                        !.cancelled = @ \/ v.status = "CANCELLED"]
    OBVIOUS
  <2>4. x.status = v.status
    BY <2>2, <2>3 DEF EvtRow
  <2>5. evt' = [evt EXCEPT ![v.evt] = x] /\ UNCHANGED told
    BY <1>3, <2>1, <2>2, <2>3 DEF CommitUpdate
  <2>6. \A e \in Evt : Agreed(e)
    BY <2>1, <2>2, AllAgree
  <2>7. PICK q : q = [op |-> "tell", evt |-> v.evt, status |-> v.status]
    OBVIOUS
  <2>8. q.op = "tell" /\ q.evt = v.evt /\ q.status = v.status
    BY <2>7
  <2>9. (\A e \in Evt \ {v.evt} : Agreed(e))' /\ DOMAIN evt' = Evt
    BY <2>2, <2>5, <2>6 DEF Agreed, LastHeard
  <2>10. CASE v.status = v.was
    <3>1. Plans(p, Idle)
      BY <1>3, <2>1, <2>10 DEF CommitUpdate
    <3>2. (\A e \in Evt : Agreed(e))'
      BY <2>2, <2>4, <2>5, <2>6, <2>10 DEF Agreed, LastHeard
    <3>3. Tells(Idle)'
      BY <1>0 DEF Tells
    <3> QED
      BY <2>1, <2>2, <2>9, <3>1, <3>2, <3>3, InformedMoves
  <2>11. CASE v.status # v.was
    <3>1. Plans(p, q)
      BY <1>3, <2>1, <2>7, <2>11 DEF CommitUpdate
    <3>2. Tells(q)' /\ q # Idle
      BY <1>0, <2>2, <2>4, <2>5, <2>8, <2>9 DEF Tells
    <3> QED
      BY <2>1, <2>2, <2>9, <3>1, <3>2, InformedMoves
  <2> QED
    BY <2>10, <2>11
<1>4. ASSUME NEW p \in Planner, Tell(p) PROVE Informed'
  <2>1. PICK v : v = plan[p]
    OBVIOUS
  <2>2. /\ v.op = "tell" /\ v.evt \in Evt /\ v # Idle /\ evt[v.evt].status = v.status
        /\ \A e \in Evt \ {v.evt} : Agreed(e)
    BY <1>4, <2>1, PlanFields DEF Tell, Idle, Informed, Tells
  <2>3. /\ LastHeard(v.evt)' = v.status /\ UNCHANGED evt /\ Plans(p, Idle)
        /\ \A o \in Evt \ {v.evt} : LastHeard(o)' = LastHeard(o)
    BY <1>4, <2>1, <2>2, PlanFields, HeardNow DEF Tell
  <2>4. (\A e \in Evt : Agreed(e))' /\ DOMAIN evt' = Evt
    BY <2>2, <2>3 DEF Agreed
  <2>5. Tells(Idle)'
    BY <1>0 DEF Tells
  <2> QED
    BY <2>1, <2>2, <2>3, <2>4, <2>5, InformedMoves
<1>5. ASSUME NEW p \in Planner, CommitAssign(p) \/ ReleaseTasks(p) \/ RecordEntry(p) \/ LinkFiles(p)
      PROVE  Informed'
  BY <1>0, <1>5, InformedKept DEF CommitAssign, ReleaseTasks, RecordEntry, LinkFiles
<1>6. ASSUME NEW p \in Planner, MakeEntry(p) PROVE Informed'
  <2>1. PICK q : Plans(p, q) /\ q.op = "record"
    BY <1>6 DEF MakeEntry
  <2> QED
    BY <1>6, <2>1, InformedKept DEF MakeEntry
<1>7. ASSUME NEW p \in Planner, Mail(p) \/ StoreNote(p) PROVE Informed'
  <2>1. PICK v : v = plan[p]
    OBVIOUS
  <2>2. v \in [op : {"mail", "store", "link"}, evt : Evt, note : Note, public : BOOLEAN,
              files : SUBSET File] /\ v.op \in {"mail", "store"}
    BY <1>7, <2>1, PlanFields DEF Mail, StoreNote
  <2>3. PICK q, r : q = [v EXCEPT !.op = "store"] /\ r = [v EXCEPT !.op = "link"]
    OBVIOUS
  <2>4. q.op = "store" /\ r.op = "link"
    BY <2>2, <2>3
  <2>5. (Plans(p, Idle) \/ Plans(p, q) \/ Plans(p, r)) /\ UNCHANGED <<evt, told>>
    BY <1>7, <2>1, <2>3 DEF Mail, StoreNote
  <2> QED
    BY <1>0, <2>1, <2>2, <2>4, <2>5, InformedKept
<1> QED
  BY <1>1, <1>2, <1>3, <1>4, <1>5, <1>6, <1>7 DEF EventsResume

LEMMA EventsInvInit ==
  ASSUME OfficeInit PROVE EventsInv
<1>1. EventsInit \/ EventsOpen
  BY DEF OfficeInit
<1>2. Planned
  BY <1>1, PlannedInit
<1>3. \A p \in Planner : plan[p] = Idle
  BY <1>1 DEF EventsInit, EventsOpen
<1>4. Tells(Idle)
  BY DEF Tells, Idle
<1>5. OneAtATime(plan)
  BY <1>2, <1>3, EventTypes DEF OneAtATime
<1>6. ASSUME NEW e \in Evt PROVE Agreed(e)
  BY <1>1 DEF EventsInit, EventsOpen, Agreed, LastHeard, None
<1>7. StatusTold
  BY <1>2, <1>6, EventTypes DEF StatusTold, Agreed, Present
<1> QED
  BY <1>2, <1>3, <1>4, <1>5, <1>7 DEF EventsInv, Informed

LEMMA EventsInvStep ==
  ASSUME EventsInv, [OfficeNext]_officeVars
  PROVE  EventsInv'
<1>1. Planned'
  BY PlannedStep DEF EventsInv
<1>2. ASSUME alone, UNCHANGED eventVars PROVE Informed'
  BY <1>2 DEF EventsInv, eventVars, Informed, OneAtATime, StatusTold, Lone, Tells, Agreed, LastHeard,
              Present
<1>3. alone => Informed'
  BY <1>2, OfficeStepsEvents, InformedBegins, InformedResumes DEF EventsInv
<1> QED
  BY <1>1, <1>3, OfficeStepsEvents DEF EventsInv

\* First visitors racing, tasks reassigned, mails failing, requests dying anywhere: a public
\* request finds its form complete, a task has one assignee, a public message on record was
\* mailed, and an upload stays with the message that got it first; with one request after
\* the other the last status mail names the status, unless it could not be sent.
THEOREM EventsAlwaysSafe == OfficeSpec => EventsSafe
<1>1. EventsInv => /\ EventsTypeOK /\ FormBeforeRequest /\ SingleAssignee /\ StoredWasMailed
                   /\ alone => StatusTold
  BY DEF EventsInv, Planned, Tables, Informed
<1>2. EventsInv /\ [OfficeNext]_officeVars
        => [\A f \in File : file[f] # Absent /\ file[f].note # None
                               => file'[f].note = file[f].note]_eventVars
  BY FilesKeepMessages DEF EventsInv
<1> QED
  BY <1>1, <1>2, EventsInvInit, EventsInvStep, PTL DEF OfficeSpec, EventsSafe, FileKeepsMessage
==============================================================================
