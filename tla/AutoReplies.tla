----------------------------- MODULE AutoReplies -----------------------------
(***************************************************************************)
(* Automatic replies (auto-replies.service.ts): the templates, which of    *)
(* them answers a new ticket, and the history that keeps a sender from     *)
(* being answered twice a day in one conversation.                         *)
(*                                                                         *)
(* Only the ticket templates have a mailbox; those for events are the case *)
(* "no mailbox".  Texts and variables are left out.                        *)
(***************************************************************************)
EXTENDS Requests

CONSTANTS Template, Customer, Inbox,   \* ids of templates, clients, mailboxes
          Thread,                      \* pairs of a sender and a conversation
          Writer,                      \* request slots
          MaxAnswers                   \* bound: mails of one thread to answer

ASSUME ScopesAssumption == {"none", "keep"} \cap (Customer \cup Inbox) = {} /\ MaxAnswers \in Nat

VARIABLES
    template,      \* auto_reply_templates
    answered,      \* threads with a history row of the last day
    sent,          \* replies handed to the provider in the last day, per thread
    arrived,       \* mails that opened a ticket, per thread
    reply          \* requests in progress

replyVars == <<template, answered, sent, arrived, reply>>

Nobody == "none"
TemplateRow == [scope : {"GLOBAL", "CLIENT"}, client : Customer \cup {Nobody},
                inbox : Inbox \cup {Nobody}, active : BOOLEAN]

RepliesTypeOK ==
    /\ template \in [Template -> TemplateRow \cup {Absent}]
    /\ answered \subseteq Thread
    /\ sent \in [Thread -> 0 .. MaxAnswers]
    /\ arrived \in [Thread -> 0 .. MaxAnswers]

RepliesInit ==
    /\ template = [t \in Template |-> Absent]
    /\ answered = {}
    /\ sent = [h \in Thread |-> 0]
    /\ arrived = [h \in Thread |-> 0]
    /\ reply = [w \in Writer |-> Idle]

Replies(w, q) == reply' = [reply EXCEPT ![w] = q]

(***************************************************************************)
(* Templates.                                                              *)
(***************************************************************************)

\* validateTemplateScope.
ValidScope(scope, client) == scope = "CLIENT" => client # Nobody

CreateTemplate(t, scope, client, inbox) ==
    /\ template[t] = Absent /\ ValidScope(scope, client)
    /\ template' = [template EXCEPT ![t] =
                      [scope |-> scope, client |-> IF scope = "CLIENT" THEN client ELSE Nobody,
                       inbox |-> inbox, active |-> TRUE]]
    /\ UNCHANGED <<answered, sent, arrived, reply>>

\* Mutant: the client kept or set whatever the scope.
EditKeepingClient(w, t, scope, client) ==
    /\ reply[w] = Idle /\ template[t] # Absent
    /\ LET nextScope == IF scope = "keep" THEN template[t].scope ELSE scope
           nextClient == IF client = "keep" THEN template[t].client ELSE client IN
       /\ ValidScope(nextScope, nextClient)
       /\ Replies(w, [op |-> "edit", template |-> t, scope |-> scope, client |-> nextClient])
    /\ UNCHANGED <<template, answered, sent, arrived>>

\* update merges the input with the row it read; "keep" is a field left out.
EditTemplate(w, t, scope, client) ==
    /\ reply[w] = Idle /\ template[t] # Absent
    /\ LET nextScope == IF scope = "keep" THEN template[t].scope ELSE scope
           nextClient == IF client = "keep" THEN template[t].client ELSE client IN
       /\ ValidScope(nextScope, nextClient)
       /\ Replies(w, [op |-> "edit", template |-> t, scope |-> scope,
                      client |-> IF scope = "keep" /\ client = "keep" THEN "keep"
                                 ELSE IF nextScope = "CLIENT" THEN nextClient ELSE Nobody])
    /\ UNCHANGED <<template, answered, sent, arrived>>

CommitEdit(w) ==
    /\ reply[w].op = "edit"
    /\ LET q == reply[w] IN
       template' = [template EXCEPT
                      ![q.template].scope = IF q.scope = "keep" THEN @ ELSE q.scope,
                      ![q.template].client = IF q.client = "keep" THEN @ ELSE q.client]
    /\ Replies(w, Idle)
    /\ UNCHANGED <<answered, sent, arrived>>

\* remove, and update with isActive.
SwitchTemplate(t, active) ==
    /\ template[t] # Absent
    /\ template' = [template EXCEPT ![t].active = active]
    /\ UNCHANGED <<answered, sent, arrived, reply>>

(***************************************************************************)
(* Which template answers.                                                 *)
(***************************************************************************)

Serves(t, client) ==
    /\ template[t] # Absent /\ template[t].active
    /\ template[t].scope = "GLOBAL" \/ (client # Nobody /\ template[t].client = client)

\* Mutant: the mailbox looked at before the scope.
ByInboxFirst(client, inbox) ==
    LET of(scope, box) == {t \in Template : Serves(t, client) /\ template[t].scope = scope
                                              /\ template[t].inbox = box} IN
    IF of("CLIENT", inbox) # {} THEN of("CLIENT", inbox)
    ELSE IF of("GLOBAL", inbox) # {} THEN of("GLOBAL", inbox)
    ELSE IF of("CLIENT", Nobody) # {} THEN of("CLIENT", Nobody)
    ELSE of("GLOBAL", Nobody)

\* findTemplateForTicket and, without mailbox, findTemplateForEvent: the latest of these.
FindTemplate(client, inbox) ==
    LET of(scope, box) == {t \in Template : Serves(t, client) /\ template[t].scope = scope
                                              /\ template[t].inbox = box} IN
    IF of("CLIENT", inbox) # {} THEN of("CLIENT", inbox)
    ELSE IF of("CLIENT", Nobody) # {} THEN of("CLIENT", Nobody)
    ELSE IF of("GLOBAL", inbox) # {} THEN of("GLOBAL", inbox)
    ELSE of("GLOBAL", Nobody)

(***************************************************************************)
(* Answering.                                                              *)
(***************************************************************************)

\* Mutant: no look at the history.
AnswerAnyway(w, h) ==
    /\ reply[w] = Idle /\ arrived[h] < MaxAnswers
    /\ arrived' = [arrived EXCEPT ![h] = @ + 1]
    /\ Replies(w, [op |-> "choose", thread |-> h])
    /\ UNCHANGED <<template, answered, sent>>

\* A mail opens a ticket: sendForNewInboundTicket; shouldSuppressAutoReply may say no,
\* hasRecentAutoReply counts.
Answer(w, h) ==
    /\ reply[w] = Idle /\ arrived[h] < MaxAnswers
    /\ arrived' = [arrived EXCEPT ![h] = @ + 1]
    /\ Replies(w, IF h \in answered THEN Idle ELSE [op |-> "choose", thread |-> h])
    /\ UNCHANGED <<template, answered, sent>>

\* The template is chosen and the mail handed over; without a template or without
\* outbound mail nothing happens.
SendReply(w, client, inbox) ==
    /\ reply[w].op = "choose"
    /\ \/ /\ FindTemplate(client, inbox) # {}
          /\ sent' = [sent EXCEPT ![reply[w].thread] = @ + 1]
          /\ Replies(w, [op |-> "history", thread |-> reply[w].thread])
       \/ /\ Replies(w, Idle)
          /\ UNCHANGED sent
    /\ UNCHANGED <<template, answered, arrived>>

\* The message is stored and the history written.
WriteHistory(w) ==
    /\ reply[w].op = "history"
    /\ answered' = answered \cup {reply[w].thread}
    /\ Replies(w, Idle)
    /\ UNCHANGED <<template, sent, arrived>>

RepliesBegin ==
    \/ \E t \in Template, scope \in {"GLOBAL", "CLIENT"}, c \in Customer \cup {Nobody},
          b \in Inbox \cup {Nobody} : CreateTemplate(t, scope, c, b)
    \/ \E w \in Writer, t \in Template, scope \in {"GLOBAL", "CLIENT", "keep"},
          c \in Customer \cup {Nobody, "keep"} : EditTemplate(w, t, scope, c)
    \/ \E t \in Template, active \in BOOLEAN : SwitchTemplate(t, active)
    \/ \E w \in Writer, h \in Thread : Answer(w, h)

RepliesResume ==
    \E w \in Writer :
       \/ CommitEdit(w) \/ WriteHistory(w)
       \/ \E c \in Customer \cup {Nobody}, b \in Inbox \cup {Nobody} : SendReply(w, c, b)

(***************************************************************************)
(* Properties.                                                             *)
(***************************************************************************)

\* One administrator at a time: a template for a client names one, a global one does not,
\* whatever sequence of partial edits led there.
ScopeNamesClient ==
    \A t \in Present(template) : (template[t].scope = "CLIENT") = (template[t].client # Nobody)

\* For every client and mailbox: the template chosen serves them, and no template that
\* serves them is closer, the client counting more than the mailbox.
PicksClosest ==
    \A c \in Customer \cup {Nobody}, b \in Inbox \cup {Nobody} :
       LET fits == {t \in Template : Serves(t, c) /\ template[t].inbox \in {b, Nobody}}
           near(t) == (IF template[t].scope = "CLIENT" THEN 2 ELSE 0)
                        + (IF template[t].inbox = b THEN 1 ELSE 0)
       IN  FindTemplate(c, b) = {t \in fits : \A s \in fits : near(s) <= near(t)}

\* One mail after the other: a conversation is answered once a day, however many tickets
\* its mails open.
AnsweredOnce == \A h \in Thread : sent[h] <= 1
==============================================================================
