------------------------------ MODULE Clients ------------------------------
(***************************************************************************)
(* Clients, their contacts and e-mail domains, and the tickets that one    *)
(* sender opens or answers by mail (clients.service.ts,                    *)
(* contacts.service.ts, client-domains.service.ts, create and              *)
(* createFromInboundEmail of tickets.service.ts).                          *)
(*                                                                         *)
(* Domains and addresses do not meet, so there is one of each: client      *)
(* domains are unique by name, contacts by client and address, deleted     *)
(* ones included.  A ticket's client and contact are sets of at most one   *)
(* client each ({} for null): a contact is named by its client.  "sent"    *)
(* tickets carry the sender's domain, those made by hand none.  The        *)
(* authors of a ticket's messages are left out.                            *)
(***************************************************************************)
EXTENDS Requests

CONSTANTS Client, Mail, Clerk   \* ids of clients, tickets, request slots

VARIABLES
    client,         \* clients
    domain,         \* the client_domains row of the sender's domain
    unmapped,       \* its unmapped_email_domains row
    contact,        \* the contact with the sender's address at each client
    opened,         \* the tickets the sender writes to
    desk,           \* requests in progress
    refused         \* history: a mail was refused

clientVars == <<client, domain, unmapped, contact, opened, desk, refused>>

Few == {{}} \cup {{c} : c \in Client}   \* a nullable reference

ClientsTypeOK ==
    /\ client \in [Client -> {Absent} \cup [status : {"active", "inactive"}, deleted : BOOLEAN]]
    /\ domain \in {Absent} \cup [client : Client, active : BOOLEAN]
    /\ unmapped \in {"none", "open", "resolved"}
    /\ contact \in [Client -> {"none", "live", "deleted"}]
    /\ \A t \in Present(opened) :
          /\ opened[t].client \in Few /\ opened[t].contact \in Few /\ opened[t].sent \in BOOLEAN
    /\ refused \in BOOLEAN

ClientsInit ==
    /\ client = [c \in Client |-> Absent]
    /\ domain = Absent
    /\ unmapped = "none"
    /\ contact = [c \in Client |-> "none"]
    /\ opened = [t \in Mail |-> Absent]
    /\ desk = [r \in Clerk |-> Idle]
    /\ refused = FALSE

Sits(r, q) == desk' = [desk EXCEPT ![r] = q]
Exists(c) == client[c] # Absent /\ ~client[c].deleted          \* ensureClientExists
Claimed == domain # Absent /\ domain.active
Orphans == {t \in Present(opened) : opened[t].sent /\ opened[t].client = {}}

(***************************************************************************)
(* clients.service.ts                                                      *)
(***************************************************************************)

\* The transaction looks the domain up, then writes.
CreateClient(r, c, named) ==
    /\ desk[r] = Idle /\ client[c] = Absent /\ (named => ~Claimed)
    /\ Sits(r, [op |-> "open_client", client |-> c, named |-> named])
    /\ UNCHANGED <<client, domain, unmapped, contact, opened, refused>>

OpenClient(r) ==
    /\ desk[r].op = "open_client"
    /\ LET q == desk[r] IN
       /\ client[q.client] = Absent
       /\ client' = [client EXCEPT ![q.client] = [status |-> "active", deleted |-> FALSE]]
       /\ domain' = IF q.named THEN [client |-> q.client, active |-> TRUE] ELSE domain
    /\ Sits(r, Idle)
    /\ UNCHANGED <<unmapped, contact, opened, refused>>

UpdateClient(c, status) ==
    /\ Exists(c)
    /\ client' = [client EXCEPT ![c].status = status]
    /\ UNCHANGED <<domain, unmapped, contact, opened, desk, refused>>

\* Mutant: the domains left active.
SoftDeleteKeepsDomains(c) ==
    /\ Exists(c)
    /\ client' = [client EXCEPT ![c] = [status |-> "inactive", deleted |-> TRUE]]
    /\ UNCHANGED <<domain, unmapped, contact, opened, desk, refused>>

SoftDeleteClient(c) ==
    /\ Exists(c)
    /\ client' = [client EXCEPT ![c] = [status |-> "inactive", deleted |-> TRUE]]
    /\ domain' = IF domain # Absent /\ domain.client = c
                 THEN [domain EXCEPT !.active = FALSE] ELSE domain
    /\ UNCHANGED <<unmapped, contact, opened, desk, refused>>

(***************************************************************************)
(* client-domains.service.ts                                               *)
(***************************************************************************)

CreateDomain(r, c, active) ==
    /\ desk[r] = Idle /\ Exists(c) /\ ~Claimed
    /\ Sits(r, [op |-> "claim", client |-> c, active |-> active, new |-> domain = Absent])
    /\ UNCHANGED <<client, domain, unmapped, contact, opened, refused>>

\* An insert fails when the row came into being meanwhile.
ClaimDomain(r) ==
    /\ desk[r].op = "claim"
    /\ LET q == desk[r] IN
       domain' = IF q.new /\ domain # Absent THEN domain
                 ELSE [client |-> q.client, active |-> q.active]
    /\ Sits(r, Idle)
    /\ UNCHANGED <<client, unmapped, contact, opened, refused>>

\* update and deactivate.  No other row can hold the same domain.
UpdateDomain(active) ==
    /\ domain # Absent /\ Exists(domain.client)
    /\ domain' = [domain EXCEPT !.active = active]
    /\ UNCHANGED <<client, unmapped, contact, opened, desk, refused>>

\* associateUnmappedDomain reads the domain's tickets without a client, makes the contacts
\* they need, then the domain, then goes through the tickets, then closes the row.
Associate(r, c) ==
    /\ desk[r] = Idle /\ unmapped = "open" /\ Exists(c)
    /\ Claimed => domain.client = c
    /\ Sits(r, [op |-> IF Orphans = {} THEN "map" ELSE "know", client |-> c, left |-> Orphans,
                new |-> domain = Absent])
    /\ UNCHANGED <<client, domain, unmapped, contact, opened, refused>>

\* Looked up among the live contacts, inserted among all.
KnowSender(r) ==
    /\ desk[r].op = "know"
    /\ LET c == desk[r].client IN
       /\ contact' = [contact EXCEPT ![c] = IF @ = "none" THEN "live" ELSE @]
       /\ Sits(r, IF contact[c] = "deleted" THEN Idle ELSE [desk[r] EXCEPT !.op = "map"])
    /\ UNCHANGED <<client, domain, unmapped, opened, refused>>

MapDomain(r) ==
    /\ desk[r].op = "map"
    /\ LET q == desk[r] IN
       IF q.new /\ domain # Absent THEN Sits(r, Idle) /\ UNCHANGED domain
       ELSE /\ domain' = [client |-> q.client, active |-> TRUE]
            /\ Sits(r, [q EXCEPT !.op = IF q.left = {} THEN "resolve" ELSE "reassign"])
    /\ UNCHANGED <<client, unmapped, contact, opened, refused>>

\* Mutant: one ticket, then the domain counts as resolved.
ReassignOne(r) ==
    /\ desk[r].op = "reassign"
    /\ LET q == desk[r] IN
       \E t \in q.left :
          /\ opened' = [opened EXCEPT ![t].client = {q.client}, ![t].contact = {q.client}]
          /\ Sits(r, [q EXCEPT !.left = {}, !.op = "resolve"])
    /\ UNCHANGED <<client, domain, unmapped, contact, refused>>

ReassignTicket(r) ==
    /\ desk[r].op = "reassign"
    /\ LET q == desk[r] IN
       \E t \in q.left :
          /\ opened' = [opened EXCEPT ![t].client = {q.client}, ![t].contact = {q.client}]
          /\ Sits(r, [q EXCEPT !.left = @ \ {t},
                               !.op = IF q.left = {t} THEN "resolve" ELSE "reassign"])
    /\ UNCHANGED <<client, domain, unmapped, contact, refused>>

ResolveUnmapped(r) ==
    /\ desk[r].op = "resolve"
    /\ unmapped' = "resolved"
    /\ Sits(r, Idle)
    /\ UNCHANGED <<client, domain, contact, opened, refused>>

(***************************************************************************)
(* contacts.service.ts                                                     *)
(***************************************************************************)

\* create, and an update to the sender's address: ensureEmailAvailable looks at the live
\* contacts, the unique key at all.
CreateContact(r, c) ==
    /\ desk[r] = Idle /\ Exists(c) /\ contact[c] # "live"
    /\ Sits(r, [op |-> "add_contact", client |-> c])
    /\ UNCHANGED <<client, domain, unmapped, contact, opened, refused>>

AddContact(r) ==
    /\ desk[r].op = "add_contact"
    /\ contact' = [contact EXCEPT ![desk[r].client] = IF @ = "none" THEN "live" ELSE @]
    /\ Sits(r, Idle)
    /\ UNCHANGED <<client, domain, unmapped, opened, refused>>

\* softDelete, and an update to another address.
LeaveContact(c, then) ==
    /\ Exists(c) /\ contact[c] = "live"
    /\ contact' = [contact EXCEPT ![c] = then]
    /\ UNCHANGED <<client, domain, unmapped, opened, desk, refused>>

(***************************************************************************)
(* Tickets: those made by hand, then mails (resolveRequesterFromEmail,     *)
(* then the ticket).                                                       *)
(***************************************************************************)

\* create: any client and any contact, looked at by nothing but the foreign keys.
CreateTicket(t, cs, ks) ==
    /\ opened[t] = Absent /\ \A c \in cs \cup ks : client[c] # Absent
    /\ opened' = [opened EXCEPT ![t] = [client |-> cs, contact |-> ks, sent |-> FALSE]]
    /\ UNCHANGED <<client, domain, unmapped, contact, desk, refused>>

\* findClientMappingBySenderEmail.
Mapped == {c \in Client : /\ Claimed /\ domain.client = c
                          /\ Exists(c) /\ client[c].status = "active"}

\* The sender is looked up, then the ticket the mail answers, if any.
ReceiveMail(r, t) ==
    /\ desk[r] = Idle
    /\ LET unknown == {c \in Mapped : contact[c] # "live"} IN
       Sits(r, [op |-> IF unknown = {} THEN "file" ELSE "introduce", mail |-> t,
                who |-> Mapped, seen |-> opened[t], ours |-> TRUE])
    /\ UNCHANGED <<client, domain, unmapped, contact, opened, refused>>

\* Somebody of another domain answers the ticket, of some client or of none.
ReceiveOther(r, t, who) ==
    /\ desk[r] = Idle /\ opened[t] # Absent
    /\ \A c \in who : Exists(c) /\ client[c].status = "active"
    /\ Sits(r, [op |-> "file", mail |-> t, who |-> who, seen |-> opened[t], ours |-> FALSE])
    /\ UNCHANGED <<client, domain, unmapped, contact, opened, refused>>

\* The unique key counts deleted contacts: the insert fails and with it the mail.
IntroduceSender(r) ==
    /\ desk[r].op = "introduce"
    /\ LET q == desk[r] IN
       /\ contact' = [c \in Client |-> IF c \in q.who /\ contact[c] = "none" THEN "live"
                                       ELSE contact[c]]
       /\ IF \E c \in q.who : contact[c] # "none"
          THEN refused' = TRUE /\ Sits(r, Idle)
          ELSE UNCHANGED refused /\ Sits(r, [q EXCEPT !.op = "file"])
    /\ UNCHANGED <<client, domain, unmapped, opened>>

\* Mutant: a reply writes client and contact whatever the ticket has.
FileOver(r) ==
    /\ desk[r].op = "file"
    /\ LET q == desk[r] IN
       /\ opened' = [opened EXCEPT ![q.mail] =
                       IF q.seen = Absent
                       THEN [client |-> q.who, contact |-> q.who, sent |-> TRUE]
                       ELSE [@ EXCEPT !.client = q.who,
                                      !.contact = IF q.seen.contact = {} THEN q.who ELSE @]]
       /\ Sits(r, IF q.ours /\ q.who = {} THEN [op |-> "record"] ELSE Idle)
    /\ UNCHANGED <<client, domain, unmapped, contact, refused>>

\* A new ticket takes both; a reply fills in each that the ticket did not have when read.
FileMail(r) ==
    /\ desk[r].op = "file"
    /\ LET q == desk[r]
           filled == [opened[q.mail] EXCEPT !.client = IF q.seen.client = {} THEN q.who ELSE @,
                                            !.contact = IF q.seen.contact = {} THEN q.who ELSE @] IN
       /\ q.seen # Absent \/ opened[q.mail] = Absent
       /\ opened' = [opened EXCEPT ![q.mail] =
                       IF q.seen = Absent
                       THEN [client |-> q.who, contact |-> q.who, sent |-> TRUE]
                       ELSE filled]
       /\ Sits(r, IF q.ours /\ q.who = {} THEN [op |-> "record"] ELSE Idle)
    /\ UNCHANGED <<client, domain, unmapped, contact, refused>>

\* recordUnknownSenderDomain: a row that exists is counted up and stays resolved.
RecordUnknown(r) ==
    /\ desk[r].op = "record"
    /\ unmapped' = IF unmapped = "none" THEN "open" ELSE unmapped
    /\ Sits(r, Idle)
    /\ UNCHANGED <<client, domain, contact, opened, refused>>

ClerkLost(r) ==
    /\ desk[r] # Idle
    /\ Sits(r, Idle)
    /\ UNCHANGED <<client, domain, unmapped, contact, opened, refused>>

ClientsBegin ==
    \/ \E r \in Clerk, c \in Client :
          \/ \E named \in BOOLEAN : CreateClient(r, c, named)
          \/ \E active \in BOOLEAN : CreateDomain(r, c, active)
          \/ Associate(r, c) \/ CreateContact(r, c)
    \/ \E r \in Clerk, t \in Mail : ReceiveMail(r, t) \/ \E who \in Few : ReceiveOther(r, t, who)
    \/ \E t \in Mail, cs \in Few, ks \in Few : CreateTicket(t, cs, ks)
    \/ \E c \in Client :
          \/ \E status \in {"active", "inactive"} : UpdateClient(c, status)
          \/ \E then \in {"none", "deleted"} : LeaveContact(c, then)
          \/ SoftDeleteClient(c)
    \/ \E active \in BOOLEAN : UpdateDomain(active)

ClientsResume ==
    \E r \in Clerk :
       \/ OpenClient(r) \/ ClaimDomain(r) \/ KnowSender(r) \/ MapDomain(r)
       \/ ReassignTicket(r) \/ ResolveUnmapped(r) \/ AddContact(r) \/ IntroduceSender(r)
       \/ FileMail(r) \/ RecordUnknown(r)

ClientsNext == ClientsBegin \/ ClientsResume \/ \E r \in Clerk : ClerkLost(r)

ClientsSpec == ClientsInit /\ [][ClientsNext]_clientVars

(***************************************************************************)
(* Properties.                                                             *)
(***************************************************************************)

\* Requests overlapping, dying anywhere: the contact of a ticket that a mail opened is one
\* of its client's, whoever fills the two columns in and in whatever order.
ContactOfClient ==
    \A t \in Present(opened) : opened[t].sent => opened[t].contact = opened[t].client

\* One request after the other: mails are never matched to a client that was deleted,
\* and a domain is free for another client once its own is deleted.
DeletedClientsUnmapped == Claimed => ~client[domain.client].deleted

\* One request after the other: associating a domain leaves no earlier ticket of it
\* without a client.
AssociatesAll == unmapped # unmapped' /\ unmapped' = "resolved" => Orphans = {}

\* One request after the other: neither a mail nor the association of a domain replaces
\* the client or the contact that a ticket has.
ChoicesKept ==
    \A t \in Present(opened) :
       /\ opened[t].client # {} => opened'[t].client = opened[t].client
       /\ opened[t].contact # {} => opened'[t].contact = opened[t].contact

\* One request after the other: the documents promise that an inbound mail creates the
\* requester contact when needed and opens the ticket.
MailsAccepted == ~refused
==============================================================================
