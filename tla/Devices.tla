------------------------------- MODULE Devices -------------------------------
(***************************************************************************)
(* Devices taken over from the remote access provider (devices.service.ts):*)
(* the synchronisation by hand and by timer, its lock and deferral, the    *)
(* refresh of one device, and the favourites.  Saved views of devices are  *)
(* written like those of tickets (Directory).                              *)
(*                                                                         *)
(* An agent's record is a machine with the id and the client it has now;   *)
(* the machine is what its host name says.  A detail snapshot is "rich"    *)
(* when it tells memory or disk usage, else "poor".                        *)
(***************************************************************************)
EXTENDS Requests

CONSTANTS Machine, Id, Customer, Device,   \* ids: of agents, of rows; names of clients
          Operator,                        \* request slots
          MaxCrashes                       \* bound

ASSUME OperatorAssumption == "auto" \notin Operator

VARIABLES
    agent,          \* at the provider: machine -> id, client, whether details are given
    settled,        \* bound: machines as they were last taken over
    device,         \* devices and remote_access_profiles
    customers,      \* names of clients
    favorite,       \* user_device_favorites of one user
    setting,        \* system_settings: remoteAccess...
    running,        \* DevicesService.runningAutoSyncs
    busy,           \* mailboxes or reports about to run
    crashes,
    sync            \* requests in progress, and the timer's sync in slot "auto"

deviceVars == <<agent, settled, device, customers, favorite, setting, running, busy, crashes, sync>>

Slots == Operator \cup {"auto"}
Agent == [machine : Machine, id : Id, client : Customer, rich : BOOLEAN]
DeviceRow == [machine : Machine, id : Id, client : Customer, detail : {"none", "poor", "rich"}]
Setting == [enabled : BOOLEAN, auto : BOOLEAN, due : BOOLEAN, lock : {"free", "held", "stale"}]

DevicesTypeOK ==
    /\ agent \in [Machine -> Agent]
    /\ device \in [Device -> DeviceRow \cup {Absent}]
    /\ customers \subseteq Customer
    /\ favorite \subseteq Device
    /\ setting \in Setting
    /\ sync["auto"] # Idle /\ sync["auto"].op # "defer" => running

DevicesInit ==
    /\ \E id \in [Machine -> Id], c \in Customer :
          /\ \A m, n \in Machine : id[m] = id[n] => m = n
          /\ agent = [m \in Machine |-> [machine |-> m, id |-> id[m], client |-> c, rich |-> TRUE]]
    /\ settled = Machine
    /\ device = [d \in Device |-> Absent]
    /\ customers = {} /\ favorite = {}
    /\ setting = [enabled |-> TRUE, auto |-> FALSE, due |-> FALSE, lock |-> "free"]
    /\ running = FALSE /\ busy = FALSE /\ crashes = 0
    /\ sync = [r \in Slots |-> Idle]

Syncs(r, q) == sync' = [sync EXCEPT ![r] = q]

(***************************************************************************)
(* The provider and the clock.                                             *)
(***************************************************************************)

\* An agent is reinstalled and has a new id, or moves to another client; bound: not both
\* before it is taken over again.  The details may be given or not.
Change(m, id, client, rich) ==
    /\ m \in settled
    /\ id = agent[m].id \/ client = agent[m].client
    /\ id # agent[m].id => /\ \A n \in Machine : agent[n].id # id
                          /\ \A d \in Present(device) : device[d].id # id
    /\ agent' = [agent EXCEPT ![m] = [machine |-> m, id |-> id, client |-> client, rich |-> rich]]
    /\ settled' = settled \ {m}
    /\ UNCHANGED <<device, customers, favorite, setting, running, busy, crashes, sync>>

\* remoteAccessNextAutoSyncAt passes; a lock is older than RMM_AUTO_SYNC_LOCK_STALE_MINUTES,
\* which no sync of a live process takes.
Clock ==
    /\ setting' = [setting EXCEPT !.due = setting.auto,
                                  !.lock = IF @ = "held" /\ ~running THEN "stale" ELSE @]
    /\ UNCHANGED <<agent, settled, device, customers, favorite, running, busy, crashes, sync>>

Mail == busy' = ~busy /\ UNCHANGED <<agent, settled, device, customers, favorite, setting, running, crashes, sync>>

(***************************************************************************)
(* syncRemoteAccessForOrganization.                                        *)
(***************************************************************************)

\* fetchAgents: one list; with refreshDetails each is asked for its details.
Fetch(r) ==
    /\ sync[r].op = "fetch"
    /\ \E answers \in BOOLEAN :
          Syncs(r, IF setting.enabled /\ answers
                   THEN [op |-> "match", auto |-> sync[r].auto,
                         left |-> {[agent[m] EXCEPT !.rich = @ /\ r # "auto"] : m \in Machine}]
                   ELSE [op |-> "end", auto |-> sync[r].auto])
    /\ UNCHANGED <<agent, settled, device, customers, favorite, setting, running, busy, crashes>>

\* findOrCreateClient.
FindOrCreateClient(name) == customers' = customers \cup {name}

\* Mutant: looked up by host name only.
MatchHost(r) ==
    /\ sync[r].op = "match"
    /\ \E a \in sync[r].left :
          LET found == {d \in Present(device) : device[d].machine = a.machine /\ device[d].client = a.client} IN
          \E d \in IF found # {} THEN found ELSE Device \ Present(device) :
             /\ Syncs(r, [op |-> "write", auto |-> sync[r].auto, left |-> sync[r].left \ {a}, agent |-> a,
                          device |-> d, known |-> found # {},
                          detail |-> IF found # {} THEN device[d].detail ELSE "none"])
             /\ FindOrCreateClient(a.client)
    /\ UNCHANGED <<agent, settled, device, favorite, setting, running, busy, crashes>>

\* The device has one of its identifiers, or its host name in the client.
Known(a) == {d \in Present(device) : \/ device[d].id = a.id
                                     \/ device[d].machine = a.machine /\ device[d].client = a.client}

Match(r) ==
    /\ sync[r].op = "match"
    /\ \E a \in sync[r].left :
          \E d \in IF Known(a) # {} THEN Known(a) ELSE Device \ Present(device) :
             /\ Syncs(r, [op |-> "write", auto |-> sync[r].auto, left |-> sync[r].left \ {a}, agent |-> a,
                          device |-> d, known |-> Known(a) # {},
                          detail |-> IF Known(a) # {} THEN device[d].detail ELSE "none"])
             /\ FindOrCreateClient(a.client)
    /\ UNCHANGED <<agent, settled, device, favorite, setting, running, busy, crashes>>

\* A row of its own for each create, whatever another sync has created meanwhile.
WriteDevice(r) ==
    /\ sync[r].op = "write"
    /\ LET q == sync[r] IN
       \E d \in IF q.known THEN {q.device} ELSE Device \ Present(device) :
          /\ device' = [device EXCEPT ![d] =
                          [machine |-> q.agent.machine, id |-> q.agent.id, client |-> q.agent.client,
                           detail |-> IF q.known THEN device[d].detail ELSE "none"]]
          /\ Syncs(r, [q EXCEPT !.op = "profile", !.device = d])
    /\ UNCHANGED <<agent, settled, customers, favorite, setting, running, busy, crashes>>

\* Mutant: the snapshot that came in.
Incoming(rich, existing) == IF rich THEN "rich" ELSE "poor"

\* pickBestRemoteAccessDetailSnapshot.
Best(rich, existing) == IF rich \/ existing = "rich" THEN "rich" ELSE "poor"

WriteProfile(r) ==
    /\ sync[r].op = "profile"
    /\ LET q == sync[r] IN
       /\ device' = [device EXCEPT ![q.device].detail = Best(q.agent.rich, q.detail)]
       /\ Syncs(r, IF q.left = {} THEN [op |-> "end", auto |-> q.auto]
                   ELSE [op |-> "match", auto |-> q.auto, left |-> q.left])
       /\ settled' = settled \cup {m \in Machine : agent[m].id = q.agent.id /\ agent[m].client = q.agent.client}
    /\ UNCHANGED <<agent, customers, favorite, setting, running, busy, crashes>>

\* The settings are written, after an error likewise; the timer's sync makes the next one
\* due as the settings said when it began, and frees the lock.
EndSync(r) ==
    /\ sync[r].op = "end"
    /\ setting' = IF r = "auto" THEN [setting EXCEPT !.due = ~sync[r].auto, !.lock = "free"] ELSE setting
    /\ running' = (running /\ r # "auto")
    /\ Syncs(r, Idle)
    /\ UNCHANGED <<agent, settled, device, customers, favorite, busy, crashes>>

(***************************************************************************)
(* Who starts it.                                                          *)
(***************************************************************************)

\* syncFromRemoteAccessProvider: no lock is looked at.
SyncByHand(r) ==
    /\ sync[r] = Idle /\ setting.enabled
    /\ Syncs(r, [op |-> "fetch", auto |-> setting.auto])
    /\ UNCHANGED <<agent, settled, device, customers, favorite, setting, running, busy, crashes>>

\* shouldDeferRemoteAccessAutoSync, deferRemoteAccessAutoSync.
Deferring == busy
Defer == setting' = [setting EXCEPT !.due = FALSE, !.lock = "free"]

\* Mutant: a lock that was left behind is respected forever.
ScanFree ==
    /\ sync["auto"] = Idle /\ ~running
    /\ setting.enabled /\ setting.auto /\ setting.due /\ setting.lock = "free"
    /\ \/ /\ Deferring /\ Defer
          /\ UNCHANGED <<running, sync>>
       \/ /\ ~Deferring
          /\ setting' = [setting EXCEPT !.lock = "held"]
          /\ running' = TRUE
          /\ Syncs("auto", [op |-> "fetch", auto |-> setting.auto])
    /\ UNCHANGED <<agent, settled, device, customers, favorite, busy, crashes>>

\* runDueRemoteAccessAutoSyncs: deferred while mailboxes or reports are about to run.
Scan ==
    /\ sync["auto"] = Idle /\ ~running
    /\ setting.enabled /\ setting.auto /\ setting.due /\ setting.lock # "held"
    /\ \/ /\ Deferring /\ Defer
          /\ UNCHANGED <<running, sync>>
       \/ /\ ~Deferring
          /\ setting' = [setting EXCEPT !.lock = "held"]
          /\ running' = TRUE
          /\ Syncs("auto", [op |-> "fetch", auto |-> setting.auto])
    /\ UNCHANGED <<agent, settled, device, customers, favorite, busy, crashes>>

\* updateRemoteAccessSettings: a change of schedule makes the next one due later, and the
\* lock is freed, also one in use.
UpdateSettings(enabled, auto) ==
    /\ setting' = [enabled |-> enabled, auto |-> enabled /\ auto,
                   due |-> setting.due /\ setting.auto /\ enabled /\ auto, lock |-> "free"]
    /\ UNCHANGED <<agent, settled, device, customers, favorite, running, busy, crashes, sync>>

(***************************************************************************)
(* One device.                                                             *)
(***************************************************************************)

\* refreshRemoteAccessDetails: the device is read and its agent asked.
Refresh(r, d) ==
    /\ sync[r] = Idle /\ setting.enabled /\ device[d] # Absent
    /\ \E m \in Machine :
          /\ agent[m].id = device[d].id
          /\ Syncs(r, [op |-> "refresh", device |-> d, agent |-> agent[m]])
    /\ UNCHANGED <<agent, settled, device, customers, favorite, setting, running, busy, crashes>>

\* The snapshot it gave, rich or not; the client is not written.
WriteDetails(r) ==
    /\ sync[r].op = "refresh"
    /\ LET q == sync[r] IN
       device' = [device EXCEPT ![q.device].id = q.agent.id, ![q.device].machine = q.agent.machine,
                                ![q.device].detail = IF q.agent.rich THEN "rich" ELSE "poor"]
    /\ Syncs(r, Idle)
    /\ UNCHANGED <<agent, settled, customers, favorite, setting, running, busy, crashes>>

SetFavorite(d, on) ==
    /\ device[d] # Absent
    /\ favorite' = IF on THEN favorite \cup {d} ELSE favorite \ {d}
    /\ UNCHANGED <<agent, settled, device, customers, setting, running, busy, crashes, sync>>

\* The process restarts: what ran is lost, the lock stays.
Crash ==
    /\ crashes < MaxCrashes
    /\ crashes' = crashes + 1
    /\ sync' = [r \in Slots |-> Idle]
    /\ running' = FALSE
    /\ UNCHANGED <<agent, settled, device, customers, favorite, setting, busy>>

DevicesBegin ==
    \/ \E r \in Operator : SyncByHand(r) \/ \E d \in Device : Refresh(r, d)
    \/ Scan
    \/ \E enabled, auto \in BOOLEAN : UpdateSettings(enabled, auto)
    \/ \E d \in Device, on \in BOOLEAN : SetFavorite(d, on)

DevicesWorld ==
    \/ \E m \in Machine, id \in Id, c \in Customer, rich \in BOOLEAN : Change(m, id, c, rich)
    \/ Clock \/ Mail

DevicesResume ==
    \E r \in Slots : Fetch(r) \/ Match(r) \/ WriteDevice(r) \/ WriteProfile(r) \/ EndSync(r) \/ WriteDetails(r)

\* What the timer goes on with; the provider answers or the request fails.
AutoStep ==
    Fetch("auto") \/ Match("auto") \/ WriteDevice("auto") \/ WriteProfile("auto") \/ EndSync("auto")

(***************************************************************************)
(* Properties.                                                             *)
(***************************************************************************)

\* One sync after the other, agents reinstalled or moved in between: no two devices stand
\* for one agent.
OneDevicePerAgent ==
    \A d, e \in Present(device) : device[d].id = device[e].id => d = e

\* One sync after the other: the timer's sync, which asks for no details, keeps those
\* there are; only a refresh of the device may lose them.
DetailsKept ==
    [][\A d \in Present(device) :
          device[d].detail = "rich" /\ device'[d].detail # "rich" =>
             \E r \in Operator : sync[r].op = "refresh"]_deviceVars

\* While automatic sync stays on and nothing defers it, a restart with the lock held
\* notwithstanding, syncs go on.
AutoSyncGoesOn ==
    <>[](setting.enabled /\ setting.auto /\ ~busy) => []<>(sync["auto"] # Idle /\ sync["auto"].op = "end")
==============================================================================
