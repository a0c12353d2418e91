----------------------------- MODULE WifiStatus -----------------------------
(***************************************************************************)
(* The published status of the Wi-Fi manager.  ctx is written by the       *)
(* manager task without a lock; publish_status builds a copy of it and     *)
(* stores the copy in status_snapshot under status_mutex; readers copy the *)
(* snapshot under the same mutex, so storing and reading are single steps. *)
(* The manager publishes after each message -- and so does, once, the task *)
(* that ran wifi_manager_init, while the manager may be at work.           *)
(*                                                                         *)
(* ctx is reduced to the fields whose relation matters: initialized, state *)
(* (which the build reads twice, for state and for online) and the number  *)
(* of messages handled, which stands for every other field.                *)
(***************************************************************************)
EXTENDS Naturals, WifiStates

CONSTANT MaxMessages        \* bound of the model: messages handled

ASSUME MessageAssumption == MaxMessages \in Nat

Snapshot == [initialized : BOOLEAN, state : States, online : BOOLEAN,
             handled : 0 .. MaxMessages]

VARIABLES
    initialized,            \* ctx.initialized
    state,                  \* ctx.state
    handled,                \* messages handled so far
    snapshot,               \* ctx.status_snapshot
    managerPc,              \* the manager task in its loop
    managerCopy,            \* its local snapshot while it publishes
    initPc,                 \* the initialising task at the end of init
    initCopy,               \* its local snapshot
    freshBuild              \* history: the manager has begun a build since
                            \* init stored its snapshot

manager == <<managerPc, managerCopy>>
init == <<initPc, initCopy>>
vars == <<initialized, state, handled, snapshot, manager, init, freshBuild>>

TypeOK ==
    /\ initialized \in BOOLEAN
    /\ state \in States
    /\ handled \in 0 .. MaxMessages
    /\ snapshot \in Snapshot
    /\ managerPc \in {"receive", "build", "store"}
    /\ managerCopy \in Snapshot
    /\ initPc \in {"starting", "build", "build_online", "store", "returned"}
    /\ initCopy \in Snapshot
    /\ freshBuild \in BOOLEAN

\* esp_wifi_start has been called: the manager may already receive.
Empty == [initialized |-> FALSE, state |-> "INIT", online |-> FALSE, handled |-> 0]
Init ==
    /\ initialized = FALSE
    /\ state = "INIT"
    /\ handled = 0
    /\ snapshot = Empty
    /\ managerPc = "receive"
    /\ managerCopy = Empty
    /\ initPc = "starting"
    /\ initCopy = Empty
    /\ freshBuild = FALSE

\* Mutant: some message leaves the loop's body before the status is published.
ManagerHandles_SkipsPublish ==
    /\ managerPc = "receive"
    /\ handled < MaxMessages
    /\ state' \in Moves[state]
    /\ handled' = handled + 1
    /\ managerPc' \in {"build", "receive"}
    /\ UNCHANGED <<initialized, snapshot, managerCopy, init, freshBuild>>

\* wifi_manager_task handles a message: module WifiManager, whose property
\* FollowsMoves says what that does to the state.
ManagerHandles ==
    /\ managerPc = "receive"
    /\ handled < MaxMessages
    /\ state' \in Moves[state]
    /\ handled' = handled + 1
    /\ managerPc' = "build"
    /\ UNCHANGED <<initialized, snapshot, managerCopy, init, freshBuild>>

Online == state = "ONLINE"

\* wifi_manager_build_status by the task that writes ctx: only initialized is
\* written by another.
ManagerBuilds ==
    /\ managerPc = "build"
    /\ managerCopy' = [initialized |-> initialized, state |-> state,
                       online |-> Online, handled |-> handled]
    /\ managerPc' = "store"
    /\ freshBuild' = (initPc = "returned")
    /\ UNCHANGED <<initialized, state, handled, snapshot, init>>

ManagerStores ==
    /\ managerPc = "store"
    /\ snapshot' = managerCopy
    /\ managerPc' = "receive"
    /\ UNCHANGED <<initialized, state, handled, managerCopy, init, freshBuild>>

\* wifi_manager_init: ctx.initialized = true; wifi_manager_publish_status().
InitDone ==
    /\ initPc = "starting"
    /\ initialized' = TRUE
    /\ initPc' = "build"
    /\ UNCHANGED <<state, handled, snapshot, manager, initCopy, freshBuild>>

\* The same build in the other task: it reads ctx.state once for state and
\* once more for online, and the counters after that.
InitBuildsState ==
    /\ initPc = "build"
    /\ initCopy' = [initCopy EXCEPT !.initialized = initialized, !.state = state]
    /\ initPc' = "build_online"
    /\ UNCHANGED <<initialized, state, handled, snapshot, manager, freshBuild>>

InitBuildsRest ==
    /\ initPc = "build_online"
    /\ initCopy' = [initCopy EXCEPT !.online = Online, !.handled = handled]
    /\ initPc' = "store"
    /\ UNCHANGED <<initialized, state, handled, snapshot, manager, freshBuild>>

InitStores ==
    /\ initPc = "store"
    /\ snapshot' = initCopy
    /\ initPc' = "returned"
    /\ UNCHANGED <<initialized, state, handled, manager, initCopy, freshBuild>>

Manager == ManagerHandles \/ ManagerBuilds \/ ManagerStores
InitTask == InitDone \/ InitBuildsState \/ InitBuildsRest \/ InitStores

Next == Manager \/ InitTask

Spec == Init /\ [][Next]_vars

-----------------------------------------------------------------------------
Ctx == [initialized |-> initialized, state |-> state,
        online |-> state = "ONLINE", handled |-> handled]

\* Once the manager has published a status it began to build after
\* wifi_manager_init returned, what readers see between two messages is the
\* manager's whole state, whatever stale status either task stored before.
SettledStatusIsCurrent ==
    freshBuild /\ managerPc = "receive" => snapshot = Ctx

\* status_read_task: online is the same as state = WIFI_STATE_ONLINE in every
\* snapshot it can read, from the start on.
StatusReaderAssertion == snapshot.online <=> snapshot.state = "ONLINE"
=============================================================================
