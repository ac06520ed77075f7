----------------------------- MODULE PairStore -----------------------------
(***************************************************************************)
(* What one contact+conversation pair has in Redis, and the operations of  *)
(* pkg/pipeline/repository and pkg/debounce on it.  An operation is one    *)
(* Redis command, hence one atomic step (AppendAttachments is two, see     *)
(* there); the keys of two pairs are disjoint (stateKey, bufferKey,        *)
(* attachBufferKey, timerKey and lockKey all carry both ids), so one pair  *)
(* is the whole story.                                                     *)
(*                                                                         *)
(* A message event stands for its text, its attachments and its BotConfig. *)
(* Operators marked "Variant" are wrong on purpose: one is put in the      *)
(* place of the definition after it to see a property fail.                *)
(***************************************************************************)
CONSTANTS
    Events,         \* the message events posted for the pair
    Instances,      \* the replicas of the service
    ZeroDebounce,   \* events whose BotConfig.DebounceTime is 0
    WithMedia,      \* events that carry attachments
    None,           \* no event: a stage written without BotConfig, no entry
    Free            \* value of the lock key when it does not exist

ASSUME StoreAssumption ==
    /\ ZeroDebounce \subseteq Events
    /\ WithMedia \subseteq Events
    /\ None \notin Events \cup Instances
    /\ Free \notin Events \cup Instances
    /\ Events \cap Instances = {}

VARIABLES
    state,          \* bot_runtime:state:*   stage, and the event it was persisted from
    buffer,         \* bot_runtime:buffer:*  events whose text is in the list
    media,          \* bot_runtime:attach:*  events whose attachments are in the list
    timer,          \* bot_runtime:timer:*   whether the debounce key exists
    lock            \* bot_runtime:lock:*    who holds the redsync mutex

\* Process runs once per event and advanceToAI once per instance: they are the
\* two callers of AcquireLock, so an actor is named by its event or instance.
Actors == Events \cup Instances

\* "none" is the absent key: GetState returns nil, nil.
Stages == {"none", "incoming", "debounce", "ai", "dispatch", "done"}

Persisted == [stage : Stages, cfg : Events \cup {None}]

keys == <<state, buffer, media, timer>>

NoState == [stage |-> "none", cfg |-> None]

StoreTypeOK ==
    /\ state \in Persisted
    /\ buffer \in SUBSET Events
    /\ media \in SUBSET Events
    /\ timer \in BOOLEAN
    /\ lock \in Actors \cup {Free}

StoreInit ==
    /\ state = NoState
    /\ buffer = {}
    /\ media = {}
    /\ timer = FALSE
    /\ lock = Free

-----------------------------------------------------------------------------

\* SET state:  cfg is the event whose BotConfig and URLs are persisted with
\* the stage; only startDebounce persists them.
SetState(stage, cfg) ==
    /\ state' = [stage |-> stage, cfg |-> cfg]
    /\ UNCHANGED <<buffer, media, timer>>

\* Variant: the media list is not among the keys deleted.
ClearStateKeepsMedia ==
    /\ state' = NoState
    /\ buffer' = {}
    /\ timer' = FALSE
    /\ UNCHANGED media

\* DEL of the four keys in one command; the lock key is not among them.
ClearState ==
    /\ state' = NoState
    /\ buffer' = {}
    /\ media' = {}
    /\ timer' = FALSE

\* RPUSH.  The order of the list is not kept: appends are made under the lock
\* and no property looks at it.
AppendToBuffer(e) ==
    /\ buffer' = buffer \cup {e}
    /\ UNCHANGED <<state, media, timer>>

\* RPUSH of the attachments, and EXPIRE: between the two the list only lacks
\* its TTL.  With no attachments the call returns at once.
AppendAttachments(e) ==
    /\ media' = media \cup {e}
    /\ UNCHANGED <<state, buffer, timer>>

SetTimer ==
    /\ timer' = TRUE
    /\ UNCHANGED <<state, buffer, media>>

\* The TTL of the timer key runs out (DebounceTime seconds after SetTimer).
TimerElapses ==
    /\ timer
    /\ timer' = FALSE
    /\ UNCHANGED <<state, buffer, media>>

\* The TTL of the media list runs out (attachBufferTTL after the last append).
MediaElapses ==
    /\ media # {}
    /\ media' = {}
    /\ UNCHANGED <<state, buffer, timer>>

\* Variant: SET without NX.
AcquireLockAnyway(a) == lock' = a

\* SET NX of the lock key with one try.
AcquireLock(a) ==
    /\ lock = Free
    /\ lock' = a

\* redsync deletes the key only while it still holds this holder's value.
Release(a) == lock' = IF lock = a THEN Free ELSE lock

=============================================================================
