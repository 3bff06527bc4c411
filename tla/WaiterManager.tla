--------------------------- MODULE WaiterManager ---------------------------
(***************************************************************************)
(* core/waiters.go: clients that found no data register a channel of one   *)
(* slot and wait on it; notify sends a token to as many of them as there   *)
(* is data and forgets them; channels of clients that leave without having *)
(* been notified are reused through a sync.Pool.  Every operation holds    *)
(* mu, so each is one step.                                                *)
(*                                                                         *)
(* A registration id is used by the client it was given to and by nobody   *)
(* else, so the client stands for it: registered is the domain of the map  *)
(* ws and chanOf its values (and the client's own copy of the channel,     *)
(* which outlives its entry in the map).                                   *)
(***************************************************************************)
EXTENDS Naturals, FiniteSets

CONSTANTS Clients,             \* callers of BlockingRead
          Channels,            \* bound: channels made by the pool's New
          None,                \* no channel
          Sizes,               \* the dataSizes notify is called with
          MaxWaitersPerBatch,  \* 64 in the code
          MaxTotalWaiters      \* 1024 in the code

ASSUME WaiterAssumption ==
  /\ IsFiniteSet(Clients) /\ None \notin Channels /\ Sizes \subseteq Nat
  /\ MaxWaitersPerBatch \in Nat /\ MaxTotalWaiters \in Nat

VARIABLES
  registered,  \* the clients with an entry in ws
  chanOf,      \* the channel of each client's registration
  chans,       \* what each channel holds: "new" before it is made
  pool,        \* channels in the sync.Pool
  closed,      \* Close was called
  pc,          \* "idle", "waiting" in the select, "leaving" it
  panicked     \* a closed channel was closed again

vars == <<registered, chanOf, chans, pool, closed, pc, panicked>>

Init ==
  /\ registered = {}
  /\ chanOf = [c \in Clients |-> None]
  /\ chans = [ch \in Channels |-> "new"]
  /\ pool = {}
  /\ closed = FALSE
  /\ pc = [c \in Clients |-> "idle"]
  /\ panicked = FALSE

(* Mutant: the channel taken stays in the pool. *)
register_Peek(c) ==
  /\ ~panicked /\ pc[c] = "idle"
  /\ \E ch \in Channels :
       /\ ch \in pool \/ chans[ch] = "new"
       /\ chanOf' = [chanOf EXCEPT ![c] = ch]
       /\ chans' = [chans EXCEPT ![ch] = IF @ = "new" THEN "empty" ELSE @]
  /\ registered' = registered \cup {c}
  /\ pc' = [pc EXCEPT ![c] = "waiting"]
  /\ UNCHANGED <<pool, closed, panicked>>

(* pool.Get: a pooled channel, or a new one. *)
register(c) ==
  /\ ~panicked /\ pc[c] = "idle"
  /\ \E ch \in Channels :
       /\ ch \in pool \/ chans[ch] = "new"
       /\ chanOf' = [chanOf EXCEPT ![c] = ch]
       /\ chans' = [chans EXCEPT ![ch] = IF @ = "new" THEN "empty" ELSE @]
       /\ pool' = pool \ {ch}
  /\ registered' = registered \cup {c}
  /\ pc' = [pc EXCEPT ![c] = "waiting"]
  /\ UNCHANGED <<closed, panicked>>

(* The client's receive: it takes the token, or sees the channel closed. *)
Receive(c) ==
  /\ ~panicked /\ pc[c] = "waiting"
  /\ chans[chanOf[c]] \in {"full", "closed"}
  /\ chans' = [chans EXCEPT ![chanOf[c]] = IF @ = "full" THEN "empty" ELSE @]
  /\ pc' = [pc EXCEPT ![c] = "leaving"]
  /\ UNCHANGED <<registered, chanOf, pool, closed, panicked>>

(* Another case of the client's select: its context ends, or stop closes. *)
GiveUp(c) ==
  /\ ~panicked /\ pc[c] = "waiting"
  /\ pc' = [pc EXCEPT ![c] = "leaving"]
  /\ UNCHANGED <<registered, chanOf, chans, pool, closed, panicked>>

(* Mutant: a channel goes back to the pool although its entry is gone. *)
unregister_Always(c) ==
  /\ ~panicked /\ pc[c] = "leaving"
  /\ pool' = pool \cup {chanOf[c]}
  /\ registered' = registered \ {c}
  /\ chanOf' = [chanOf EXCEPT ![c] = None]
  /\ pc' = [pc EXCEPT ![c] = "idle"]
  /\ UNCHANGED <<chans, closed, panicked>>

(* Mutant: the entry stays in the map. *)
unregister_Kept(c) ==
  /\ ~panicked /\ pc[c] = "leaving"
  /\ pool' = IF c \in registered THEN pool \cup {chanOf[c]} ELSE pool
  /\ pc' = [pc EXCEPT ![c] = "idle"]
  /\ UNCHANGED <<registered, chanOf, chans, closed, panicked>>

(* Only a channel that is still in the map goes back to the pool. *)
unregister(c) ==
  /\ ~panicked /\ pc[c] = "leaving"
  /\ pool' = IF c \in registered THEN pool \cup {chanOf[c]} ELSE pool
  /\ registered' = registered \ {c}
  /\ chanOf' = [chanOf EXCEPT ![c] = None]
  /\ pc' = [pc EXCEPT ![c] = "idle"]
  /\ UNCHANGED <<chans, closed, panicked>>

(* _min(MaxWaitersPerBatch, dataSize, MaxTotalWaiters) *)
TotalToNotify(dataSize) ==
  CHOOSE m \in {MaxWaitersPerBatch, dataSize, MaxTotalWaiters} :
    \A k \in {MaxWaitersPerBatch, dataSize, MaxTotalWaiters} : m <= k

(* The sets of waiters one call may notify: the map is ranged over in any  *)
(* order, until totalToNotify have been sent to or the map is empty.       *)
Notifiable(dataSize) ==
  {S \in SUBSET registered :
     \/ Cardinality(S) = TotalToNotify(dataSize)
     \/ S = registered /\ Cardinality(S) < TotalToNotify(dataSize)}

(* Mutant: waiters are forgotten whether or not they were sent to. *)
notify_Forgetful(dataSize) ==
  /\ ~panicked /\ ~closed /\ dataSize > 0
  /\ \E S \in Notifiable(dataSize) :
       chans' = [ch \in Channels |->
                   IF \E c \in S : chanOf[c] = ch THEN "full" ELSE chans[ch]]
  /\ registered' = {}
  /\ UNCHANGED <<chanOf, pool, closed, pc, panicked>>

(* The non-blocking send fills the slot (a full one stays full), and the   *)
(* waiters sent to leave the map.                                          *)
notify(dataSize) ==
  /\ ~panicked /\ ~closed /\ dataSize > 0
  /\ \E S \in Notifiable(dataSize) :
       /\ chans' = [ch \in Channels |->
                      IF \E c \in S : chanOf[c] = ch THEN "full" ELSE chans[ch]]
       /\ registered' = registered \ S
  /\ UNCHANGED <<chanOf, pool, closed, pc, panicked>>

(* Every registered channel is closed and stays in the map; closing one a  *)
(* second time panics.                                                     *)
Close ==
  /\ ~panicked
  /\ closed' = TRUE
  /\ panicked' = \E c \in registered : chans[chanOf[c]] = "closed"
  /\ chans' = [ch \in Channels |->
                 IF \E c \in registered : chanOf[c] = ch THEN "closed" ELSE chans[ch]]
  /\ UNCHANGED <<registered, chanOf, pool, pc>>

Next ==
  \/ \E c \in Clients : register(c) \/ Receive(c) \/ GiveUp(c) \/ unregister(c)
  \/ \E n \in Sizes : notify(n)
  \/ Close

Spec == Init /\ [][Next]_vars

-----------------------------------------------------------------------------
ChannelStates == {"new", "empty", "full", "closed"}

(* Every variable keeps its type, and a client inside a call has a channel. *)
TypeOK ==
  /\ registered \subseteq Clients
  /\ chanOf \in [Clients -> Channels \cup {None}]
  /\ chans \in [Channels -> ChannelStates]
  /\ pool \subseteq Channels
  /\ closed \in BOOLEAN /\ panicked \in BOOLEAN
  /\ pc \in [Clients -> {"idle", "waiting", "leaving"}]
  /\ \A c \in Clients : chanOf[c] = None <=> pc[c] = "idle"

(* No two clients inside a call share a channel, and none of them uses a   *)
(* channel that is in the pool: a token always goes to the client it was   *)
(* meant for, although channels are reused.                                *)
NoSharedChannel ==
  \A c \in Clients : chanOf[c] # None =>
    /\ chanOf[c] \notin pool
    /\ \A d \in Clients : chanOf[d] = chanOf[c] => d = c

(* Until Close, a channel in the pool or in the map holds no token: a new  *)
(* waiter is never woken by the notification of an earlier one, and the    *)
(* non-blocking send of notify, which would lose its token and its waiter  *)
(* if the slot were full, always succeeds.                                 *)
ChannelsClean ==
  ~closed =>
    /\ \A ch \in pool : chans[ch] = "empty"
    /\ \A c \in registered : chans[chanOf[c]] = "empty"

(* Auxiliary to the proofs: a registered client is inside a call, and a     *)
(* channel in use or in the pool has been made.                            *)
Made(ch) == chans[ch] # "new"

InUseMade ==
  /\ \A c \in registered : chanOf[c] # None
  /\ \A c \in Clients : chanOf[c] # None => Made(chanOf[c])
  /\ \A ch \in pool : Made(ch)

(* A client that waits can still be woken: it is in the map, or its token  *)
(* or the close of its channel is there to be received.                    *)
NoForgottenWaiter ==
  \A c \in Clients : pc[c] = "waiting" =>
    c \in registered \/ chans[chanOf[c]] \in {"full", "closed"}
=============================================================================
