------------------------ MODULE WaiterManager_proofs ------------------------
(***************************************************************************)
(* Theorems about WaiterManager, for every set of clients, every number of *)
(* channels and every size of notification.                                *)
(***************************************************************************)
EXTENDS WaiterManager, TLAPS

(* NoSharedChannel alone is not inductive: register may take a channel it  *)
(* believes new (InUseMade says that none in use looks new), and           *)
(* ChannelsClean needs NoSharedChannel so that a token sent to one waiter  *)
(* does not fill the channel of another or of the pool.                    *)
WInv == /\ TypeOK /\ InUseMade /\ NoSharedChannel /\ ChannelsClean
        /\ NoForgottenWaiter

LEMMA WInit == Init => WInv
  BY WaiterAssumption
  DEF Init, WInv, TypeOK, InUseMade, NoSharedChannel, ChannelsClean,
      NoForgottenWaiter, ChannelStates, Made

LEMMA RegisterStep ==
  ASSUME WInv, NEW c \in Clients, register(c)
  PROVE  WInv'
<1> USE WaiterAssumption DEF WInv
<1>1. PICK ch \in Channels :
        /\ ch \in pool \/ chans[ch] = "new"
        /\ chanOf' = [chanOf EXCEPT ![c] = ch]
        /\ chans' = [chans EXCEPT ![ch] = IF chans[ch] = "new" THEN "empty" ELSE chans[ch]]
        /\ pool' = pool \ {ch}
  BY DEF register
<1>2. /\ registered' = registered \cup {c}
      /\ pc' = [pc EXCEPT ![c] = "waiting"] /\ pc[c] = "idle"
      /\ UNCHANGED <<closed, panicked>>
  BY DEF register
<1>3. chanOf[c] = None /\ c \notin registered
  BY <1>2 DEF TypeOK, InUseMade
<1>4. \A d \in Clients : chanOf[d] # ch
  BY <1>1 DEF NoSharedChannel, InUseMade, Made, TypeOK
<1>5. TypeOK'
  BY <1>1, <1>2 DEF TypeOK, ChannelStates
<1>6. InUseMade'
  BY <1>1, <1>2, <1>3 DEF TypeOK, InUseMade, Made, ChannelStates
<1>7. NoSharedChannel'
  BY <1>1, <1>2, <1>4 DEF TypeOK, NoSharedChannel
<1>8. ChannelsClean'
  BY <1>1, <1>2, <1>3, <1>4 DEF TypeOK, ChannelsClean, InUseMade
<1>9. NoForgottenWaiter'
  BY <1>1, <1>2, <1>4 DEF TypeOK, NoForgottenWaiter
<1> QED
  BY <1>5, <1>6, <1>7, <1>8, <1>9

LEMMA ReceiveStep ==
  ASSUME WInv, NEW c \in Clients, Receive(c)
  PROVE  WInv'
<1> USE WaiterAssumption DEF WInv
<1>1. chanOf[c] \in Channels
  BY DEF Receive, TypeOK
<1>2. ~closed => c \notin registered
  BY DEF Receive, ChannelsClean
<1>3. TypeOK'
  BY <1>1 DEF Receive, TypeOK, ChannelStates
<1>4. InUseMade'
  BY <1>1 DEF Receive, TypeOK, InUseMade, Made
<1>5. NoSharedChannel'
  BY DEF Receive, NoSharedChannel
<1>6. ChannelsClean'
  BY <1>1, <1>2 DEF Receive, TypeOK, ChannelsClean
<1>7. NoForgottenWaiter'
  BY <1>1 DEF Receive, TypeOK, NoForgottenWaiter, NoSharedChannel
<1> QED
  BY <1>3, <1>4, <1>5, <1>6, <1>7

LEMMA GiveUpStep ==
  ASSUME WInv, NEW c \in Clients, GiveUp(c)
  PROVE  WInv'
  BY DEF WInv, GiveUp, TypeOK, InUseMade, Made, NoSharedChannel, ChannelsClean,
         NoForgottenWaiter, ChannelStates

LEMMA UnregisterStep ==
  ASSUME WInv, NEW c \in Clients, unregister(c)
  PROVE  WInv'
<1> USE WaiterAssumption DEF WInv
<1>1. chanOf[c] \in Channels
  BY DEF unregister, TypeOK
<1>2. TypeOK'
  BY <1>1 DEF unregister, TypeOK
<1>3. InUseMade'
  BY <1>1 DEF unregister, TypeOK, InUseMade, Made
<1>4. NoSharedChannel'
  BY <1>1 DEF unregister, TypeOK, NoSharedChannel
<1>5. ChannelsClean'
  BY <1>1 DEF unregister, TypeOK, ChannelsClean
<1>6. NoForgottenWaiter'
  BY DEF unregister, TypeOK, NoForgottenWaiter
<1> QED
  BY <1>2, <1>3, <1>4, <1>5, <1>6

LEMMA NotifyStep ==
  ASSUME WInv, NEW n \in Sizes, notify(n)
  PROVE  WInv'
<1> USE WaiterAssumption DEF WInv
<1>1. PICK S \in SUBSET registered :
        /\ chans' = [ch \in Channels |->
                       IF \E c \in S : chanOf[c] = ch THEN "full" ELSE chans[ch]]
        /\ registered' = registered \ S
  BY DEF notify, Notifiable
<1>2. UNCHANGED <<chanOf, pool, closed, pc, panicked>> /\ ~closed
  BY DEF notify
<1>3. TypeOK'
  BY <1>1, <1>2 DEF TypeOK, ChannelStates
<1>4. InUseMade'
  BY <1>1, <1>2 DEF TypeOK, InUseMade, Made
<1>5. NoSharedChannel'
  BY <1>2 DEF NoSharedChannel
<1>6. ChannelsClean'
  <2>1. \A ch \in pool' : chans'[ch] = "empty"
    BY <1>1, <1>2 DEF TypeOK, ChannelsClean, NoSharedChannel
  <2>2. \A c \in registered' : chans'[chanOf'[c]] = "empty"
    BY <1>1, <1>2 DEF TypeOK, ChannelsClean, NoSharedChannel, InUseMade
  <2> QED
    BY <2>1, <2>2 DEF ChannelsClean
<1>7. NoForgottenWaiter'
  BY <1>1, <1>2 DEF TypeOK, NoForgottenWaiter, NoSharedChannel
<1> QED
  BY <1>3, <1>4, <1>5, <1>6, <1>7

LEMMA CloseStep ==
  ASSUME WInv, Close
  PROVE  WInv'
<1> USE WaiterAssumption DEF WInv
<1>1. TypeOK'
  BY DEF Close, TypeOK, ChannelStates
<1>2. InUseMade'
  BY DEF Close, TypeOK, InUseMade, Made
<1>3. NoSharedChannel' /\ ChannelsClean'
  BY DEF Close, NoSharedChannel, ChannelsClean
<1>4. NoForgottenWaiter'
  BY DEF Close, TypeOK, NoForgottenWaiter
<1> QED
  BY <1>1, <1>2, <1>3, <1>4

LEMMA WStep == WInv /\ [Next]_vars => WInv'
<1> SUFFICES ASSUME WInv, [Next]_vars PROVE WInv'
  OBVIOUS
<1>1. CASE UNCHANGED vars
  BY <1>1 DEF vars, WInv, TypeOK, InUseMade, Made, NoSharedChannel,
              ChannelsClean, NoForgottenWaiter
<1>2. CASE Next
  BY <1>2, RegisterStep, ReceiveStep, GiveUpStep, UnregisterStep, NotifyStep,
     CloseStep DEF Next
<1> QED
  BY <1>1, <1>2

LEMMA WInvariant == Spec => []WInv
  BY WInit, WStep, PTL DEF Spec

(* Type correctness. *)
THEOREM WaiterTypeOK == Spec => []TypeOK
<1>1. WInv => TypeOK
  BY DEF WInv
<1> QED
  BY <1>1, WInvariant, PTL

(* For any number of clients and channels: reused channels are never       *)
(* shared, so unregister's "pool.Put only if still in the map" is enough.  *)
THEOREM ChannelsNeverShared == Spec => []NoSharedChannel
<1>1. WInv => NoSharedChannel
  BY DEF WInv
<1> QED
  BY <1>1, WInvariant, PTL

(* For any number of clients and channels: until Close no waiter starts    *)
(* with a stale token, and no send of notify falls into its default case.  *)
THEOREM ChannelsStayClean == Spec => []ChannelsClean
<1>1. WInv => ChannelsClean
  BY DEF WInv
<1> QED
  BY <1>1, WInvariant, PTL

(* For any number of clients, channels and any batch limits: notify never  *)
(* deletes a waiter it has not sent to.                                    *)
THEOREM NoWaiterForgotten == Spec => []NoForgottenWaiter
<1>1. WInv => NoForgottenWaiter
  BY DEF WInv
<1> QED
  BY <1>1, WInvariant, PTL
=============================================================================
