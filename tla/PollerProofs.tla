---------------------------- MODULE PollerProofs ----------------------------
(***************************************************************************)
(* For any number of channels and descriptors, and whatever is reused: the *)
(* channel, the poller and the kernel agree on what is watched, epoll_ctl  *)
(* never fails, and the pointers of a round are live.                      *)
(***************************************************************************)
EXTENDS Poller, TLAPS

-----------------------------------------------------------------------------
(* Type correctness                                                        *)

\* epoll_ctl, called with an interest the channel can have, leaves a well-formed
\* interest list.
LEMMA UpdateType ==
  ASSUME TypeOK, NEW c \in Addresses, NEW interest \in Interest,
         NEW operation \in {"ADD", "MOD", "DEL"}, update(operation, c, interest)
  PROVE  /\ epoll' \in [Fds -> [ptr : Addresses, events : Interest] \cup {NotWatched}]
         /\ ctlFailed' \in SUBSET {"ADD", "MOD", "DEL"}
BY DEF update, TypeOK, NotWatched, Interest, kNoneEvent

LEMMA PollerTypeInit == Init => TypeOK
BY DEF Init, TypeOK, NotWatched, Interest, kNoneEvent, kNew, kAdd, kDelete

\* A change of interest preserves the types.
LEMMA SetEventsType ==
  ASSUME TypeOK, NEW c \in Addresses, NEW interest \in Interest, SetEvents(c, interest)
  PROVE  TypeOK'
<1> USE DEF SetEvents, kNew, kAdd, kDelete, loopVars
<1>1. CASE WatchChannel(c, interest)
  BY <1>1, UpdateType DEF WatchChannel, TypeOK
<1>2. CASE SuspendChannel(c, interest)
  BY <1>2, UpdateType DEF SuspendChannel, TypeOK
<1>3. CASE ModifyChannel(c, interest)
  BY <1>3, UpdateType DEF ModifyChannel, TypeOK
<1>4. CASE NothingToWatch(c, interest)
  BY <1>4 DEF NothingToWatch, TypeOK
<1> QED
  BY <1>1, <1>2, <1>3, <1>4 DEF updateChannel

\* Every channel operation is a change of interest.
LEMMA InterestOps ==
  ASSUME TypeOK, NEW c \in Addresses,
         \/ enableReading(c) \/ disableReading(c)
         \/ enableWriting(c) \/ disableWriting(c) \/ disableAll(c)
  PROVE  \E interest \in Interest : SetEvents(c, interest)
BY DEF TypeOK, Interest, enableReading, disableReading, enableWriting, disableWriting,
       disableAll, kReadEvent, kWriteEvent, kNoneEvent

LEMMA RemoveType ==
  ASSUME TypeOK, NEW c \in Addresses, remove(c)
  PROVE  TypeOK'
<1> USE DEF remove, kNew, kAdd, kDelete, loopVars
<1>1. CASE index_[c] = kAdd
  <2>1. events_[c] \in Interest /\ update("DEL", c, events_[c])
    BY <1>1 DEF removeChannel, TypeOK
  <2> QED
    BY <1>1, <2>1, UpdateType DEF removeChannel, TypeOK
<1>2. CASE index_[c] # kAdd
  BY <1>2 DEF removeChannel, TypeOK
<1> QED
  BY <1>1, <1>2

LEMMA PollerTypeStep == TypeOK /\ [Next]_vars => TypeOK'
<1> SUFFICES ASSUME TypeOK, [Next]_vars PROVE TypeOK'
  OBVIOUS
<1> USE DEF channelVars, pollerVars, loopVars
<1>1. ASSUME NEW c \in Addresses, NEW fd \in Fds, Construct(c, fd) PROVE TypeOK'
  BY <1>1 DEF Construct, TypeOK, Interest, kNoneEvent, kNew
<1>2. ASSUME NEW c \in Addresses, Destruct(c) PROVE TypeOK'
  BY <1>2 DEF Destruct, TypeOK
<1>3. ASSUME NEW ready \in SUBSET {fd \in Fds : Watched(fd)}, poll(ready) PROVE TypeOK'
  BY <1>3, NullAssumption DEF poll, TypeOK, Watched, NotWatched
<1>4. ASSUME NEW c \in Addresses, handleEvent(c) PROVE TypeOK'
  BY <1>4 DEF handleEvent, TypeOK
<1>5. CASE EndEvents \/ EndFunctors
  BY <1>5 DEF EndEvents, EndFunctors, TypeOK
<1>6. CASE UNCHANGED vars
  BY <1>6 DEF vars, TypeOK
<1> QED
  BY <1>1, <1>2, <1>3, <1>4, <1>5, <1>6, SetEventsType, InterestOps, RemoveType
  DEF Next, ChannelStep

-----------------------------------------------------------------------------
(* The three records agree                                                 *)

LEMMA PollerInvInit == Init => PollerInv
<1> SUFFICES ASSUME Init PROVE PollerInv
  OBVIOUS
<1> USE NullAssumption DEF Init, NotWatched, kNew, kAdd, kDelete
<1>1. PollerMirror /\ OwnersDisjoint
  BY DEF PollerMirror, OwnersDisjoint
<1>2. NoStaleEntry /\ EpollCtlNeverFails /\ ActiveChannelsLive
  BY DEF NoStaleEntry, EpollCtlNeverFails, ActiveChannelsLive
<1> QED
  BY <1>1, <1>2 DEF PollerInv

\* A new channel is unknown to the poller and the kernel, since whatever they hold
\* belongs to a live channel and this one was not.
LEMMA ConstructInv ==
  ASSUME TypeOK, PollerInv, NEW c \in Addresses, NEW fd \in Fds, Construct(c, fd)
  PROVE  PollerInv'
<1> USE NullAssumption DEF Construct, TypeOK, PollerInv, pollerVars, loopVars
<1>1. \A g \in Fds : channels_[g] # c /\ epoll[g].ptr # c
  BY DEF NoStaleEntry
<1>2. PollerMirror'
  BY <1>1 DEF PollerMirror, ChannelMirrored, kNew, kAdd, kDelete, Watched, NotWatched
<1>3. NoStaleEntry'
  BY <1>1 DEF NoStaleEntry
<1>4. OwnersDisjoint'
  BY DEF OwnersDisjoint
<1>5. (EpollCtlNeverFails /\ ActiveChannelsLive)'
  BY DEF EpollCtlNeverFails, ActiveChannelsLive
<1> QED
  BY <1>2, <1>3, <1>4, <1>5

\* A change of interest: the operation given to epoll_ctl is the right one for what
\* the kernel holds, and the channel's records move together.
LEMMA SetEventsInv ==
  ASSUME TypeOK, PollerInv, NEW c \in Addresses, NEW interest \in Interest,
         SetEvents(c, interest)
  PROVE  PollerInv'
<1> USE NullAssumption DEF SetEvents, TypeOK, PollerInv, loopVars, kNew, kAdd, kDelete, NotWatched
<1>1. /\ fd_[c] \in Fds
      /\ ChannelMirrored(c)
      /\ \A d \in Addresses : d # c /\ life[d] # "none" => fd_[d] # fd_[c]
  BY DEF PollerMirror, OwnersDisjoint
<1>2. index_[c] = kNew => ~Watched(fd_[c])
  BY <1>1 DEF ChannelMirrored, NoStaleEntry, Watched
<1>3. CASE WatchChannel(c, interest)
  <2>1. ~Watched(fd_[c])
    BY <1>1, <1>2, <1>3 DEF WatchChannel, ChannelMirrored
  <2>2. /\ epoll' = [epoll EXCEPT ![fd_[c]] = [ptr |-> c, events |-> interest]]
        /\ ctlFailed' = ctlFailed
    BY <1>3, <2>1 DEF WatchChannel, update
  <2>3. channels_' = [channels_ EXCEPT ![fd_[c]] = c]
    BY <1>1, <1>3 DEF WatchChannel, ChannelMirrored
  <2>4. PollerMirror'
    BY <1>1, <1>3, <2>2, <2>3 DEF WatchChannel, PollerMirror, ChannelMirrored, Watched
  <2>5. NoStaleEntry'
    BY <1>1, <1>3, <2>2, <2>3 DEF WatchChannel, NoStaleEntry
  <2> QED
    BY <1>3, <2>2, <2>4, <2>5
    DEF WatchChannel, EpollCtlNeverFails, ActiveChannelsLive, OwnersDisjoint
<1>4. CASE SuspendChannel(c, interest)
  <2>1. Watched(fd_[c])
    BY <1>1, <1>4 DEF SuspendChannel, ChannelMirrored, Watched
  <2>2. /\ epoll' = [epoll EXCEPT ![fd_[c]] = NotWatched]
        /\ ctlFailed' = ctlFailed
    BY <1>4, <2>1 DEF SuspendChannel, update
  <2>3. PollerMirror'
    BY <1>1, <1>4, <2>2 DEF SuspendChannel, PollerMirror, ChannelMirrored, Watched
  <2>4. NoStaleEntry'
    BY <1>1, <1>4, <2>2 DEF SuspendChannel, NoStaleEntry
  <2> QED
    BY <1>4, <2>2, <2>3, <2>4
    DEF SuspendChannel, EpollCtlNeverFails, ActiveChannelsLive, OwnersDisjoint
<1>5. CASE ModifyChannel(c, interest)
  <2>1. Watched(fd_[c])
    BY <1>1, <1>5 DEF ModifyChannel, ChannelMirrored, Watched
  <2>2. /\ epoll' = [epoll EXCEPT ![fd_[c]] = [ptr |-> c, events |-> interest]]
        /\ ctlFailed' = ctlFailed
    BY <1>5, <2>1 DEF ModifyChannel, update
  <2>3. PollerMirror'
    BY <1>1, <1>5, <2>2 DEF ModifyChannel, PollerMirror, ChannelMirrored, Watched
  <2>4. NoStaleEntry'
    BY <1>1, <1>5, <2>2 DEF ModifyChannel, NoStaleEntry, ChannelMirrored
  <2> QED
    BY <1>5, <2>2, <2>3, <2>4
    DEF ModifyChannel, EpollCtlNeverFails, ActiveChannelsLive, OwnersDisjoint
<1>6. CASE NothingToWatch(c, interest)
  <2>1. PollerMirror'
    BY <1>1, <1>6 DEF NothingToWatch, PollerMirror, ChannelMirrored, Watched
  <2> QED
    BY <1>6, <2>1
    DEF NothingToWatch, NoStaleEntry, EpollCtlNeverFails, ActiveChannelsLive, OwnersDisjoint
<1> QED
  BY <1>3, <1>4, <1>5, <1>6 DEF updateChannel

\* remove() takes the channel out of both records (EPollPoller.cc:81-98); it runs
\* when no pointer of a round is left.
LEMMA RemoveInv ==
  ASSUME TypeOK, PollerInv, NEW c \in Addresses, remove(c)
  PROVE  PollerInv'
<1> USE NullAssumption DEF remove, TypeOK, PollerInv, loopVars, kNew, kAdd, kDelete, NotWatched
<1>1. /\ fd_[c] \in Fds
      /\ ChannelMirrored(c)
      /\ \A d \in Addresses : d # c /\ life[d] # "none" => fd_[d] # fd_[c]
  BY DEF PollerMirror, OwnersDisjoint
<1>2. (ActiveChannelsLive /\ OwnersDisjoint)'
  BY DEF ActiveChannelsLive, OwnersDisjoint
<1>3. CASE index_[c] = kNew
  <2>1. UNCHANGED <<channels_, index_, epoll, ctlFailed>>
    BY <1>3 DEF removeChannel
  <2>2. PollerMirror' /\ EpollCtlNeverFails'
    BY <1>3, <2>1 DEF PollerMirror, ChannelMirrored, Watched, EpollCtlNeverFails
  <2>3. NoStaleEntry'
    BY <1>1, <1>3, <2>1 DEF NoStaleEntry, ChannelMirrored
  <2> QED
    BY <1>2, <1>3, <2>1, <2>2, <2>3
<1>4. CASE index_[c] # kNew
  <2>1. /\ channels_' = [channels_ EXCEPT ![fd_[c]] = Null]
        /\ index_' = [index_ EXCEPT ![c] = kNew]
    BY <1>4 DEF removeChannel
  <2>2. /\ epoll' = [epoll EXCEPT ![fd_[c]] = NotWatched]
        /\ ctlFailed' = ctlFailed
    BY <1>1, <1>4 DEF removeChannel, ChannelMirrored, update, Watched
  <2>3. PollerMirror' /\ EpollCtlNeverFails'
    BY <1>1, <2>1, <2>2 DEF PollerMirror, ChannelMirrored, NoStaleEntry, Watched, EpollCtlNeverFails
  <2>4. NoStaleEntry'
    BY <1>1, <2>1, <2>2 DEF NoStaleEntry, ChannelMirrored
  <2> QED
    BY <1>2, <2>1, <2>2, <2>3, <2>4
<1> QED
  BY <1>3, <1>4

LEMMA PollerInvStep == TypeOK /\ PollerInv /\ [Next]_vars => PollerInv'
<1> SUFFICES ASSUME TypeOK, PollerInv, [Next]_vars PROVE PollerInv'
  OBVIOUS
<1> USE DEF channelVars, pollerVars, loopVars
<1>1. ASSUME NEW c \in Addresses, Destruct(c) PROVE PollerInv'
  <2> USE <1>1, NullAssumption DEF Destruct, TypeOK, PollerInv
  <2>1. \A fd \in Fds : channels_[fd] # c
    BY DEF NoStaleEntry
  <2>2. PollerMirror'
    BY DEF PollerMirror, ChannelMirrored, Watched, NotWatched
  <2>3. NoStaleEntry'
    BY <2>1 DEF NoStaleEntry
  <2> QED
    BY <2>2, <2>3 DEF EpollCtlNeverFails, ActiveChannelsLive, OwnersDisjoint
<1>2. ASSUME UNCHANGED <<channelVars, pollerVars>>
      PROVE  (PollerMirror /\ NoStaleEntry /\ EpollCtlNeverFails /\ OwnersDisjoint)'
  BY <1>2 DEF PollerInv, PollerMirror, ChannelMirrored, Watched, NoStaleEntry,
              EpollCtlNeverFails, OwnersDisjoint
<1>3. ASSUME NEW ready \in SUBSET {fd \in Fds : Watched(fd)}, poll(ready) PROVE PollerInv'
  <2>1. ActiveChannelsLive'
    BY <1>3, NullAssumption
    DEF poll, TypeOK, PollerInv, NoStaleEntry, ActiveChannelsLive, Watched, NotWatched
  <2> QED
    BY <1>2, <1>3, <2>1 DEF poll, PollerInv
<1>4. ASSUME NEW c \in Addresses, handleEvent(c) PROVE PollerInv'
  BY <1>2, <1>4 DEF handleEvent, PollerInv, ActiveChannelsLive
<1>5. CASE EndEvents \/ EndFunctors
  BY <1>2, <1>5 DEF EndEvents, EndFunctors, PollerInv, ActiveChannelsLive
<1>6. CASE UNCHANGED vars
  BY <1>2, <1>6 DEF vars, PollerInv, ActiveChannelsLive
<1> QED
  BY <1>1, <1>3, <1>4, <1>5, <1>6, ConstructInv, SetEventsInv, InterestOps, RemoveInv
  DEF Next, ChannelStep

LEMMA PollerInvAlways == Spec => [](TypeOK /\ PollerInv)
BY PollerTypeInit, PollerTypeStep, PollerInvInit, PollerInvStep, PTL DEF Spec

\* The poller, the kernel's interest list and the channels keep their types, whatever the
\* calls and the sets of addresses and descriptors.
THEOREM PollerTypeCorrect == Spec => []TypeOK
<1>1. TypeOK /\ PollerInv => TypeOK
  BY DEF PollerInv
<1> QED
  BY <1>1, PollerInvAlways, PTL

\* Whatever the channels do, in whatever order, and however addresses and descriptor
\* numbers are reused: the poller and the kernel mirror every channel
\* (EPollPoller.cc:44-98, 130-150).
THEOREM PollerCorrect == Spec => []PollerMirror
<1>1. TypeOK /\ PollerInv => PollerMirror
  BY DEF PollerInv
<1> QED
  BY <1>1, PollerInvAlways, PTL

\* No entry of the map or of the kernel outlives its channel, so that none is found by the
\* next owner of its descriptor.
THEOREM EntriesCorrect == Spec => []NoStaleEntry
<1>1. TypeOK /\ PollerInv => NoStaleEntry
  BY DEF PollerInv
<1> QED
  BY <1>1, PollerInvAlways, PTL

\* epoll_ctl never fails: the LOG_FATAL of EPollPoller.cc:146 is unreachable.
THEOREM EpollCtlCorrect == Spec => []EpollCtlNeverFails
<1>1. TypeOK /\ PollerInv => EpollCtlNeverFails
  BY DEF PollerInv
<1> QED
  BY <1>1, PollerInvAlways, PTL

\* No round calls handleEvent on a channel that is gone (EventLoop.cc:205-208).
THEOREM RoundMeetsLivingChannels == Spec => []ActiveChannelsLive
<1>1. TypeOK /\ PollerInv => ActiveChannelsLive
  BY DEF PollerInv
<1> QED
  BY <1>1, PollerInvAlways, PTL
=============================================================================
