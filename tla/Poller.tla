------------------------------- MODULE Poller -------------------------------
(***************************************************************************)
(* The channels of one EventLoop, its EPollPoller and the kernel's epoll   *)
(* instance: three records of what is watched (events_ and index_ in the   *)
(* channel, channels_ in the poller, the interest list in the kernel) that *)
(* updateChannel and removeChannel must keep in step.  Channel objects are *)
(* addresses and descriptors are numbers, and both are reused.             *)
(*                                                                         *)
(* The loop's phases are kept, since a round dereferences the pointers     *)
(* that epoll_wait returned: a channel must outlive the round.             *)
(***************************************************************************)
EXTENDS Naturals, FiniteSets

CONSTANTS Addresses,            \* where a Channel object can be
          Fds,                  \* descriptor numbers
          kEpollEventListSize,  \* the most events one epoll_wait returns
          Null

ASSUME NullAssumption == Null \notin Addresses

VARIABLES
  life,       \* per address: "none", "live", or "removed" (remove() was called)
  fd_,        \* const member of a channel: its descriptor
  events_,    \* what the channel wants watched
  index_,     \* kNew, kAdd, kDelete: the channel's place in the poller
  channels_,  \* the poller's map, as a function with Null for "no entry"
  epoll,      \* the kernel's interest list: per descriptor, data.ptr and events
  ctlFailed,  \* the operations for which epoll_ctl has failed
  phase,      \* of the loop: "poll", "events" or "functors"
  active      \* active_channels: the pointers of this round not handled yet

channelVars == <<life, fd_, events_, index_>>
pollerVars == <<channels_, epoll, ctlFailed>>
loopVars == <<phase, active>>
vars == <<channelVars, pollerVars, loopVars>>

kReadEvent == "read"
kWriteEvent == "write"
kNoneEvent == {}
Interest == SUBSET {kReadEvent, kWriteEvent}

kNew == "new"
kAdd == "add"
kDelete == "delete"

\* An interest list without an entry for the descriptor.
NotWatched == [ptr |-> Null, events |-> kNoneEvent]

TypeOK ==
  /\ life \in [Addresses -> {"none", "live", "removed"}]
  /\ fd_ \in [Addresses -> Fds]
  /\ events_ \in [Addresses -> Interest]
  /\ index_ \in [Addresses -> {kNew, kAdd, kDelete}]
  /\ channels_ \in [Fds -> Addresses \cup {Null}]
  /\ epoll \in [Fds -> [ptr : Addresses, events : Interest] \cup {NotWatched}]
  /\ ctlFailed \in SUBSET {"ADD", "MOD", "DEL"}
  /\ phase \in {"poll", "events", "functors"}
  /\ active \in SUBSET Addresses

Init ==
  /\ life = [c \in Addresses |-> "none"]
  /\ fd_ \in [Addresses -> Fds]
  /\ events_ = [c \in Addresses |-> kNoneEvent]
  /\ index_ = [c \in Addresses |-> kNew]
  /\ channels_ = [fd \in Fds |-> Null]
  /\ epoll = [fd \in Fds |-> NotWatched]
  /\ ctlFailed = {}
  /\ phase = "functors"
  /\ active = {}

-----------------------------------------------------------------------------
(* EPollPoller                                                             *)

Watched(fd) == epoll[fd] # NotWatched

\* update(operation, channel) with `interest` as the channel's events: epoll_ctl.
\* ADD fails on a descriptor that is watched, MOD and DEL on one that is not;
\* the kernel keeps its entry then (DEL: LOG_ERROR, the others: LOG_FATAL).
update(operation, c, interest) ==
  LET fd == fd_[c]
      failed == (operation = "ADD") <=> Watched(fd)
      entry == IF operation = "DEL" THEN NotWatched ELSE [ptr |-> c, events |-> interest]
  IN /\ epoll' = IF failed THEN epoll ELSE [epoll EXCEPT ![fd] = entry]
     /\ ctlFailed' = IF failed THEN ctlFailed \cup {operation} ELSE ctlFailed

\* A channel that is not watched and wants something: kNew or kDelete to kAdd.
WatchChannel(c, interest) ==
  /\ index_[c] \in {kNew, kDelete}
  /\ interest # kNoneEvent
  /\ channels_' = IF index_[c] = kNew THEN [channels_ EXCEPT ![fd_[c]] = c] ELSE channels_
  /\ update("ADD", c, interest)
  /\ index_' = [index_ EXCEPT ![c] = kAdd]

SuspendChannel_KeepsIndex(c, interest) ==
  /\ index_[c] = kAdd
  /\ interest = kNoneEvent
  /\ update("DEL", c, interest)
  /\ UNCHANGED <<channels_, index_>>

\* A watched channel that wants nothing any more: kAdd to kDelete.
SuspendChannel(c, interest) ==
  /\ index_[c] = kAdd
  /\ interest = kNoneEvent
  /\ update("DEL", c, interest)
  /\ index_' = [index_ EXCEPT ![c] = kDelete]
  /\ UNCHANGED channels_

ModifyChannel(c, interest) ==
  /\ index_[c] = kAdd
  /\ interest # kNoneEvent
  /\ update("MOD", c, interest)
  /\ UNCHANGED <<channels_, index_>>

\* "forgot to add events": logged, nothing else.
NothingToWatch(c, interest) ==
  /\ index_[c] \in {kNew, kDelete}
  /\ interest = kNoneEvent
  /\ UNCHANGED <<channels_, index_, epoll, ctlFailed>>

\* updateChannel on a channel whose events have just become `interest`.
updateChannel(c, interest) ==
  \/ WatchChannel(c, interest)
  \/ SuspendChannel(c, interest)
  \/ ModifyChannel(c, interest)
  \/ NothingToWatch(c, interest)

removeChannel_KeepsEntry(c) ==
  /\ IF index_[c] = kAdd THEN update("DEL", c, events_[c]) ELSE UNCHANGED <<epoll, ctlFailed>>
  /\ index_' = [index_ EXCEPT ![c] = kNew]
  /\ UNCHANGED channels_

removeChannel_NoDel(c) ==
  /\ channels_' = IF index_[c] = kNew THEN channels_ ELSE [channels_ EXCEPT ![fd_[c]] = Null]
  /\ index_' = [index_ EXCEPT ![c] = kNew]
  /\ UNCHANGED <<epoll, ctlFailed>>

removeChannel(c) ==
  \/ /\ index_[c] = kNew
     /\ UNCHANGED <<channels_, index_, epoll, ctlFailed>>
  \/ /\ index_[c] # kNew
     /\ channels_' = [channels_ EXCEPT ![fd_[c]] = Null]
     /\ IF index_[c] = kAdd THEN update("DEL", c, events_[c]) ELSE UNCHANGED <<epoll, ctlFailed>>
     /\ index_' = [index_ EXCEPT ![c] = kNew]

-----------------------------------------------------------------------------
(* Channel.  Its operations run on the loop's thread: in a callback, in a  *)
(* functor, or outside loop(), which is like a functor.                    *)

\* An object is made for a descriptor that is open for nobody else, on any thread.
Construct(c, fd) ==
  /\ life[c] = "none"
  /\ \A d \in Addresses : life[d] # "none" => fd_[d] # fd
  /\ life' = [life EXCEPT ![c] = "live"]
  /\ fd_' = [fd_ EXCEPT ![c] = fd]
  /\ events_' = [events_ EXCEPT ![c] = kNoneEvent]
  /\ index_' = [index_ EXCEPT ![c] = kNew]
  /\ UNCHANGED <<pollerVars, loopVars>>

\* events_ takes its new value, then update() passes the channel to the poller.
\* (A removed channel gets disableAll() at most, which changes nothing: module
\* TcpConnection, ClosedStaysSilent.)
SetEvents(c, interest) ==
  /\ life[c] = "live"
  /\ phase \in {"events", "functors"}
  /\ events_' = [events_ EXCEPT ![c] = interest]
  /\ updateChannel(c, interest)
  /\ UNCHANGED <<life, fd_, loopVars>>

enableReading(c)  == SetEvents(c, events_[c] \cup {kReadEvent})
disableReading(c) == SetEvents(c, events_[c] \ {kReadEvent})
enableWriting(c)  == SetEvents(c, events_[c] \cup {kWriteEvent})
disableWriting(c) == SetEvents(c, events_[c] \ {kWriteEvent})
disableAll(c)     == SetEvents(c, kNoneEvent)

remove_InCallback(c) ==
  /\ life[c] # "none"
  /\ phase \in {"events", "functors"}
  /\ life' = [life EXCEPT ![c] = "removed"]
  /\ removeChannel(c)
  /\ UNCHANGED <<fd_, events_, loopVars>>

\* remove(): connectionDestroyed calls it, and that is always queued, so that it
\* runs between two rounds, and twice if the connection was closed twice.  Acceptor
\* and EventLoop call it from their destructors; TimerQueue never does, and its
\* channel goes with the poller.
remove(c) ==
  /\ life[c] # "none"
  /\ phase = "functors"
  /\ life' = [life EXCEPT ![c] = "removed"]
  /\ removeChannel(c)
  /\ UNCHANGED <<fd_, events_, loopVars>>

\* The owner dies with its channel and its descriptor, on the thread that drops
\* the last reference; both numbers are free for the next connection.
Destruct(c) ==
  /\ life[c] = "removed"
  /\ life' = [life EXCEPT ![c] = "none"]
  /\ UNCHANGED <<fd_, events_, index_, pollerVars, loopVars>>

-----------------------------------------------------------------------------
(* A round of the loop                                                     *)

poll_DataFd(ready) ==
  /\ phase = "poll"
  /\ Cardinality(ready) <= kEpollEventListSize
  /\ active' = ready
  /\ phase' = "events"
  /\ UNCHANGED <<channelVars, pollerVars>>

\* poll(): epoll_wait returns the pointers of some ready descriptors, and
\* fillActiveChannels puts them into active_channels.
poll(ready) ==
  /\ phase = "poll"
  /\ Cardinality(ready) <= kEpollEventListSize
  /\ active' = {epoll[fd].ptr : fd \in ready}
  /\ phase' = "events"
  /\ UNCHANGED <<channelVars, pollerVars>>

\* handleEvent on the next pointer; what its callbacks do to channels are the
\* actions above.
handleEvent(c) ==
  /\ phase = "events"
  /\ c \in active
  /\ active' = active \ {c}
  /\ UNCHANGED <<phase, channelVars, pollerVars>>

EndEvents ==
  /\ phase = "events"
  /\ active = {}
  /\ phase' = "functors"
  /\ UNCHANGED <<active, channelVars, pollerVars>>

EndFunctors ==
  /\ phase = "functors"
  /\ phase' = "poll"
  /\ UNCHANGED <<active, channelVars, pollerVars>>

-----------------------------------------------------------------------------
ChannelStep(c) ==
  \/ \E fd \in Fds : Construct(c, fd)
  \/ enableReading(c) \/ disableReading(c)
  \/ enableWriting(c) \/ disableWriting(c) \/ disableAll(c)
  \/ remove(c)
  \/ Destruct(c)

Next ==
  \/ \E c \in Addresses : ChannelStep(c) \/ handleEvent(c)
  \/ \E ready \in SUBSET {fd \in Fds : Watched(fd)} : poll(ready)
  \/ EndEvents
  \/ EndFunctors

Spec == Init /\ [][Next]_vars

-----------------------------------------------------------------------------
(* Properties                                                              *)

\* A channel's index_ tells the truth about the poller and the kernel
\* (EPollPoller.cc:34-98): kAdd, it is in channels_ and the kernel watches exactly
\* its events_; kDelete, it is in channels_ only and wants nothing; kNew, neither
\* knows it, under whatever number its descriptor had before.
ChannelMirrored(c) ==
  /\ index_[c] = kAdd => /\ channels_[fd_[c]] = c
                         /\ epoll[fd_[c]] = [ptr |-> c, events |-> events_[c]]
                         /\ events_[c] # kNoneEvent
  /\ index_[c] = kDelete => /\ channels_[fd_[c]] = c
                            /\ ~Watched(fd_[c])
                            /\ events_[c] = kNoneEvent
  /\ index_[c] = kNew => \A fd \in Fds : channels_[fd] # c /\ epoll[fd].ptr # c

PollerMirror == \A c \in Addresses : life[c] # "none" => ChannelMirrored(c)

\* No entry of channels_ or of the interest list is left behind by a channel that
\* is gone or that has another descriptor now (EPollPoller.cc:89-97).
NoStaleEntry ==
  \A fd \in Fds :
    /\ channels_[fd] # Null => life[channels_[fd]] = "live" /\ fd_[channels_[fd]] = fd
    /\ epoll[fd].ptr # Null => epoll[fd].ptr = channels_[fd]

\* epoll_ctl never fails, so that the LOG_FATAL that ends the process
\* (EPollPoller.cc:146) is out of reach of every order of channel operations.
EpollCtlNeverFails == ctlFailed = {}

\* Every pointer that a round still has to call handleEvent on points to a channel
\* that exists (EventLoop.cc:205, EPollPoller.cc:157).
ActiveChannelsLive == \A c \in active : life[c] = "live"

\* Two channels never own the same descriptor.
OwnersDisjoint ==
  \A c, d \in Addresses :
    c # d /\ life[c] # "none" /\ life[d] # "none" => fd_[c] # fd_[d]

\* The conjunction that is inductive.
PollerInv ==
  /\ PollerMirror
  /\ NoStaleEntry
  /\ EpollCtlNeverFails
  /\ ActiveChannelsLive
  /\ OwnersDisjoint
  /\ phase # "events" => active = {}
  /\ \A c \in Addresses : life[c] = "removed" => index_[c] = kNew
=============================================================================
