------------------------------ MODULE SpyEvent ------------------------------
(***************************************************************************)
(* The file events of the event loop (chunkserver/spy_event.c over         *)
(* spy_event_epoll.c): what the loop believes it watches (mask, owner,     *)
(* maxfd), what the kernel watches for it (epoll), and the batch of fired  *)
(* events it is working through.                                           *)
(*                                                                         *)
(* The clientData of an event is its owner: the connection, or NoOwner.    *)
(* The handlers themselves belong to the modules that use this one.        *)
(***************************************************************************)
EXTENDS Integers, FiniteSets

CONSTANTS
  MAX_FD,           \* the largest descriptor the process may have
  NoOwner           \* the clientData of a slot nothing was registered in

ASSUME EventAssumption == MAX_FD \in Nat

Fds == 0 .. MAX_FD
AE_READABLE == "R"
AE_WRITABLE == "W"
Masks == SUBSET {AE_READABLE, AE_WRITABLE}
AE_NONE == {}

aeCreateEventLoop(setsize) ==
  [setsize |-> setsize,
   mask    |-> [fd \in Fds |-> AE_NONE],
   owner   |-> [fd \in Fds |-> NoOwner],
   epoll   |-> [fd \in Fds |-> AE_NONE],
   maxfd   |-> -1]

\* EPOLL_CTL_ADD fails on a descriptor the kernel watches already,
\* EPOLL_CTL_MOD on one it does not watch.
aeApiAddEvent(el, fd) == (el.mask[fd] = AE_NONE) <=> (el.epoll[fd] = AE_NONE)

\* FALSE is AE_ERR.
CanCreateFileEvent(el, fd) == fd < el.setsize /\ aeApiAddEvent(el, fd)

aeCreateFileEvent(el, fd, mask, owner) ==
  LET merged == el.mask[fd] \union {mask} IN
  [el EXCEPT !.mask[fd]  = merged,
             !.epoll[fd] = merged,
             !.owner[fd] = owner,
             !.maxfd     = IF fd > @ THEN fd ELSE @]

\* The largest descriptor below fd that has an event, or -1.
MaxFdBelow(mask, fd) ==
  CHOOSE j \in -1 .. fd - 1 :
    /\ j = -1 \/ mask[j] # AE_NONE
    /\ \A k \in j + 1 .. fd - 1 : mask[k] = AE_NONE

\* aeApiDelEvent runs after the mask has lost the events: MOD or DEL fails,
\* and changes nothing, when the descriptor is closed.
aeApiDelEvent(el, fd) ==
  [el EXCEPT !.epoll[fd] = IF @ = AE_NONE THEN @ ELSE el.mask[fd]]

aeDeleteFileEvent(el, fd, masks) ==
  LET left == [el EXCEPT !.mask[fd] = @ \ masks]
      last == fd = el.maxfd /\ left.mask[fd] = AE_NONE
  IN IF fd >= el.setsize \/ el.mask[fd] = AE_NONE THEN el
     ELSE aeApiDelEvent(
            [left EXCEPT !.maxfd = IF last THEN MaxFdBelow(left.mask, fd) ELSE @], fd)

\* The kernel forgets a descriptor that is closed.
CloseFd(el, fd) == [el EXCEPT !.epoll[fd] = AE_NONE]

\* aeApiPoll: for every watched descriptor, what it is watched for and is
\* ready for; EPOLLERR and EPOLLHUP are reported unasked, as writable.
aeApiPoll(el, ready, broken) ==
  [fd \in Fds |->
     IF el.epoll[fd] = AE_NONE THEN AE_NONE
     ELSE (el.epoll[fd] \intersect ready[fd])
          \union (IF fd \in broken THEN {AE_WRITABLE} ELSE {})]
=============================================================================
