--------------------------- MODULE PollServerProofs ---------------------------
(***************************************************************************)
(* Proofs about PollServer, for every set of connections, batch size,      *)
(* build and application.                                                  *)
(***************************************************************************)
EXTENDS PollServer, TLAPS

-----------------------------------------------------------------------------
(* The two facts about the constants the SMT steps need.                   *)
LEMMA BoundType == MaxRx \in Nat /\ Listener \notin Conns
BY ServerAssumption, Zenon

(* Type correctness.                                                       *)

(* What a close does to the variables it writes.                           *)
LEMMA CloseConnsType ==
    ASSUME TypeOK, NEW S, CloseConns(S)
    PROVE  /\ epoll' \subseteq Conns
           /\ sock' \in [Conns -> {"none", "queued", "open", "closed", "leaked"}]
           /\ pending' \subseteq Conns
           /\ heap' \in [Conns -> {"none", "live", "freed"}]
BY DEF TypeOK, CloseConns

(* The same variables when nothing is closed.                              *)
LEMMA NoCloseType ==
    ASSUME TypeOK, NoClose
    PROVE  /\ epoll' \subseteq Conns
           /\ sock' \in [Conns -> {"none", "queued", "open", "closed", "leaked"}]
           /\ pending' \subseteq Conns
           /\ heap' \in [Conns -> {"none", "live", "freed"}]
BY DEF TypeOK, NoClose

(* Reading takes no more segments than the socket holds.                   *)
LEMMA ReadType ==
    ASSUME TypeOK, NEW c \in Conns, NEW n \in Reads(c),
           rx' = [rx EXCEPT ![c] = @ - n]
    PROVE  rx' \in [Conns -> 0..MaxRx]
BY ServerAssumption DEF TypeOK, Reads

(* A dispatched request leaves the socket, the kind and the batch typed.   *)
LEMMA ProcessDataInType ==
    ASSUME TypeOK, NEW c \in Conns, NEW k \in AllKinds, ProcessDataIn(c, k)
    PROVE  /\ rx' \in [Conns -> 0..MaxRx]
           /\ kind' \in [Conns -> RequestKinds \cup {"unparsed"}]
           /\ batch' \subseteq Conns \cup {Listener}
<1>1. rx' \in [Conns -> 0..MaxRx]
  BY ReadType DEF ProcessDataIn
<1>2. k \in RequestKinds \cup {"unparsed"}
  BY DEF ProcessDataIn, Recognised, TypeOK
<1>3. QED
  BY <1>1, <1>2 DEF ProcessDataIn, HttpEvent, TypeOK

(* Dying changes nothing but the status.                                   *)
LEMMA AbortType == TypeOK /\ Abort => TypeOK'
BY DEF TypeOK, Abort, kernelVars, connVars, appVars

(* Clients connecting, sending and leaving.                                *)
LEMMA ClientType ==
    ASSUME TypeOK, NEW c \in Conns, Client(c)
    PROVE  TypeOK'
<1> USE ServerAssumption DEF TypeOK, connVars, appVars
<1>1. CASE Connect(c)
  BY <1>1 DEF Connect
<1>2. CASE Send(c)
  BY <1>2 DEF Send, Arm
<1>3. CASE \E unread \in 0..MaxRx : Leave(c, unread)
  BY <1>3 DEF Leave, Arm
<1>4. QED
  BY <1>1, <1>2, <1>3 DEF Client

(* The accept branch of Poll and its two failing exits.                    *)
LEMMA AcceptType ==
    ASSUME TypeOK, NEW c \in Conns, Accept(c)
    PROVE  TypeOK'
<1> USE DEF TypeOK, connVars, appVars
<1>1. CASE AcceptOk(c)
  BY <1>1 DEF AcceptOk, Accepting
<1>2. CASE KeepAliveFails(c)
  BY <1>2 DEF KeepAliveFails, Accepting
<1>3. CASE EpollAddFails(c)
  BY <1>3 DEF EpollAddFails, Accepting
<1>4. QED
  BY <1>1, <1>2, <1>3 DEF Accept

(* Every way Poll handles the event of a connection.                       *)
LEMMA DispatchType ==
    ASSUME TypeOK, NEW c \in Conns, Dispatch(c)
    PROVE  TypeOK'
<1>1. CASE HttpClosed(c)
  BY <1>1, CloseConnsType, ServerAssumption DEF HttpClosed, HttpEvent, TypeOK, appVars
<1>2. CASE HttpIncomplete(c)
  BY <1>2, NoCloseType, ServerAssumption DEF HttpIncomplete, HttpEvent, TypeOK, appVars
<1>3. CASE DispatchCloses(c)
  <2>1. PICK k \in {"no_route", "no_method", "handled"} : ProcessDataIn(c, k)
    BY <1>3 DEF DispatchCloses
  <2>2. k \in AllKinds
    BY DEF AllKinds
  <2>3. QED
    BY <1>3, <2>1, <2>2, CloseConnsType, ProcessDataInType
    DEF DispatchCloses, ProcessDataIn, HttpEvent, TypeOK, appVars
<1>4. CASE DispatchKeeps(c)
  BY <1>4, NoCloseType, ProcessDataInType
  DEF DispatchKeeps, ProcessDataIn, HttpEvent, TypeOK, AllKinds
<1>5. CASE DispatchUnknownMethod(c)
  BY <1>5, CloseConnsType, NoCloseType, ProcessDataInType
  DEF DispatchUnknownMethod, ProcessDataIn, HttpEvent, TypeOK, appVars, AllKinds
<1>6. CASE UpgradeRejected(c)
  BY <1>6, CloseConnsType, ProcessDataInType
  DEF UpgradeRejected, ProcessDataIn, HttpEvent, TypeOK, appVars, AllKinds
<1>7. ASSUME NEW ready \in {-1, 0}, UpgradeDone(c, ready)
      PROVE  TypeOK'
  BY <1>7, CloseConnsType, ProcessDataInType
  DEF UpgradeDone, ProcessDataIn, HttpEvent, TypeOK, AllKinds
<1>8. CASE WsKeeps(c)
  BY <1>8, NoCloseType, ReadType DEF WsKeeps, WsEvent, TypeOK
<1>9. CASE WsCloses(c)
  BY <1>9, CloseConnsType, ServerAssumption DEF WsCloses, WsEvent, TypeOK
<1>10. QED
  BY <1>1, <1>2, <1>3, <1>4, <1>5, <1>6, <1>7, <1>8, <1>9 DEF Dispatch

(* Type correctness is inductive as it stands.                             *)
LEMMA TypeStep == TypeOK /\ [Next]_vars => TypeOK'
<1> SUFFICES ASSUME TypeOK, [Next]_vars PROVE TypeOK'
  OBVIOUS
<1>1. ASSUME NEW c \in Conns, Client(c) \/ Accept(c) \/ Dispatch(c)
      PROVE  TypeOK'
  BY <1>1, ClientType, AcceptType, DispatchType
<1>2. ASSUME NEW c \in Conns, AsyncReply(c)
      PROVE  TypeOK'
  BY <1>2, CloseConnsType DEF AsyncReply, TypeOK
<1>3. ASSUME NEW c \in Conns, Die(c)
      PROVE  TypeOK'
  BY <1>3, AbortType DEF Die, UnknownMethodAborts, UpgradeNoKey,
     WsReadsNothing, WsReadsPastEnd, AsyncReplyStale
<1>4. CASE EpollWait
  <2>1. Ready \subseteq Conns \cup {Listener}
    BY DEF Ready, TypeOK
  <2>2. QED
    BY <1>4, <2>1 DEF EpollWait, TypeOK, connVars, appVars
<1>5. CASE PollReturn
  BY <1>5 DEF PollReturn, TypeOK, kernelVars, connVars, appVars
<1>6. CASE AcceptFails
  BY <1>6 DEF AcceptFails, TypeOK, kernelVars, connVars, appVars
<1>7. CASE BroadcastStale
  BY <1>7, AbortType DEF BroadcastStale
<1>8. CASE PollEmpty \/ Broadcast \/ UNCHANGED vars
  BY <1>8 DEF PollEmpty, Broadcast, TypeOK, vars, kernelVars, connVars, appVars
<1>9. QED
  BY <1>1, <1>2, <1>3, <1>4, <1>5, <1>6, <1>7, <1>8 DEF Next

(* The server after Init is well typed.                                    *)
LEMMA InitType == Init => TypeOK
<1> SUFFICES ASSUME Init PROVE TypeOK
  OBVIOUS
<1>1. rx \in [Conns -> 0..MaxRx]
  BY BoundType DEF Init
<1>2. /\ sock \in [Conns -> {"none", "queued", "open", "closed", "leaked"}]
      /\ heap \in [Conns -> {"none", "live", "freed"}]
      /\ kind \in [Conns -> RequestKinds \cup {"unparsed"}]
  BY DEF Init
<1>3. eof \in [Conns -> BOOLEAN] /\ armed \in [Conns -> BOOLEAN] /\ ws \in [Conns -> BOOLEAN]
  BY DEF Init
<1>4. QED
  BY <1>1, <1>2, <1>3 DEF Init, TypeOK

(* The variables keep their types: in particular only clients are in the   *)
(* list and the epoll set, for every application and both builds.          *)
THEOREM TypeCorrect == Spec => []TypeOK
BY InitType, TypeStep, PTL DEF Spec

-----------------------------------------------------------------------------
(* Ownership.                                                              *)

(* CloseConn takes a connection out of the list, the epoll set, the heap   *)
(* and the descriptors together: its error return is unreachable.          *)
LEMMA CloseConnsOwnership ==
    ASSUME TypeOK, Ownership, NEW S, CloseConns(S)
    PROVE  Ownership'
BY DEF TypeOK, Ownership, CloseConns

(* Steps that close nothing do not disturb Ownership.                      *)
LEMMA NoCloseOwnership ==
    ASSUME Ownership, NoClose
    PROVE  Ownership'
BY DEF Ownership, NoClose

(* Ownership is inductive relative to TypeOK.                              *)
LEMMA OwnershipStep == TypeOK /\ Ownership /\ [Next]_vars => Ownership'
<1> SUFFICES ASSUME TypeOK, Ownership, [Next]_vars PROVE Ownership'
  OBVIOUS
<1>1. ASSUME NEW c \in Conns, Client(c)
      PROVE  Ownership'
  <2>1. CASE Connect(c)
    BY <2>1 DEF Connect, Ownership, TypeOK, connVars
  <2>2. CASE Send(c) \/ \E unread \in 0..MaxRx : Leave(c, unread)
    BY <2>2, NoCloseOwnership DEF Send, Leave, NoClose, connVars
  <2>3. QED
    BY <1>1, <2>1, <2>2 DEF Client
<1>2. ASSUME NEW c \in Conns, Accept(c)
      PROVE  Ownership'
  <2>1. CASE AcceptOk(c)
    BY <2>1 DEF AcceptOk, Accepting, Ownership, TypeOK
  <2>2. CASE KeepAliveFails(c)
    BY <2>2 DEF KeepAliveFails, Accepting, Ownership, TypeOK, connVars
  <2>3. CASE EpollAddFails(c)
    BY <2>3 DEF EpollAddFails, Accepting, Ownership, TypeOK
  <2>4. QED
    BY <1>2, <2>1, <2>2, <2>3 DEF Accept
<1>3. ASSUME NEW c \in Conns, Dispatch(c)
      PROVE  Ownership'
  <2>1. NoClose \/ \E S : CloseConns(S)
    BY <1>3 DEF Dispatch, HttpClosed, HttpIncomplete, DispatchCloses, DispatchKeeps,
       DispatchUnknownMethod, UpgradeRejected, UpgradeDone, WsKeeps, WsCloses
  <2>2. QED
    BY <2>1, CloseConnsOwnership, NoCloseOwnership
<1>4. ASSUME NEW c \in Conns, AsyncReply(c)
      PROVE  Ownership'
  BY <1>4, CloseConnsOwnership DEF AsyncReply
<1>5. ASSUME NEW c \in Conns, Die(c)
      PROVE  Ownership'
  BY <1>5, NoCloseOwnership DEF Die, UnknownMethodAborts, UpgradeNoKey,
     WsReadsNothing, WsReadsPastEnd, AsyncReplyStale, Abort, NoClose, kernelVars, connVars
<1>6. CASE EpollWait
  BY <1>6, NoCloseOwnership DEF EpollWait, NoClose, connVars
<1>7. CASE PollReturn \/ AcceptFails \/ BroadcastStale
  BY <1>7, NoCloseOwnership
  DEF PollReturn, AcceptFails, BroadcastStale, Abort, NoClose, kernelVars, connVars
<1>8. CASE PollEmpty \/ Broadcast \/ UNCHANGED vars
  BY <1>8, NoCloseOwnership
  DEF PollEmpty, Broadcast, NoClose, vars, kernelVars, connVars
<1>9. QED
  BY <1>1, <1>2, <1>3, <1>4, <1>5, <1>6, <1>7, <1>8 DEF Next

(* CloseConn and the accept branch keep pending_conns_, the epoll set, the *)
(* live Connection objects and the open descriptors equal, for every       *)
(* application and both builds.                                            *)
THEOREM OwnershipHolds == Spec => []Ownership
<1>1. Init => Ownership
  BY DEF Init, Ownership
<1>2. QED
  BY <1>1, TypeCorrect, OwnershipStep, PTL DEF Spec

-----------------------------------------------------------------------------
(* BatchLive: the events of a batch outlive each other.                    *)

(* A close leaves the connections it is not asked to close alone.          *)
LEMMA CloseConnsOthers ==
    ASSUME TypeOK, NEW S, CloseConns(S), NEW d \in Conns, d \notin S
    PROVE  /\ heap'[d] = heap[d]
           /\ sock'[d] = sock[d]
           /\ d \in pending' <=> d \in pending
BY DEF TypeOK, CloseConns

(* An event closes at most its own connection, and leaves the batch.       *)
LEMMA DispatchCloseScope ==
    ASSUME NEW c \in Conns, Dispatch(c)
    PROVE  /\ batch' = batch \ {c}
           /\ inPoll /\ inPoll' = inPoll
           /\ NoClose \/ \E S : S \subseteq {c} /\ CloseConns(S)
<1> USE DEF ProcessDataIn, HttpEvent, HttpTurn, WsEvent, WsTurn, Turn
<1>1. CASE HttpClosed(c) \/ DispatchCloses(c) \/ UpgradeRejected(c) \/ WsCloses(c)
  BY <1>1 DEF HttpClosed, DispatchCloses, UpgradeRejected, WsCloses
<1>2. CASE HttpIncomplete(c) \/ DispatchKeeps(c) \/ DispatchUnknownMethod(c) \/ WsKeeps(c)
  BY <1>2 DEF HttpIncomplete, DispatchKeeps, DispatchUnknownMethod, WsKeeps
<1>3. ASSUME NEW ready \in {-1, 0}, UpgradeDone(c, ready)
      PROVE  /\ batch' = batch \ {c}
             /\ inPoll /\ inPoll' = inPoll
             /\ NoClose \/ \E S : S \subseteq {c} /\ CloseConns(S)
  BY <1>3 DEF UpgradeDone
<1>4. QED
  BY <1>1, <1>2, <1>3 DEF Dispatch

BatchInv == BatchLive /\ BatchScope

(* BatchLive with BatchScope is inductive.                                 *)
LEMMA BatchStep ==
    ASSUME TypeOK, Ownership, BatchInv, [Next]_vars
    PROVE  BatchInv'
<1> USE DEF BatchInv, BatchLive, BatchScope
<1>1. ASSUME NEW c \in Conns, Client(c)
      PROVE  BatchInv'
  BY <1>1 DEF Client, Connect, Send, Leave, connVars
<1>2. ASSUME NEW c \in Conns, Accept(c)
      PROVE  BatchInv'
  <2>1. CASE AcceptOk(c)
    BY <2>1 DEF AcceptOk, Accepting, TypeOK
  <2>2. CASE KeepAliveFails(c)
    BY <2>2 DEF KeepAliveFails, Accepting, connVars
  <2>3. CASE EpollAddFails(c)
    BY <2>3 DEF EpollAddFails
  <2>4. QED
    BY <1>2, <2>1, <2>2, <2>3 DEF Accept
<1>3. ASSUME NEW c \in Conns, Dispatch(c)
      PROVE  BatchInv'
  <2>1. batch' = batch \ {c} /\ inPoll /\ inPoll' = inPoll
    BY <1>3, DispatchCloseScope
  <2>2. ASSUME NEW d \in batch' \cap Conns
        PROVE  heap'[d] = "live"
    <3>1. d # c /\ heap[d] = "live"
      BY <2>1
    <3>2. CASE NoClose
      BY <3>1, <3>2 DEF NoClose
    <3>3. ASSUME NEW S, S \subseteq {c}, CloseConns(S)
          PROVE  heap'[d] = "live"
      <4>1. d \notin S
        BY <3>1, <3>3
      <4>2. QED
        BY <3>1, <3>3, <4>1, CloseConnsOthers
    <3>4. QED
      BY <1>3, <3>2, <3>3, DispatchCloseScope
  <2>3. QED
    BY <2>1, <2>2
<1>4. ASSUME NEW c \in Conns, AsyncReply(c)
      PROVE  BatchInv'
  BY <1>4 DEF AsyncReply
<1>5. ASSUME NEW c \in Conns, Die(c)
      PROVE  BatchInv'
  BY <1>5 DEF Die, UnknownMethodAborts, UpgradeNoKey,
     WsReadsNothing, WsReadsPastEnd, AsyncReplyStale, Abort, connVars
<1>6. CASE EpollWait
  <2>1. \A c \in batch' \cap Conns : c \in epoll
    BY <1>6, BoundType DEF EpollWait, Ready
  <2>2. QED
    BY <1>6, <2>1 DEF EpollWait, Ownership, connVars
<1>7. CASE PollReturn
  BY <1>7 DEF PollReturn
<1>8. CASE AcceptFails \/ BroadcastStale
  BY <1>8 DEF AcceptFails, Accepting, BroadcastStale, Abort, connVars
<1>9. CASE PollEmpty \/ Broadcast \/ UNCHANGED vars
  BY <1>9 DEF PollEmpty, Broadcast, vars, connVars
<1>10. QED
  BY <1>1, <1>2, <1>3, <1>4, <1>5, <1>6, <1>7, <1>8, <1>9 DEF Next

(* Poll never follows an events[i].data.ptr that an earlier event of the   *)
(* same batch freed: handlers that return -1, kept connections answered    *)
(* between two Polls, upgrades and failed accepts are all safe.            *)
THEOREM BatchLiveHolds == Spec => []BatchLive
<1>1. Init => BatchInv
  BY DEF Init, BatchInv, BatchLive, BatchScope
<1>2. TypeOK /\ Ownership /\ BatchInv /\ [Next]_vars => BatchInv'
  BY BatchStep
<1>3. BatchInv => BatchLive
  BY DEF BatchInv
<1>4. QED
  BY <1>1, <1>2, <1>3, TypeCorrect, OwnershipHolds, PTL DEF Spec

-----------------------------------------------------------------------------
(* GroupIsLiveWebsockets: the hooks are paired.                            *)

(* Under Ownership a close removes exactly the connections asked for.      *)
LEMMA CloseConnsExact ==
    ASSUME TypeOK, Ownership, NEW S, CloseConns(S)
    PROVE  /\ pending' = pending \ S
           /\ \A d \in Conns : sock'[d] \in {sock[d], "closed"}
BY DEF TypeOK, Ownership, CloseConns

GroupInv == GroupIsLiveWebsockets /\ UpgradeScope

(* Steps that upgrade nobody: they may only end connections that are not   *)
(* websockets, or take them out of the group.                              *)
LEMMA GroupKept ==
    ASSUME TypeOK, Ownership, GroupInv, NEW S,
           \/ NoClose /\ group' = group
           \/ CloseConns(S) /\ group' = group /\ \A d \in S : ~ws[d]
           \/ CloseConns(S) /\ group' = group \ S,
           ws' = ws, held' \subseteq Conns,
           \A d \in Conns : ws[d] => kind'[d] = kind[d],
           \A d \in held' : kind'[d] = "handled"
    PROVE  GroupInv'
<1>1. UpgradeScope'
  BY CloseConnsExact DEF GroupInv, UpgradeScope, NoClose
<1>2. GroupIsLiveWebsockets'
  <2>1. CASE NoClose /\ group' = group
    BY <2>1 DEF GroupInv, GroupIsLiveWebsockets, NoClose
  <2>2. CASE CloseConns(S) /\ group' = group /\ \A d \in S : ~ws[d]
    BY <2>2, CloseConnsExact DEF GroupInv, GroupIsLiveWebsockets
  <2>3. CASE CloseConns(S) /\ group' = group \ S
    BY <2>3, CloseConnsExact DEF GroupInv, GroupIsLiveWebsockets
  <2>4. QED
    BY <2>1, <2>2, <2>3
<1>3. QED
  BY <1>1, <1>2 DEF GroupInv

(* A kept connection keeps its kind.                                       *)
LEMMA KindOfHeld ==
    ASSUME TypeOK, GroupInv, NEW c \in Conns, NEW k, ProcessDataIn(c, k)
    PROVE  /\ \A d \in held : kind'[d] = "handled"
           /\ \A d \in Conns : ws[d] => kind'[d] = kind[d]
           /\ c \in held => k = "handled"
           /\ kind'[c] = k
           /\ ~ws[c]
BY DEF ProcessDataIn, Recognised, HttpEvent, HttpTurn, GroupInv, UpgradeScope, TypeOK

(* The events of connections: only upgrades add to the group, and every    *)
(* end of a websocket takes it out.                                        *)
LEMMA GroupDispatch ==
    ASSUME JoinsAt = "ready", TypeOK, Ownership, GroupInv,
           NEW c \in Conns, Dispatch(c)
    PROVE  GroupInv'
<1>h. held \subseteq Conns /\ \A d \in held : kind[d] = "handled"
  BY DEF TypeOK, GroupInv, UpgradeScope
<1>1. CASE HttpClosed(c)
  BY <1>1, <1>h, GroupKept DEF HttpClosed, HttpEvent, HttpTurn, appVars
<1>2. CASE HttpIncomplete(c)
  BY <1>2, <1>h, GroupKept DEF HttpIncomplete, HttpEvent, HttpTurn, appVars
<1>3. CASE DispatchCloses(c)
  BY <1>3, <1>h, GroupKept, KindOfHeld DEF DispatchCloses, appVars
<1>4. CASE DispatchKeeps(c)
  BY <1>4, <1>h, GroupKept, KindOfHeld DEF DispatchKeeps
<1>5. CASE DispatchUnknownMethod(c)
  BY <1>5, <1>h, GroupKept, KindOfHeld DEF DispatchUnknownMethod, appVars
<1>6. CASE UpgradeRejected(c)
  <2>1. c \notin held /\ kind'[c] = "upgrade" /\ ~ws[c]
    BY <1>6, KindOfHeld DEF UpgradeRejected
  <2>2. pending' = pending \ {c} /\ \A d \in Conns : sock'[d] \in {sock[d], "closed"}
    BY <1>6, CloseConnsExact DEF UpgradeRejected
  <2>3. sock[c] = "open"
    BY <1>6 DEF UpgradeRejected, ProcessDataIn, HttpEvent, HttpTurn, Ownership
  <2>4. GroupIsLiveWebsockets'
    BY <1>6, <2>1, <2>2
    DEF UpgradeRejected, GroupInv, GroupIsLiveWebsockets, TypeOK, appVars
  <2>5. UpgradeScope'
    BY <1>6, <2>1, <2>2, <2>3, KindOfHeld
    DEF UpgradeRejected, GroupInv, UpgradeScope, TypeOK, appVars
  <2>6. QED
    BY <2>4, <2>5 DEF GroupInv
<1>7. ASSUME NEW ready \in {-1, 0}, UpgradeDone(c, ready)
      PROVE  GroupInv'
  <2> DEFINE S == IF ready = -1 THEN {c} ELSE {}
  <2>1. c \notin held /\ kind'[c] = "upgrade" /\ ~ws[c]
    BY <1>7, KindOfHeld DEF UpgradeDone
  <2>2. pending' = pending \ S /\ \A d \in Conns : sock'[d] \in {sock[d], "closed"}
    BY <1>7, CloseConnsExact DEF UpgradeDone
  <2>3. sock[c] = "open" /\ c \in pending
    BY <1>7 DEF UpgradeDone, ProcessDataIn, HttpEvent, HttpTurn, Ownership
  <2>5. GroupIsLiveWebsockets'
    <3>1. CASE ready = 0
      <4>1. group' = group \cup {c} /\ ws' = [ws EXCEPT ![c] = TRUE]
        BY <1>7, <3>1 DEF UpgradeDone
      <4>2. pending' = pending
        BY <2>2, <3>1
      <4>3. QED
        BY <2>1, <2>3, <4>1, <4>2 DEF GroupInv, GroupIsLiveWebsockets, TypeOK
    <3>2. CASE ready = -1
      <4>1. group' = group /\ ws' = [ws EXCEPT ![c] = TRUE]
        BY <1>7, <3>2 DEF UpgradeDone
      <4>2. pending' = pending \ {c}
        BY <2>2, <3>2
      <4>3. QED
        BY <2>1, <4>1, <4>2 DEF GroupInv, GroupIsLiveWebsockets, TypeOK
    <3>3. QED
      BY <3>1, <3>2
  <2>6. UpgradeScope'
    BY <1>7, <2>1, <2>2, <2>3, KindOfHeld DEF UpgradeDone, GroupInv, UpgradeScope, TypeOK
  <2>7. QED
    BY <2>5, <2>6 DEF GroupInv
<1>8. CASE WsKeeps(c)
  BY <1>8, <1>h, GroupKept DEF WsKeeps, WsEvent
<1>9. CASE WsCloses(c)
  BY <1>9, <1>h, GroupKept DEF WsCloses, WsEvent
<1>10. QED
  BY <1>1, <1>2, <1>3, <1>4, <1>5, <1>6, <1>7, <1>8, <1>9 DEF Dispatch

(* GroupIsLiveWebsockets with UpgradeScope is inductive.                   *)
LEMMA GroupStep ==
    ASSUME JoinsAt = "ready", TypeOK, Ownership, GroupInv, [Next]_vars
    PROVE  GroupInv'
<1> USE DEF GroupInv, GroupIsLiveWebsockets, UpgradeScope
<1>1. ASSUME NEW c \in Conns, Client(c)
      PROVE  GroupInv'
  <2>1. CASE Connect(c)
    BY <2>1 DEF Connect, TypeOK, connVars, appVars
  <2>2. CASE Send(c) \/ \E unread \in 0..MaxRx : Leave(c, unread)
    BY <2>2 DEF Send, Leave, connVars, appVars
  <2>3. QED
    BY <1>1, <2>1, <2>2 DEF Client
<1>2. ASSUME NEW c \in Conns, Accept(c)
      PROVE  GroupInv'
  <2>1. ~ws[c]
    BY <1>2 DEF Accept, AcceptOk, KeepAliveFails, EpollAddFails, Accepting
  <2>2. CASE AcceptOk(c)
    BY <2>1, <2>2 DEF AcceptOk, TypeOK, appVars
  <2>3. CASE KeepAliveFails(c)
    BY <2>1, <2>3 DEF KeepAliveFails, TypeOK, connVars, appVars
  <2>4. CASE EpollAddFails(c)
    BY <2>1, <2>4 DEF EpollAddFails, TypeOK, appVars
  <2>5. QED
    BY <1>2, <2>2, <2>3, <2>4 DEF Accept
<1>3. ASSUME NEW c \in Conns, Dispatch(c)
      PROVE  GroupInv'
  BY <1>3, GroupDispatch
<1>4. ASSUME NEW c \in Conns, AsyncReply(c)
      PROVE  GroupInv'
  BY <1>4, GroupKept DEF AsyncReply, TypeOK
<1>5. ASSUME NEW c \in Conns, Die(c)
      PROVE  GroupInv'
  BY <1>5 DEF Die, UnknownMethodAborts, UpgradeNoKey,
     WsReadsNothing, WsReadsPastEnd, AsyncReplyStale, Abort, kernelVars, connVars, appVars
<1>6. CASE EpollWait
  BY <1>6 DEF EpollWait, connVars, appVars
<1>7. CASE PollReturn \/ AcceptFails \/ BroadcastStale
  BY <1>7 DEF PollReturn, AcceptFails, BroadcastStale, Abort, kernelVars, connVars, appVars
<1>8. CASE PollEmpty \/ Broadcast \/ UNCHANGED vars
  BY <1>8 DEF PollEmpty, Broadcast, vars, kernelVars, connVars, appVars
<1>9. QED
  BY <1>1, <1>2, <1>3, <1>4, <1>5, <1>6, <1>7, <1>8 DEF Next

(* An application that joins its BroadcastGroup in ws_ready_hook, when it  *)
(* accepts, and leaves in ws_will_close_hook has exactly the live          *)
(* websockets in the group, even when it also keeps plain connections.     *)
THEOREM GroupHolds ==
    ASSUME JoinsAt = "ready"
    PROVE  Spec => []GroupIsLiveWebsockets
<1>1. Init => GroupInv
  BY DEF Init, GroupInv, GroupIsLiveWebsockets, UpgradeScope
<1>2. TypeOK /\ Ownership /\ GroupInv /\ [Next]_vars => GroupInv'
  BY GroupStep
<1>3. GroupInv => GroupIsLiveWebsockets
  BY DEF GroupInv
<1>4. QED
  BY <1>1, <1>2, <1>3, TypeCorrect, OwnershipHolds, PTL DEF Spec

-----------------------------------------------------------------------------
(* NoAbort, for the disciplined deployments.                               *)

AliveInv == NoAbort /\ held = {} /\ BatchReadable

(* Level-triggered, an event is reported only while there is something to  *)
(* read, and only the event itself reads it.                               *)
LEMMA BatchReadableStep ==
    ASSUME Disciplined, TypeOK, BatchScope, AliveInv, [Next]_vars
    PROVE  BatchReadable'
<1> USE DEF AliveInv, BatchReadable
<1>1. ASSUME NEW c \in Conns, Client(c)
      PROVE  BatchReadable'
  BY <1>1, BoundType DEF Client, Connect, Send, Leave, TypeOK
<1>2. ASSUME NEW c \in Conns, Accept(c)
      PROVE  BatchReadable'
  BY <1>2 DEF Accept, AcceptOk, KeepAliveFails, EpollAddFails
<1>3. ASSUME NEW c \in Conns, Dispatch(c)
      PROVE  BatchReadable'
  <2>1. batch' = batch \ {c}
    BY <1>3, DispatchCloseScope DEF Disciplined
  <2>2. eof' = eof /\ \A d \in Conns \ {c} : rx'[d] = rx[d]
    BY <1>3 DEF Dispatch, HttpClosed, HttpIncomplete, DispatchCloses, DispatchKeeps,
       DispatchUnknownMethod, UpgradeRejected, UpgradeDone, WsKeeps, WsCloses,
       ProcessDataIn, HttpEvent, WsEvent, TypeOK
  <2>3. QED
    BY <2>1, <2>2
<1>4. ASSUME NEW c \in Conns, AsyncReply(c) \/ Die(c)
      PROVE  BatchReadable'
  BY <1>4 DEF AsyncReply, Die, UnknownMethodAborts, UpgradeNoKey,
     WsReadsNothing, WsReadsPastEnd, AsyncReplyStale, Abort, kernelVars
<1>5. CASE EpollWait
  <2>1. \A c \in batch' \cap Conns : Readable(c)
    BY <1>5, BoundType DEF EpollWait, Ready
  <2>2. QED
    BY <1>5, <2>1 DEF EpollWait, Readable, Disciplined
<1>6. CASE PollReturn \/ AcceptFails \/ BroadcastStale
  BY <1>6 DEF PollReturn, AcceptFails, BroadcastStale, Abort, kernelVars
<1>7. CASE PollEmpty \/ Broadcast \/ UNCHANGED vars
  BY <1>7 DEF PollEmpty, Broadcast, vars, kernelVars
<1>8. QED
  BY <1>1, <1>2, <1>3, <1>4, <1>5, <1>6, <1>7 DEF Next

(* None of the ways to die is open.                                        *)
LEMMA NothingDies ==
    ASSUME Disciplined, TypeOK, Ownership, BatchInv, GroupInv, AliveInv
    PROVE  /\ \A c \in Conns : ~Die(c)
           /\ ~BroadcastStale
<1>1. ASSUME NEW c \in Conns
      PROVE  ~Die(c)
  <2>1. ~UnknownMethodAborts(c) /\ ~UpgradeNoKey(c)
    BY DEF UnknownMethodAborts, UpgradeNoKey, Recognised, Disciplined, TypeOK
  <2>2. ~AsyncReplyStale(c) /\ ~WsReadsPastEnd(c)
    BY DEF AsyncReplyStale, WsReadsPastEnd, AliveInv, Disciplined
  <2>3. ~WsReadsNothing(c)
    BY DEF WsReadsNothing, WsTurn, Turn, Reads, AliveInv, BatchReadable
  <2>4. QED
    BY <2>1, <2>2, <2>3 DEF Die
<1>2. ~BroadcastStale
  BY DEF BroadcastStale, GroupInv, GroupIsLiveWebsockets, Ownership, TypeOK
<1>3. QED
  BY <1>1, <1>2

(* A disciplined deployment stays up, holds nothing, and its batch stays   *)
(* readable.                                                               *)
LEMMA AliveStep ==
    ASSUME Disciplined, TypeOK, Ownership, BatchInv, GroupInv, AliveInv, [Next]_vars
    PROVE  AliveInv'
<1>1. BatchReadable'
  BY BatchReadableStep DEF BatchInv
<1>2. status' = status
  <2>1. ASSUME NEW c \in Conns, Client(c) \/ Accept(c) \/ AsyncReply(c)
        PROVE  status' = status
    BY <2>1 DEF Client, Connect, Send, Leave, Accept, AcceptOk, KeepAliveFails,
       EpollAddFails, AsyncReply
  <2>2. ASSUME NEW c \in Conns, Dispatch(c)
        PROVE  status' = status
    BY <2>2 DEF Dispatch, HttpClosed, HttpIncomplete, DispatchCloses, DispatchKeeps,
       DispatchUnknownMethod, UpgradeRejected, UpgradeDone, WsKeeps, WsCloses,
       ProcessDataIn, HttpEvent, WsEvent
  <2>3. CASE EpollWait \/ PollEmpty \/ PollReturn \/ AcceptFails \/ Broadcast \/ UNCHANGED vars
    BY <2>3 DEF EpollWait, PollEmpty, PollReturn, AcceptFails, Broadcast, vars
  <2>4. QED
    BY <2>1, <2>2, <2>3, NothingDies DEF Next
<1>3. held' = {}
  <2> USE DEF AliveInv, Disciplined, appVars
  <2>1. ASSUME NEW c \in Conns, Client(c) \/ Accept(c) \/ AsyncReply(c)
        PROVE  held' = {}
    BY <2>1 DEF Client, Connect, Send, Leave, Accept, AcceptOk, KeepAliveFails,
       EpollAddFails, AsyncReply
  <2>2. ASSUME NEW c \in Conns, Dispatch(c)
        PROVE  held' = {}
    BY <2>2 DEF Dispatch, HttpClosed, HttpIncomplete, DispatchCloses, DispatchKeeps,
       DispatchUnknownMethod, UpgradeRejected, UpgradeDone, WsKeeps, WsCloses, WsEvent
  <2>3. CASE EpollWait \/ PollEmpty \/ PollReturn \/ AcceptFails \/ Broadcast \/ UNCHANGED vars
    BY <2>3 DEF EpollWait, PollEmpty, PollReturn, AcceptFails, Broadcast, vars
  <2>4. QED
    BY <2>1, <2>2, <2>3, NothingDies DEF Next
<1>4. QED
  BY <1>1, <1>2, <1>3 DEF AliveInv, NoAbort

(* A disciplined deployment never uses a freed Connection, a null pointer  *)
(* or bytes behind the end of buffer_: no event, hook, kept pointer or     *)
(* broadcast reaches one.  That frames arrive whole is part of the         *)
(* discipline; WebsocketConnection says for which clients they do.         *)
THEOREM NoAbortHolds ==
    ASSUME Disciplined
    PROVE  Spec => []NoAbort
<1> DEFINE Inv == TypeOK /\ Ownership /\ BatchInv /\ GroupInv /\ AliveInv
<1>1. Init => Inv
  <2>1. Init => Ownership /\ BatchInv /\ GroupInv /\ AliveInv
    BY DEF Init, Ownership, BatchInv, BatchLive, BatchScope, GroupInv,
       GroupIsLiveWebsockets, UpgradeScope, AliveInv, NoAbort, BatchReadable
  <2>2. QED
    BY <2>1, InitType
<1>2. Inv /\ [Next]_vars => Inv'
  BY TypeStep, OwnershipStep, BatchStep, GroupStep, AliveStep DEF Disciplined
<1>3. Inv => NoAbort
  BY DEF AliveInv
<1>4. QED
  BY <1>1, <1>2, <1>3, PTL DEF Spec
=============================================================================
