--------------------------- MODULE ClientSession ---------------------------
(***************************************************************************)
(* The WebSocket connections of the server: reader, writer and heartbeat   *)
(* of each connection, the bounded channel between them, block range       *)
(* tasks, the subscription pool, and the minter that stores, commits and   *)
(* announces blocks.                                                       *)
(*                                                                         *)
(* Sources: server/client/mod.rs, server/client/block_range.rs,            *)
(* server/pool.rs, the end of Minter::produce (server/minter.rs).          *)
(*                                                                         *)
(* The channel is futures::channel::mpsc.  A sender whose message exceeds  *)
(* the bound is parked until a later receive wakes it, one per message; a  *)
(* clone is a new sender that is not parked.  Parking is per sender, so a  *)
(* broadcast, which clones the sender first, is never refused.             *)
(***************************************************************************)
EXTENDS Integers, Sequences

CONSTANTS
    Conns,          \* connections; each has an address of its own
    CAP,            \* bound of the channel (32)
    FirstHeight,    \* height of the chain at the start
    MaxHeight,      \* bound on the height
    MaxRequests,    \* bound on the messages of a peer, pongs not counted
    RangeFrom,      \* first heights of range requests
    RangeTo         \* last heights of range requests

ASSUME SessionAssumption ==
    /\ CAP \in Nat /\ MaxRequests \in Nat
    /\ RangeFrom \subseteq 0 .. MaxHeight /\ RangeTo \subseteq 0 .. MaxHeight
    /\ FirstHeight \in Nat /\ MaxHeight \in Nat /\ FirstHeight <= MaxHeight

VARIABLES
    task,           \* the connection's task: "none", "open" or "closed"
    peer,           \* "up", or "silent": it neither reads nor sends any more
    needs_pong,
    filter,         \* WsClient.filter is set
    queue,          \* the channel
    parked,         \* the parked senders of the channel, oldest first
    ranges,         \* the running block range tasks
    requests,       \* messages read so far; also the id of the last one
    pool,           \* SubscriptionPool.clients
    stored,         \* height of the block store
    height,         \* height of the index
    announced,      \* height of the last broadcast
    seen,           \* history: the blocks and ends of ranges the writer has sent
    since,          \* history: announced, when the subscription began
    asked,          \* history: the range requests that were accepted
    unreachable     \* history: a range task has reached unreachable!()

conn    == <<task, peer, needs_pong, filter, queue, parked, ranges, requests>>
chain   == <<stored, height, announced>>
history == <<seen, since, asked, unreachable>>
vars    == <<conn, pool, chain, history>>

BROADCAST_ID == 0       \* u32::max_value()

Block(id, h, filtered) == [kind |-> "Block", id |-> id, height |-> h, filtered |-> filtered]
RangeEnd(id) == [kind |-> "GetBlockRange", id |-> id]
Reply(id)    == [kind |-> "Reply", id |-> id]
Ping         == [kind |-> "Ping", id |-> BROADCAST_ID]
CloseFrame   == [kind |-> "Close", id |-> BROADCAST_ID]

\* Senders of a channel.  The sender of a broadcast is dropped at once.
Reader      == <<"reader", 0>>
Heartbeat   == <<"heartbeat", 0>>
Dropped     == <<"dropped", 0>>
RangeOf(id) == <<"range", id>>

Init ==
    /\ task = [c \in Conns |-> "none"] /\ peer = [c \in Conns |-> "up"]
    /\ needs_pong = [c \in Conns |-> FALSE] /\ filter = [c \in Conns |-> FALSE]
    /\ queue = [c \in Conns |-> <<>>] /\ parked = [c \in Conns |-> <<>>]
    /\ ranges = [c \in Conns |-> {}] /\ requests = [c \in Conns |-> 0]
    /\ pool = {}
    /\ stored = FirstHeight /\ height = FirstHeight /\ announced = FirstHeight
    /\ seen = [c \in Conns |-> <<>>] /\ since = [c \in Conns |-> FirstHeight]
    /\ asked = [c \in Conns |-> {}] /\ unreachable = FALSE

-----------------------------------------------------------------------------
(* The channel.                                                            *)

IsParked(c, sender) == \E i \in DOMAIN parked[c] : parked[c][i] = sender

\* The senders parked after a message of `sender` has been queued.
ParkedAfter(c, sender) ==
    IF Len(queue[c]) + 1 > CAP THEN Append(parked[c], sender) ELSE parked[c]

Send(c, sender, msg) ==
    /\ queue' = [queue EXCEPT ![c] = Append(@, msg)]
    /\ parked' = [parked EXCEPT ![c] = ParkedAfter(c, sender)]

-----------------------------------------------------------------------------
(* The life of a connection.                                               *)

Connect(c) ==
    /\ task[c] = "none"
    /\ task' = [task EXCEPT ![c] = "open"]
    /\ UNCHANGED <<peer, needs_pong, filter, queue, parked, ranges, requests,
                   pool, chain, history>>

\* The select! returns: state and channel are dropped (the history with them).
DropClient(c) ==
    /\ task' = [task EXCEPT ![c] = "closed"]
    /\ needs_pong' = [needs_pong EXCEPT ![c] = FALSE]
    /\ filter' = [filter EXCEPT ![c] = FALSE]
    /\ queue' = [queue EXCEPT ![c] = <<>>]
    /\ parked' = [parked EXCEPT ![c] = <<>>]
    /\ seen' = [seen EXCEPT ![c] = <<>>]
    /\ asked' = [asked EXCEPT ![c] = {}]

\* Mutant: the subscription stays.
CloseOnly(c) == DropClient(c) /\ UNCHANGED pool

\* Then the subscription is removed.
Close(c) == DropClient(c) /\ pool' = pool \ {c}

\* The peer hangs up or the socket fails: reader or writer end.
HangUp(c) ==
    /\ task[c] = "open" /\ peer[c] = "up"
    /\ Close(c)
    /\ UNCHANGED <<peer, ranges, requests, chain, since, unreachable>>

\* The peer stops reading and sending without a word.
FallSilent(c) ==
    /\ task[c] = "open" /\ peer[c] = "up"
    /\ peer' = [peer EXCEPT ![c] = "silent"]
    /\ UNCHANGED <<task, needs_pong, filter, queue, parked, ranges, requests,
                   pool, chain, history>>

\* Mutant: a missing pong is noticed and the loop goes on.
BeatWithoutBreak(c) ==
    /\ task[c] = "open" /\ ~IsParked(c, Heartbeat) /\ ~needs_pong[c]
    /\ needs_pong' = [needs_pong EXCEPT ![c] = TRUE]
    /\ Send(c, Heartbeat, Ping)
    /\ UNCHANGED <<task, peer, filter, ranges, requests, pool, chain, history>>

\* A tick of the heartbeat.  Its ping waits for room like any other message.
Beat(c) ==
    /\ task[c] = "open" /\ ~IsParked(c, Heartbeat)
    /\ IF needs_pong[c]
       THEN Close(c)
       ELSE /\ needs_pong' = [needs_pong EXCEPT ![c] = TRUE]
            /\ Send(c, Heartbeat, Ping)
            /\ UNCHANGED <<task, filter, pool, seen, asked>>
    /\ UNCHANGED <<peer, ranges, requests, chain, since, unreachable>>

\* Mutant: a full channel wakes no sender.
WriteWithoutWaking(c) ==
    /\ task[c] = "open" /\ peer[c] = "up" /\ queue[c] # <<>>
    /\ queue' = [queue EXCEPT ![c] = Tail(@)]
    /\ parked' = [parked EXCEPT ![c] = IF @ = <<>> \/ Len(queue[c]) > CAP THEN @ ELSE Tail(@)]
    /\ seen' = IF Head(queue[c]).kind \in {"Block", "GetBlockRange"}
               THEN [seen EXCEPT ![c] = Append(@, Head(queue[c]))]
               ELSE seen
    /\ UNCHANGED <<task, peer, needs_pong, filter, ranges, requests,
                   pool, chain, since, asked, unreachable>>

\* ws_writer forwards one message; the channel wakes the oldest parked sender.
Write(c) ==
    /\ task[c] = "open" /\ peer[c] = "up" /\ queue[c] # <<>>
    /\ queue' = [queue EXCEPT ![c] = Tail(@)]
    /\ parked' = [parked EXCEPT ![c] = IF @ = <<>> THEN @ ELSE Tail(@)]
    /\ seen' = IF Head(queue[c]).kind \in {"Block", "GetBlockRange"}
               THEN [seen EXCEPT ![c] = Append(@, Head(queue[c]))]
               ELSE seen
    /\ UNCHANGED <<task, peer, needs_pong, filter, ranges, requests,
                   pool, chain, since, asked, unreachable>>

-----------------------------------------------------------------------------
(* Messages of the peer: process_ws_msg and what it calls.                 *)

CanRead(c) == task[c] = "open" /\ peer[c] = "up" /\ ~IsParked(c, Reader)

\* The reader takes the next message, whose id is the number of the message.
Read(c) ==
    /\ CanRead(c) /\ requests[c] < MaxRequests
    /\ requests' = [requests EXCEPT ![c] = @ + 1]
    /\ UNCHANGED <<task, peer, chain, seen, unreachable>>

Id(c) == requests[c] + 1

\* Any binary message counts as a sign of life.
SignOfLife(c) == needs_pong' = [needs_pong EXCEPT ![c] = FALSE]

\* Requests answered at once that change nothing here (a ping, a broadcast of a
\* transaction, a query), and messages that cannot be read.
ReadRequest(c) ==
    /\ Read(c) /\ SignOfLife(c)
    /\ Send(c, Reader, Reply(Id(c)))
    /\ UNCHANGED <<filter, ranges, pool, since, asked>>

\* A pong, an error or a response has no answer; it is not counted.
ReadPong(c) ==
    /\ CanRead(c) /\ SignOfLife(c)
    /\ UNCHANGED <<task, peer, filter, queue, parked, ranges, requests,
                   pool, chain, history>>

\* Text is answered with a close frame and is no sign of life.  What the channel
\* still holds may or may not reach the peer before it hangs up.
ReadText(c) ==
    /\ Read(c)
    /\ Send(c, Reader, CloseFrame)
    /\ UNCHANGED <<needs_pong, filter, ranges, pool, since, asked>>

ReadFilter(c) ==
    /\ Read(c) /\ SignOfLife(c)
    /\ \E set \in BOOLEAN : filter' = [filter EXCEPT ![c] = set]
    /\ Send(c, Reader, Reply(Id(c)))
    /\ UNCHANGED <<ranges, pool, since, asked>>

ReadSubscribe(c) ==
    /\ Read(c) /\ SignOfLife(c)
    /\ pool' = pool \cup {c}
    /\ since' = IF c \in pool THEN since ELSE [since EXCEPT ![c] = announced]
    /\ Send(c, Reader, Reply(Id(c)))
    /\ UNCHANGED <<filter, ranges, asked>>

ReadUnsubscribe(c) ==
    /\ Read(c) /\ SignOfLife(c)
    /\ pool' = pool \ {c}
    /\ Send(c, Reader, Reply(Id(c)))
    /\ UNCHANGED <<filter, ranges, since, asked>>

\* AsyncBlockRange::try_new looks at the index.
ValidRange(min, max) == min <= max /\ max <= height

\* An accepted range becomes a task of its own, with the filter of this moment.
ReadBlockRange(c) ==
    /\ Read(c) /\ SignOfLife(c)
    /\ \E min \in RangeFrom, max \in RangeTo :
          LET range == [id |-> Id(c), next |-> min, max |-> max, filtered |-> filter[c]]
          IN \/ /\ ~ValidRange(min, max)
                /\ Send(c, Reader, Reply(Id(c)))
                /\ UNCHANGED <<ranges, asked>>
             \/ /\ ValidRange(min, max)
                /\ ranges' = [ranges EXCEPT ![c] = @ \cup {range}]
                /\ asked' = [asked EXCEPT ![c] = @ \cup {range}]
                /\ UNCHANGED <<queue, parked>>
    /\ UNCHANGED <<filter, pool, since>>

-----------------------------------------------------------------------------
(* Range tasks.                                                            *)

\* Mutant: the filter is read when the block is.
RangeNextBlock(c, r) == Block(r.id, r.next, filter[c])

\* poll_next: the block at min_height under the task's filter.
RangeBlock(c, r) == Block(r.id, r.next, r.filtered)

\* Mutant: the last block of the range is left out.
RangeDoneEarly(r) == r.next >= r.max

RangeDone(r) == r.next > r.max

\* A range task polls its stream once and sends what it got.
RangeStep(c) ==
    /\ \E r \in ranges[c] :
          /\ ~IsParked(c, RangeOf(r.id))
          /\ \/ /\ task[c] = "closed"
                /\ ranges' = [ranges EXCEPT ![c] = @ \ {r}]
                /\ UNCHANGED <<queue, parked, unreachable>>
             \/ /\ task[c] = "open" /\ ~RangeDone(r)
                /\ unreachable' = (unreachable \/ r.next > stored)
                /\ IF r.next > stored
                   THEN /\ ranges' = [ranges EXCEPT ![c] = @ \ {r}]
                        /\ UNCHANGED <<queue, parked>>
                   ELSE /\ ranges' = [ranges EXCEPT ![c] =
                                         (@ \ {r}) \cup {[r EXCEPT !.next = @ + 1]}]
                        /\ Send(c, RangeOf(r.id), RangeBlock(c, r))
             \/ /\ task[c] = "open" /\ RangeDone(r)
                /\ ranges' = [ranges EXCEPT ![c] = @ \ {r}]
                /\ Send(c, RangeOf(r.id), RangeEnd(r.id))
                /\ UNCHANGED unreachable
    /\ UNCHANGED <<task, peer, needs_pong, filter, requests, pool, chain, seen, since, asked>>

-----------------------------------------------------------------------------
(* The minter: insert_block writes the log, then commits the index; then   *)
(* produce broadcasts.                                                     *)

StoreBlock ==
    /\ stored = height /\ announced = height /\ height < MaxHeight
    /\ stored' = stored + 1
    /\ UNCHANGED <<conn, pool, height, announced, history>>

\* Mutant: the index is committed before the log is written.
CommitBlockFirst ==
    /\ stored = height /\ announced = height /\ height < MaxHeight
    /\ height' = height + 1
    /\ UNCHANGED <<conn, pool, stored, announced, history>>

CommitBlock ==
    /\ height < stored
    /\ height' = stored
    /\ UNCHANGED <<conn, pool, stored, announced, history>>

\* Mutant: a full channel refuses the broadcast.
ReachedIfRoom(c) == c \in pool /\ Len(queue[c]) <= CAP

\* try_send on a clone of the subscriber's sender.
Reached(c) == c \in pool

Broadcast ==
    /\ announced < height
    /\ announced' = height
    /\ queue' = [c \in Conns |-> IF Reached(c)
                                 THEN Append(queue[c], Block(BROADCAST_ID, height, FALSE))
                                 ELSE queue[c]]
    /\ parked' = [c \in Conns |-> IF Reached(c) THEN ParkedAfter(c, Dropped) ELSE parked[c]]
    /\ UNCHANGED <<task, peer, needs_pong, filter, ranges, requests, pool,
                   stored, height, history>>

Step(c) ==
    \/ Connect(c) \/ HangUp(c) \/ FallSilent(c) \/ Beat(c) \/ Write(c)
    \/ ReadRequest(c) \/ ReadPong(c) \/ ReadText(c) \/ ReadFilter(c)
    \/ ReadSubscribe(c) \/ ReadUnsubscribe(c) \/ ReadBlockRange(c)
    \/ RangeStep(c)

Next == StoreBlock \/ CommitBlock \/ Broadcast \/ \E c \in Conns : Step(c)

\* Timers fire, tasks that can run are polled, and a peer that is up reads.
Fairness ==
    \A c \in Conns : WF_vars(Beat(c)) /\ WF_vars(Write(c)) /\ WF_vars(RangeStep(c))

Spec == Init /\ [][Next]_vars /\ Fairness

-----------------------------------------------------------------------------
(* Properties.                                                             *)

Message ==
    [kind : {"Block"}, id : 0 .. MaxRequests, height : 0 .. MaxHeight, filtered : BOOLEAN]
    \cup [kind : {"GetBlockRange", "Reply", "Ping", "Close"}, id : 0 .. MaxRequests]

RangeTask == [id : 1 .. MaxRequests, next : 0 .. MaxHeight + 1, max : 0 .. MaxHeight,
              filtered : BOOLEAN]

Sender == {Reader, Heartbeat, Dropped} \cup {RangeOf(id) : id \in 1 .. MaxRequests}

ConnTypes ==
    /\ task \in [Conns -> {"none", "open", "closed"}]
    /\ peer \in [Conns -> {"up", "silent"}]
    /\ queue \in [Conns -> Seq(Message)] /\ seen \in [Conns -> Seq(Message)]
    /\ parked \in [Conns -> Seq(Sender)]
    /\ ranges \in [Conns -> SUBSET RangeTask] /\ asked \in [Conns -> SUBSET RangeTask]
    /\ requests \in [Conns -> 0 .. MaxRequests]
    /\ pool \subseteq Conns /\ since \in [Conns -> 0 .. MaxHeight]

FlagTypes == needs_pong \in [Conns -> BOOLEAN] /\ filter \in [Conns -> BOOLEAN]

ChainTypes ==
    /\ stored \in 0 .. MaxHeight /\ height \in 0 .. stored /\ announced \in 0 .. height

\* The types; no sender waits for room in a channel that holds less messages
\* than there are senders waiting, so receiving wakes every one of them.
TypeOK ==
    /\ ConnTypes /\ FlagTypes /\ ChainTypes
    /\ \A c \in Conns : Len(parked[c]) <= Len(queue[c])

\* No subscription outlives its connection, in any order of requests, heartbeats
\* and broken sockets (the removal at the end of handle_new_client).
PoolIsLive == \A c \in pool : task[c] = "open"

\* What has been sent and what is queued for a peer, in order.
Messages(c) == seen[c] \o queue[c]

\* The blocks with id among the messages s, by position.
Blocks(s, id) == {i \in DOMAIN s : s[i].kind = "Block" /\ s[i].id = id}

Ascending(s, id) == \A i, j \in Blocks(s, id) : i < j => s[i].height < s[j].height

\* The block of height h comes before position i.
ComesBefore(s, id, h, i) == \E j \in Blocks(s, id) : j < i /\ s[j].height = h

\* A subscriber gets every block announced since it subscribed, none twice, in the
\* order of the chain, however slowly it reads (broadcast clones the sender).
SubscriptionHasNoGap ==
    \A c \in Conns :
        LET msgs == Messages(c)
        IN /\ Ascending(msgs, BROADCAST_ID)
           /\ c \in pool => \A h \in since[c] + 1 .. announced :
                               ComesBefore(msgs, BROADCAST_ID, h, Len(msgs) + 1)

\* Messages s hold the answer to r, as far as it has come.
Answers(s, r) ==
    /\ Ascending(s, r.id)
    /\ \A i \in Blocks(s, r.id) :
          /\ s[i].filtered = r.filtered
          /\ s[i].height \in r.next .. r.max
          /\ \A h \in r.next .. s[i].height - 1 : ComesBefore(s, r.id, h, i)
    /\ \A i \in DOMAIN s : s[i] = RangeEnd(r.id) =>
          \A h \in r.next .. r.max : ComesBefore(s, r.id, h, i)

\* The answer to a range request, as far as it has come: the heights from the
\* first on, in order and without a gap, all under the filter of the request,
\* whatever the peer requests meanwhile; the end comes after the last height.
RangeInOrder ==
    \A c \in Conns : task[c] = "open" => \A r \in asked[c] : Answers(Messages(c), r)

\* The unreachable!() of poll_next is: the index never names a block that the
\* store does not hold, also between the two steps of insert_block.
RangeFindsBlocks == ~unreachable

\* A peer that has fallen silent is dropped and with it its subscription, unless
\* the ping itself waits for room in the channel the peer no longer empties.
SilentPeerDropped ==
    \A c \in Conns :
        task[c] = "open" /\ peer[c] = "silent" ~>
            task[c] = "closed" \/ IsParked(c, Heartbeat)

\* A range task ends, unless its peer has stopped reading.
RangeEnds ==
    \A c \in Conns : ranges[c] # {} ~> ranges[c] = {} \/ peer[c] = "silent"

-----------------------------------------------------------------------------
(* The inductive invariant behind them, proved in ClientSessionProofs.     *)

\* A block is stored only when the last one has been announced.
OneBlockAhead == stored <= announced + 1

\* What there is of a connection that is not open.
IdleInv ==
    \A c \in Conns :
        /\ task[c] # "open" => queue[c] = <<>> /\ seen[c] = <<>> /\ asked[c] = {}
        /\ task[c] = "none" => ranges[c] = {}

\* No message names a height to come or a request not made yet.
IdInv ==
    \A c \in Conns : \A i \in DOMAIN Messages(c) :
        /\ i \in Blocks(Messages(c), BROADCAST_ID) => Messages(c)[i].height <= announced
        /\ Messages(c)[i].kind \in {"Block", "GetBlockRange"} =>
              Messages(c)[i].id <= requests[c]

\* A range task has a request of its own and stays below the chain's height.
TaskInv ==
    \A c \in Conns :
        /\ \A r \in ranges[c] :
              r.id <= requests[c] /\ r.next <= r.max + 1 /\ r.max <= height
        /\ \A q, r \in ranges[c] : q.id = r.id => q = r

\* Messages s hold the heights of request a that task r has behind it, not more.
Underway(s, a, r) ==
    /\ r.max = a.max /\ r.filtered = a.filtered /\ a.next <= r.next
    /\ \A i \in Blocks(s, r.id) : s[i].height < r.next
    /\ \A h \in a.next .. r.next - 1 : ComesBefore(s, r.id, h, Len(s) + 1)
    /\ \A i \in DOMAIN s : s[i] # RangeEnd(r.id)

UnderwayInv ==
    \A c \in Conns : task[c] = "open" =>
        \A a \in asked[c] :
            /\ a.id <= requests[c]
            /\ \A r \in ranges[c] : r.id = a.id => Underway(Messages(c), a, r)

SessionInv ==
    /\ TypeOK /\ OneBlockAhead /\ IdleInv /\ IdInv /\ TaskInv /\ UnderwayInv
    /\ PoolIsLive /\ SubscriptionHasNoGap /\ RangeInOrder /\ RangeFindsBlocks

=============================================================================
