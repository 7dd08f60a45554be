------------------------------ MODULE UdpStream ------------------------------
(***************************************************************************)
(* The SBCO session between UdpBcoStreamSource and a bco-generator.  The    *)
(* source subscribes every 100 ms under a stream id of its own, the         *)
(* generator serves one subscriber until a Stop or the end of the lease,    *)
(* and each remembers what it must refuse.  A datagram, once sent, stays in *)
(* the network for ever: it may arrive late, never, or many times.  A send  *)
(* that fails and a datagram that the codec refuses are ones that never     *)
(* arrive.                                                                  *)
(***************************************************************************)
EXTENDS Integers, Sequences, FiniteSets, SequencesExt

CONSTANTS
  PoolSize,        \* poolSize: blocks the source owns
  BlockCapacity,   \* blockCapacity: samples of a block
  PacketCapacity,  \* wire::maxSamples
  RetiredCap,      \* streams the generator remembers as ended
  NoBlock,         \* the source has no open block
  MaxStreams,      \* bound: starts of the source
  MaxControls,     \* bound: subscriptions sent
  MaxRevisions,    \* bound: changes of the pulse settings
  AzimuthAt,       \* what the antenna reports at the n-th request of a stream
  MaxWindows,      \* bound: time windows of a stream
  MaxProducers,    \* bound: starts of the generator
  MaxData          \* bound: data datagrams sent

\* What the instance has to assume of the parameters.
UdpAssumption ==
  /\ {PoolSize, BlockCapacity, PacketCapacity, RetiredCap} \subseteq Nat \ {0}
  /\ PacketCapacity <= BlockCapacity
  /\ {MaxStreams, MaxControls, MaxRevisions, MaxProducers} \subseteq Nat \ {0}
  /\ AzimuthAt \in [1..(MaxControls + 1) -> Nat]
  /\ {MaxWindows, MaxData} \subseteq Nat

VARIABLES
  \* the source
  running,    \* receiveLoop runs
  stream,     \* subscription.header.stream
  control,    \* subscription.header.sequence
  subscribed, \* subscription.header.revision
  revision,   \* m_revision
  producer,   \* the generator this stream is bound to, 0 if none
  tracker,    \* SequenceTracker
  reported,   \* reportedMissing
  block,      \* the block being filled
  held,       \* blocks the pipeline still refers to
  received,   \* history: blocks handed over in this stream
  dropped,    \* history: packets dropped for want of a block
  \* the generator
  me,         \* producer
  current,    \* the subscription served last
  active,     \* whether it is being served
  retired,    \* ids of ended streams, the oldest first
  sequence,   \* of the next datagram
  window,     \* the windows of this stream that are over
  \* the network
  requests,   \* control datagrams ever sent
  data        \* data datagrams ever sent

sourceVars == <<running, stream, control, subscribed, producer, tracker, reported,
                block, held, received, dropped>>
generatorVars == <<me, current, active, retired, sequence, window>>
netVars == <<requests, data>>
vars == <<sourceVars, revision, generatorVars, netVars>>

Streams == 1..MaxStreams
Fresh == [next |-> 0, missing |-> 0]
NoRequest == [kind |-> "stop", stream |-> 0, sequence |-> 0, revision |-> 0]
Requests == [kind : {"subscribe", "stop"}, stream : Streams, sequence : 1..(MaxControls + 1),
             revision : 1..MaxRevisions]

\* A sample stands for its index: the window of the stream's clock, and its place in it.
Earlier(s, t) == s.window < t.window \/ (s.window = t.window /\ s.place < t.place)

TypeOK ==
  /\ running \in BOOLEAN /\ stream \in 0..MaxStreams /\ control \in 0..(MaxControls + 1)
  /\ {revision, subscribed} \subseteq 1..MaxRevisions /\ subscribed <= revision
  /\ producer \in 0..me
  /\ tracker.next \in Nat /\ tracker.missing \in 0..tracker.next
  /\ reported \in 0..tracker.missing
  /\ block # NoBlock => running /\ producer # 0 /\ Len(block.samples) <= BlockCapacity
  /\ held + (IF block = NoBlock THEN 0 ELSE 1) \in 0..PoolSize /\ dropped \in Nat
  /\ me \in 1..MaxProducers /\ current \in Requests \cup {NoRequest}
  /\ active => current.kind = "subscribe"
  /\ Len(retired) <= RetiredCap /\ ToSet(retired) \subseteq Streams
  /\ sequence \in Nat /\ window \in 0..MaxWindows
  /\ requests \subseteq Requests

Init ==
  /\ running = FALSE /\ stream = 0 /\ control = 0 /\ subscribed = 1
  /\ revision = 1
  /\ producer = 0 /\ tracker = Fresh /\ reported = 0 /\ block = NoBlock
  /\ held = 0 /\ received = <<>> /\ dropped = 0
  /\ me = 1 /\ current = NoRequest /\ active = FALSE /\ retired = <<>>
  /\ sequence = 0 /\ window = 0
  /\ requests = {} /\ data = {}

-----------------------------------------------------------------------------
(* UdpBcoStreamSource.                                                       *)

\* start: a new stream id, a new pool, and nothing remembered of the last stream.
Start ==
  /\ ~running /\ stream < MaxStreams
  /\ running' = TRUE /\ stream' = stream + 1
  /\ control' = 0 /\ subscribed' = 1 /\ producer' = 0
  /\ tracker' = Fresh /\ reported' = 0 /\ block' = NoBlock
  /\ held' = 0 /\ received' = <<>> /\ dropped' = 0
  /\ UNCHANGED <<revision, generatorVars, netVars>>

SetPulseBandConfigs ==
  /\ revision < MaxRevisions
  /\ revision' = revision + 1
  /\ UNCHANGED <<sourceVars, generatorVars, netVars>>

Request(kind, rev) ==
  [kind |-> kind, stream |-> stream, sequence |-> control + 1, revision |-> rev]

\* Every 100 ms: the settings of this moment.  The azimuth of the antenna goes with
\* them, and comes back in every datagram: AzimuthAt.
Subscribe ==
  /\ running /\ Cardinality(requests) < MaxControls
  /\ subscribed' = revision /\ control' = control + 1
  /\ requests' = requests \cup {Request("subscribe", revision)}
  /\ UNCHANGED <<running, stream, producer, tracker, reported, block, held, received,
                 dropped, revision, generatorVars, data>>

\* flush: the block goes to the callback with the losses since the last one.
Flushed(b) == Append(received, [b EXCEPT !.lost = tracker.missing - reported])

\* The open block is old enough.
FlushAged ==
  /\ running /\ block # NoBlock
  /\ received' = Flushed(block) /\ reported' = tracker.missing
  /\ held' = held + 1 /\ block' = NoBlock
  /\ UNCHANGED <<running, stream, control, subscribed, producer, tracker, dropped,
                 revision, generatorVars, netVars>>

\* The pipeline drops its last reference to a block.
Release ==
  /\ held > 0
  /\ held' = held - 1
  /\ UNCHANGED <<running, stream, control, subscribed, producer, tracker, reported,
                 block, received, dropped, revision, generatorVars, netVars>>

\* Variant: any generator that serves the stream will do.
OursOfAnyProducer(p) == p.stream = stream /\ p.revision = subscribed

\* A datagram of this stream, of the settings sent last and of the bound generator.
Ours(p) ==
  /\ p.stream = stream /\ p.revision = subscribed
  /\ producer \in {0, p.producer}

\* Variant: only a repetition of the last datagram is late.
AcceptedUnlessRepeated(p) == tracker.next = 0 \/ p.sequence # tracker.next - 1

\* SequenceTracker::accept: nothing behind the last one.
Accepted(p) == p.sequence >= tracker.next

\* The packet does not go into the open block: no room, or another azimuth.
ClosesBlock(p) ==
  /\ block # NoBlock
  /\ \/ Len(block.samples) + Len(p.samples) > BlockCapacity
     \/ block.azimuth # p.azimuth

\* Variant: the losses a packet reveals are counted once it has a block.
MissedIfKept(p) == IF held = PoolSize THEN 0 ELSE p.sequence - tracker.next

\* The sequence numbers the tracker passes over.
Missed(p) == p.sequence - tracker.next

\* One datagram out of the socket, whole: filter, track, flush, take a block, append.
\* The flush happens after the tracker has moved, so its block reports the new losses;
\* the callback may refuse a block, which is free again at once.
Receive(p) ==
  LET next == [next |-> p.sequence + 1, missing |-> tracker.missing + Missed(p)]
      out(taken) ==
              IF ClosesBlock(p)
              THEN [received |-> Append(received, [block EXCEPT !.lost = next.missing - reported]),
                    reported |-> next.missing, held |-> held + taken, block |-> NoBlock]
              ELSE [received |-> received, reported |-> reported, held |-> held,
                    block |-> block]
      empty == [azimuth |-> p.azimuth, packets |-> 0, samples |-> <<>>, lost |-> 0]
      with(b) == [b EXCEPT !.packets = @ + 1, !.samples = @ \o p.samples]
  IN /\ running /\ Ours(p) /\ Accepted(p)
     /\ producer' = p.producer /\ tracker' = next
     /\ \E taken \in 0..1 :
          /\ received' = out(taken).received /\ reported' = out(taken).reported
          /\ held' = out(taken).held
          /\ \/ /\ out(taken).block # NoBlock
                /\ block' = with(out(taken).block) /\ UNCHANGED dropped
             \/ /\ out(taken).block = NoBlock /\ out(taken).held < PoolSize
                /\ block' = with(empty) /\ UNCHANGED dropped
             \/ /\ out(taken).block = NoBlock /\ out(taken).held = PoolSize
                /\ block' = NoBlock /\ dropped' = dropped + 1
     /\ UNCHANGED <<running, stream, control, subscribed, revision, generatorVars, netVars>>

\* stop: the rest of the block, and a Stop, of which any of three copies may arrive.
StopSource ==
  /\ running
  /\ running' = FALSE /\ control' = control + 1 /\ block' = NoBlock
  /\ IF block = NoBlock THEN UNCHANGED <<received, reported, held>>
     ELSE received' = Flushed(block) /\ reported' = tracker.missing /\ held' = held + 1
  /\ requests' = requests \cup {Request("stop", subscribed)}
  /\ UNCHANGED <<stream, subscribed, producer, tracker, dropped, revision,
                 generatorVars, data>>

-----------------------------------------------------------------------------
(* UdpGenerator::run.                                                        *)

\* Variant: a stream that another one replaces is not remembered.
RetireNothing == retired

\* retire: the stream of the current subscription enters the ring.
Retire ==
  IF current.stream = 0 THEN retired
  ELSE LET longer == Append(retired, current.stream) IN
       IF Len(longer) > RetiredCap THEN Tail(longer) ELSE longer

\* A control datagram that is not refused at once: of the stream served, if one is, not
\* of an ended one, and newer than the last of its stream.
Heard(q) ==
  /\ active => q.stream = current.stream
  /\ q.stream \notin ToSet(retired)
  /\ q.stream = current.stream => q.sequence > current.sequence

GeneratorStop(q) ==
  /\ q.kind = "stop" /\ Heard(q) /\ q.stream = current.stream
  /\ retired' = Retire /\ active' = FALSE
  /\ UNCHANGED <<sourceVars, revision, me, current, sequence, window, netVars>>

\* A renewal keeps the clock and the sequence of the stream, a new stream restarts both.
GeneratorSubscribe(q) ==
  /\ q.kind = "subscribe" /\ Heard(q)
  /\ q.stream = current.stream => q.revision >= current.revision
  /\ IF ~active /\ q.stream # current.stream
     THEN retired' = Retire /\ sequence' = 0 /\ window' = 0
     ELSE UNCHANGED <<retired, sequence, window>>
  /\ current' = q /\ active' = TRUE
  /\ UNCHANGED <<sourceVars, revision, me, netVars>>

LeaseExpires ==
  /\ active /\ active' = FALSE
  /\ UNCHANGED <<sourceVars, revision, me, current, retired, sequence, window, netVars>>

Datagram(n, samples) ==
  [stream |-> current.stream, producer |-> me, sequence |-> n,
   revision |-> current.revision, azimuth |-> AzimuthAt[current.sequence], samples |-> samples]

\* A batch: the samples of a window that is not over, in datagrams of PacketCapacity; one
\* empty datagram when there is none.  Overdue windows are skipped.
Batch(w, count) ==
  LET sent == IF count = 0 THEN 1 ELSE (count + PacketCapacity - 1) \div PacketCapacity
      part(k) == [i \in 1..(IF k < sent THEN PacketCapacity
                            ELSE count - PacketCapacity * (sent - 1)) |->
                    [window |-> w, place |-> PacketCapacity * (k - 1) + i]]
      all == {Datagram(sequence + k - 1, part(k)) : k \in 1..sent}
  IN /\ active /\ w \in (window + 1)..MaxWindows
     /\ Cardinality(data) + sent <= MaxData
     /\ data' = data \cup all
     /\ sequence' = sequence + sent /\ window' = w
     /\ UNCHANGED <<sourceVars, revision, me, current, active, retired, requests>>

\* Another process: nothing is left of the old one but what is in the network.
RestartGenerator ==
  /\ me < MaxProducers
  /\ me' = me + 1 /\ current' = NoRequest /\ active' = FALSE /\ retired' = <<>>
  /\ sequence' = 0 /\ window' = 0
  /\ UNCHANGED <<sourceVars, revision, netVars>>

Next ==
  \/ Start \/ StopSource \/ SetPulseBandConfigs
  \/ Subscribe \/ FlushAged \/ Release
  \/ \E p \in data : Receive(p)
  \/ \E q \in requests : GeneratorStop(q) \/ GeneratorSubscribe(q)
  \/ LeaseExpires \/ RestartGenerator
  \/ \E w \in 1..MaxWindows, count \in 0..(2 * PacketCapacity) : Batch(w, count)

Spec == Init /\ [][Next]_vars

-----------------------------------------------------------------------------
(* Properties.                                                               *)

Blocks == IF block = NoBlock THEN received ELSE Append(received, block)
Delivered == FlattenSeq([i \in DOMAIN Blocks |-> Blocks[i].samples])
Total(field(_)) == FoldLeft(LAMBDA sum, b : sum + field(b), 0, Blocks)

\* Whatever the network repeats, delays or reorders, the samples of a stream reach the
\* pipeline in the order of their index and once each, although two generators, two
\* leases or two subscriptions may have produced them (receiveLoop, SequenceTracker, run).
SamplesInOrder ==
  \A i \in 1..(Len(Delivered) - 1) : Earlier(Delivered[i], Delivered[i + 1])

\* Every sequence number below the tracker's next is a packet in a block, a packet dropped
\* for want of a block, or missing; and the blocks handed over report the missing ones
\* once each, but for those not yet reported (SequenceTracker::accept, flush).
PacketsAccounted ==
  /\ tracker.next = Total(LAMBDA b : b.packets) + dropped + tracker.missing
  /\ Total(LAMBDA b : b.lost) = reported

\* A sequence number of a stream and a generator names one datagram: a stream that has
\* ended is not served again from 0, however late its subscriptions arrive (run, retire).
OneDatagramPerNumber ==
  \A p, q \in data :
    p.stream = q.stream /\ p.producer = q.producer /\ p.sequence = q.sequence => p = q
=============================================================================
