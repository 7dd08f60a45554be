------------------------------- MODULE MCEdges -------------------------------
(* Instances for TLC of the parts at the edge of the program: the files it      *)
(* writes (WaterfallStorage, DiagnosticLog, ResultTable) and the devices it     *)
(* reads (UdpStream with its generator, SampleGenerator).  None of them calls    *)
(* another, so one run checks them all: the initial state picks the part that    *)
(* runs.  Meanwhile the storage, the log and the results rest in their initial   *)
(* states, and the variables of the other parts are Off.                         *)
EXTENDS WaterfallStorage, DiagnosticLog, ResultTable

CONSTANTS Off, NoBlock

VARIABLES
  part,
  receiving, stream, control, subscribed, revision, producer, tracker, reported, block, held,
  received, dropped, me, current, serving, retired, sequence, window, requests, data,   \* udp
  configured, generating, target, first, next, batchIndex, pulses, scene, now, expected, made,
  blocks   \* generator

udpVars == <<receiving, stream, control, subscribed, revision, producer, tracker, reported,
             block, held, received, dropped, me, current, serving, retired, sequence, window,
             requests, data>>
generatorVars == <<configured, generating, target, first, next, batchIndex, pulses, scene, now,
                   expected, made, blocks>>

UdpOff ==
  /\ receiving = Off /\ stream = Off /\ control = Off /\ subscribed = Off /\ revision = Off
  /\ producer = Off /\ tracker = Off /\ reported = Off /\ block = Off /\ held = Off
  /\ received = Off /\ dropped = Off /\ me = Off /\ current = Off /\ serving = Off
  /\ retired = Off /\ sequence = Off /\ window = Off /\ requests = Off /\ data = Off
GeneratorOff ==
  /\ configured = Off /\ generating = Off /\ target = Off /\ first = Off /\ next = Off
  /\ batchIndex = Off /\ pulses = Off /\ scene = Off /\ now = Off /\ expected = Off
  /\ made = Off /\ blocks = Off

-----------------------------------------------------------------------------
\* The clock is set back between the recordings: the second one begins earlier.
ClockSetBack == <<3, 1>>

\* Everything, and the newest row of a range given in either order.
AllAndNewest == {[from |-> 0, to |-> 9, maxRows |-> 0], [from |-> 3, to |-> 1, maxRows |-> 1]}

\* A scan with two bands, one of them seen twice, and a later one of the first band.
Seen(band, sample, time, quality) ==
  [band |-> band, sample |-> sample, time |-> time, quality |-> quality,
   frequencies |-> {band}]

TwoScans ==
  {[results |-> {Seen(1, 1, 1, 0), Seen(1, 2, 2, 50), Seen(2, 1, 1, 50)},
    parameters |-> [b \in 1..2 |-> [pri |-> 2, width |-> b]]],
   [results |-> {Seen(1, 3, 3, 0)},
    parameters |-> [b \in 1..2 |-> [pri |-> 0, width |-> 1]]]}

\* The antenna moves after the first request.
OnceMoved == <<0, 1, 1>>

Udp == INSTANCE UdpStream WITH
  PoolSize <- 1, BlockCapacity <- 2, PacketCapacity <- 1, RetiredCap <- 4, MaxStreams <- 2,
  MaxControls <- 2, MaxRevisions <- 2, AzimuthAt <- OnceMoved, MaxWindows <- 2,
  MaxProducers <- 2, MaxData <- 3, running <- receiving, active <- serving

\* No settings; pulses of two bands that do not fit the slots; one band alone; bands off,
\* without settings, and with invalid ones.
Pulse(k, p, w) == [kind |-> k, period |-> p, width |-> w]
SomePulses == { <<>>,
                <<Pulse("pulse", 7, 3), Pulse("pulse", 10, 4)>>,
                <<Pulse("pulse", 9, 2), Pulse("off", 5, 1)>>,
                <<Pulse("none", 5, 1), Pulse("pulse", 11, 3)>>,
                <<Pulse("off", 5, 1), Pulse("invalid", 5, 5)>> }
\* A source that both beams see and one that drifts out of the bands
SomeScenes == { <<[drift |-> <<1>>, beams |-> {0, 1}], [drift |-> <<2, 0, 1>>, beams |-> {1}]>>,
                <<[drift |-> <<2>>, beams |-> {0}], [drift |-> <<1, 2>>, beams |-> {}]>> }
BurstEveryThird == [factor |-> 2, calm |-> 2, length |-> 1]

Generator == INSTANCE SampleGenerator WITH
  BandCount <- 2, PulseSets <- SomePulses, Scenes <- SomeScenes, Targets <- BOOLEAN,
  BaseCount <- 6, Burst <- BurstEveryThird, samplePeriod <- 2, batchPeriod <- 1, MaxLag <- 10,
  Firsts <- {0, 3}, Durations <- {0, 13}, MaxBatches <- 3, MaxTime <- 1, running <- generating

ASSUME /\ Store!StoreAssumption
       /\ Udp!UdpAssumption /\ Generator!GeneratorAssumption

-----------------------------------------------------------------------------
EdgesInit ==
  /\ Init /\ LogInit /\ TableInit
  /\ \/ part \in {"storage", "log", "results"} /\ UdpOff /\ GeneratorOff
     \/ part = "udp" /\ Udp!Init /\ GeneratorOff
     \/ part = "generator" /\ Generator!Init /\ UdpOff

EdgesNext ==
  /\ UNCHANGED part
  /\ \/ part = "storage" /\ Next /\ UNCHANGED <<logVars, tableVars, udpVars, generatorVars>>
     \/ part = "log" /\ LogNext /\ UNCHANGED <<vars, tableVars, udpVars, generatorVars>>
     \/ part = "results" /\ TableNext /\ UNCHANGED <<vars, logVars, udpVars, generatorVars>>
     \/ part = "udp" /\ Udp!Next /\ UNCHANGED <<vars, logVars, tableVars, generatorVars>>
     \/ part = "generator" /\ Generator!Next /\ UNCHANGED <<vars, logVars, tableVars, udpVars>>

EdgesSpec ==
  EdgesInit /\ [][EdgesNext]_<<part, vars, logVars, tableVars, udpVars, generatorVars>>

\* The storage alone
StorageSpec == part = "storage" /\ EdgesSpec

-----------------------------------------------------------------------------
\* UdpBcoStreamSource and the generator: over a network that loses, repeats and delays,
\* samples arrive in order and once, packets are accounted for, and a sequence number
\* names one datagram.
StreamSound ==
  part = "udp" => Udp!TypeOK /\ Udp!SamplesInOrder /\ Udp!PacketsAccounted
                    /\ Udp!OneDatagramPerNumber

\* HighLoadSimulatorBcoStreamSource and the signal generator: batches hold the samples of
\* what transmits, follow each other without gap and keep the rate.
BatchesSound ==
  part = "generator" => Generator!TypeOK /\ Generator!SamplesFollowPulses
                          /\ Generator!BatchesKeepPace
=============================================================================
