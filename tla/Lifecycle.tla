------------------------------ MODULE Lifecycle ------------------------------
(***************************************************************************)
(* The life of a gateway process (main/gateway/main.go with Start and Stop *)
(* of the two servers): the servers are started one after the other; a     *)
(* signal starts a goroutine that stops the C-end server, then the IoT     *)
(* server, then closes Kafka, while main waits for it for 30 s at most.    *)
(* Stop of a server cancels its context and waits for its goroutines, which*)
(* end one by one, each at a moment of its own.                            *)
(*                                                                         *)
(* Time is not modelled: a goroutine that ends by itself is taken to do so *)
(* within the 30 s, so that the limit bites only when the rest of the stop *)
(* waits for something that may not come.  Redis answers during the stop.  *)
(* A connection of the C-end server that is set up too late to be closed   *)
(* is the subject of CendServer.                                           *)
(***************************************************************************)
EXTENDS Naturals

CONSTANTS
  Charger,    \* piles that connect
  PoolWorker  \* goroutines of the IoT server that handle packets

ASSUME LifecycleAssumption == Charger \cap {"idle", "ended"} = {}

VARIABLES
  proc,       \* "start", "up", "stopping" or "gone"
  mode,       \* "redis", or "local" when Redis did not answer at start
  kafka,      \* "none" when it did not answer at start, "up" or "closed"
  registry,   \* entries of this process in the hash of gateways
  stopper,    \* where the stopping goroutine is
  cancelled,  \* servers whose context is cancelled
  cendLoops,  \* goroutines Stop of the C-end server waits for
  iotLoops,   \* goroutines Stop of the IoT server waits for, the pool apart
  pool,       \* pool[w]: "idle", "ended" or the pile whose packet w handles
  devices,    \* the device table of the IoT server
  queued,     \* AsyncRedis: piles to be registered and touched
  spawned,    \* piles whose asynchronous work a goroutine is at
  sweep,      \* piles Stop is still to mark offline
  onlineMarks,\* piles with an online mark in their shadow
  wroteClosed \* history: was something written to a closed Kafka writer?

lifeVars == <<proc, mode, kafka, registry, stopper, cancelled, cendLoops, iotLoops, pool,
              devices, queued, spawned, sweep, onlineMarks, wroteClosed>>

mainVars == <<proc, mode, kafka, registry, stopper, cancelled>>
iotVars == <<iotLoops, pool, devices, queued, spawned, sweep, onlineMarks>>

Server == {"cend", "iot"}
Stage == {"none", "cend.Stop", "cend.Wait", "iot.Stop", "iot.sweep", "iot.Wait",
          "mq.Close", "done"}

\* The subscriptions return at once without Redis.
Subscription(name) == IF mode = "redis" THEN {name} ELSE {}

\* redis.Init and mq.Init: each falls back rather than fail.
RedisInit == mode \in {"redis", "local"}
KafkaInit == kafka \in {"none", "up"}

LifeInit ==
  /\ proc = "start" /\ stopper = "none"
  /\ RedisInit /\ KafkaInit
  /\ registry = {} /\ cancelled = {} /\ cendLoops = {} /\ iotLoops = {}
  /\ pool = [w \in PoolWorker |-> "ended"]
  /\ devices = {} /\ queued = {} /\ spawned = {} /\ sweep = {} /\ onlineMarks = {}
  /\ wroteClosed = FALSE

-----------------------------------------------------------------------------
(* Start *)

\* RegisterGateway: a Redis that does not answer costs the entry only.
Register(server) ==
  registry' \in {registry \cup {server}} \cup (IF mode = "redis" THEN {registry} ELSE {})

\* Start of the C-end server.
StartCend ==
  /\ proc = "start" /\ cendLoops = {}
  /\ Register("cend")
  /\ cendLoops' = {"http", "checker", "shutdown"} \cup Subscription("events")
  /\ UNCHANGED <<proc, mode, kafka, stopper, cancelled, iotVars, wroteClosed>>

StartIot ==
  /\ proc = "start" /\ cendLoops # {}
  /\ proc' = "up"
  /\ Register("iot")
  /\ iotLoops' = {"read", "cleanup", "async"} \cup Subscription("trigger")
  /\ pool' = [w \in PoolWorker |-> "idle"]
  /\ UNCHANGED <<mode, kafka, stopper, cancelled, cendLoops, devices, queued, spawned, sweep,
                 onlineMarks, wroteClosed>>

\* The port is taken: Fatal ends the process.
StartIotFails ==
  /\ proc = "start" /\ cendLoops # {}
  /\ proc' = "gone"
  /\ UNCHANGED <<mode, kafka, registry, stopper, cancelled, cendLoops, iotVars, wroteClosed>>

-----------------------------------------------------------------------------
(* What the servers do meanwhile *)

Alive == proc \in {"up", "stopping"}

\* A connection is upgraded; its loops are waited for.
ConnOpens ==
  /\ Alive /\ "http" \in cendLoops
  /\ cendLoops' = cendLoops \cup {"conn"}
  /\ UNCHANGED <<mainVars, iotVars, wroteClosed>>

ConnCloses ==
  /\ Alive /\ "conn" \in cendLoops
  /\ cendLoops' = cendLoops \ {"conn"}
  /\ UNCHANGED <<mainVars, iotVars, wroteClosed>>

\* PublishCendMessage, PublishIoTEvent: without Kafka the message is dropped.
ToKafka == wroteClosed' = (wroteClosed \/ kafka = "closed")

\* forwardToBusinessSystem.
ForwardToBusiness ==
  /\ Alive /\ "conn" \in cendLoops
  /\ ToKafka
  /\ UNCHANGED <<mainVars, cendLoops, iotVars>>

\* Mutant: the channel is closed with the context, and hands out nothing.
TakeNothing(w, d) ==
  /\ Alive /\ pool[w] = "idle"
  /\ pool' = [pool EXCEPT ![w] = IF "iot" \in cancelled THEN "nil" ELSE d]
  /\ UNCHANGED <<mainVars, cendLoops, iotLoops, devices, queued, spawned, sweep, onlineMarks,
                 wroteClosed>>

\* A worker takes a packet, of those the read loop had queued if it has ended.
\* With the context cancelled it may still do so: select picks either case.
TakePacket(w, d) ==
  /\ Alive /\ pool[w] = "idle"
  /\ pool' = [pool EXCEPT ![w] = d]
  /\ UNCHANGED <<mainVars, cendLoops, iotLoops, devices, queued, spawned, sweep, onlineMarks,
                 wroteClosed>>

\* handleConnect: the rest is left to AsyncRedis.
WorkConnect(w) ==
  /\ Alive /\ pool[w] \in Charger
  /\ devices' = devices \cup {pool[w]}
  /\ queued' = queued \cup {pool[w]}
  /\ pool' = [pool EXCEPT ![w] = "idle"]
  /\ UNCHANGED <<mainVars, cendLoops, iotLoops, spawned, sweep, onlineMarks, wroteClosed>>

\* handlePublish: a heartbeat of the shadow, and the event to Kafka.
WorkPublish(w) ==
  /\ Alive /\ pool[w] \in devices
  /\ onlineMarks' = onlineMarks \cup {pool[w]}
  /\ ToKafka
  /\ pool' = [pool EXCEPT ![w] = "idle"]
  /\ UNCHANGED <<mainVars, cendLoops, iotLoops, devices, queued, spawned, sweep>>

WorkerEnds(w) ==
  /\ Alive /\ pool[w] = "idle" /\ "iot" \in cancelled
  /\ pool' = [pool EXCEPT ![w] = "ended"]
  /\ UNCHANGED <<mainVars, cendLoops, iotLoops, devices, queued, spawned, sweep, onlineMarks,
                 wroteClosed>>

\* A pile connects by DTLS or QUIC: a read loop of its own, until the listener
\* is closed.
LinkOpens(name) ==
  /\ Alive /\ stopper \notin {"iot.Wait", "mq.Close", "done"}
  /\ "iot" \in cancelled => name = "dtls"
  /\ "read" \in iotLoops
  /\ iotLoops' = iotLoops \cup {name}
  /\ UNCHANGED <<mainVars, cendLoops, pool, devices, queued, spawned, sweep, onlineMarks,
                 wroteClosed>>

\* The pile leaves, or the cancelled context ends a QUIC connection: the pile
\* that had connected by it goes offline (dropDeviceByConn).
LinkEnds(name) ==
  /\ Alive /\ name \in iotLoops \cap {"dtls", "quic"}
  /\ iotLoops' = iotLoops \ {name}
  /\ \E gone \in {{}} \cup {{d} : d \in devices} :
       devices' = devices \ gone /\ onlineMarks' = onlineMarks \ gone
  /\ UNCHANGED <<mainVars, cendLoops, pool, queued, spawned, sweep, wroteClosed>>

\* The consumer of AsyncRedis starts a goroutine that nobody waits for.
AsyncTakes(d) ==
  /\ Alive /\ "async" \in iotLoops /\ d \in queued
  /\ queued' = queued \ {d} /\ spawned' = spawned \cup {d}
  /\ UNCHANGED <<mainVars, cendLoops, iotLoops, pool, devices, sweep, onlineMarks, wroteClosed>>

AsyncTouches(d) ==
  /\ Alive /\ d \in spawned
  /\ spawned' = spawned \ {d}
  /\ onlineMarks' = onlineMarks \cup {d}
  /\ UNCHANGED <<mainVars, cendLoops, iotLoops, pool, devices, queued, sweep, wroteClosed>>

-----------------------------------------------------------------------------
(* Stop *)

\* The signal: main starts the stopping goroutine and waits.
Signal ==
  /\ proc = "up"
  /\ proc' = "stopping" /\ stopper' = "cend.Stop"
  /\ UNCHANGED <<mode, kafka, registry, cancelled, cendLoops, iotVars, wroteClosed>>

CendStop ==
  /\ stopper = "cend.Stop" /\ Alive
  /\ cancelled' = cancelled \cup {"cend"}
  /\ stopper' = "cend.Wait"
  /\ UNCHANGED <<proc, mode, kafka, registry, cendLoops, iotVars, wroteClosed>>

\* waitForShutdown: the HTTP server is shut down, then the connections are
\* closed, whose loops end at a moment of their own, and the gateway leaves the
\* registry.
CendShutdown ==
  /\ Alive /\ "cend" \in cancelled /\ "shutdown" \in cendLoops
  /\ \/ /\ "http" \in cendLoops
        /\ cendLoops' = cendLoops \ {"http"} /\ UNCHANGED registry
     \/ /\ "http" \notin cendLoops
        /\ cendLoops' = cendLoops \ {"shutdown"} /\ registry' = registry \ {"cend"}
  /\ UNCHANGED <<proc, mode, kafka, stopper, cancelled, iotVars, wroteClosed>>

\* heartbeatChecker.
CheckerEnds ==
  /\ Alive /\ "cend" \in cancelled /\ "checker" \in cendLoops
  /\ cendLoops' = cendLoops \ {"checker"}
  /\ UNCHANGED <<mainVars, iotVars, wroteClosed>>

\* Mutant: the shutdown goroutine is not counted.
CendWaitedUncounted ==
  /\ stopper = "cend.Wait" /\ Alive /\ cendLoops \subseteq {"shutdown", "http", "conn"}
  /\ stopper' = "iot.Stop"
  /\ UNCHANGED <<proc, mode, kafka, registry, cancelled, cendLoops, iotVars, wroteClosed>>

CendWaited ==
  /\ stopper = "cend.Wait" /\ Alive /\ cendLoops = {}
  /\ stopper' = "iot.Stop"
  /\ UNCHANGED <<proc, mode, kafka, registry, cancelled, cendLoops, iotVars, wroteClosed>>

\* Stop of the IoT server: GetAllDeviceIDs, after the cancellation.
IotStop ==
  /\ stopper = "iot.Stop" /\ Alive
  /\ cancelled' = cancelled \cup {"iot"}
  /\ sweep' = devices
  /\ stopper' = "iot.sweep"
  /\ UNCHANGED <<proc, mode, kafka, registry, cendLoops, iotLoops, pool, devices, queued,
                 spawned, onlineMarks, wroteClosed>>

SweepOne(d) ==
  /\ stopper = "iot.sweep" /\ Alive /\ d \in sweep
  /\ sweep' = sweep \ {d}
  /\ onlineMarks' = onlineMarks \ {d}
  /\ UNCHANGED <<mainVars, cendLoops, iotLoops, pool, devices, queued, spawned, wroteClosed>>

\* The sockets are closed and the gateway leaves the registry.
IotClose ==
  /\ stopper = "iot.sweep" /\ Alive /\ sweep = {}
  /\ registry' = registry \ {"iot"}
  /\ stopper' = "iot.Wait"
  /\ UNCHANGED <<proc, mode, kafka, cancelled, cendLoops, iotVars, wroteClosed>>

\* sessionCleanup, ipLimiterCleanup and the consumer end with the context, the
\* read loop when its socket is closed.  Nothing ends cmdTriggerLoop.
IotLoopEnds(name) ==
  /\ Alive /\ "iot" \in cancelled /\ name \in iotLoops \cap {"read", "cleanup", "async"}
  /\ name = "read" => stopper = "iot.Wait"
  /\ iotLoops' = iotLoops \ {name}
  /\ UNCHANGED <<mainVars, cendLoops, pool, devices, queued, spawned, sweep, onlineMarks,
                 wroteClosed>>

PoolEnded == \A w \in PoolWorker : pool[w] = "ended"

\* Mutant: the workers are not counted.
IotWaitedUncounted ==
  /\ stopper = "iot.Wait" /\ Alive /\ iotLoops = {}
  /\ stopper' = "mq.Close"
  /\ UNCHANGED <<proc, mode, kafka, registry, cancelled, cendLoops, iotVars, wroteClosed>>

IotWaited ==
  /\ stopper = "iot.Wait" /\ Alive /\ iotLoops = {} /\ PoolEnded
  /\ stopper' = "mq.Close"
  /\ UNCHANGED <<proc, mode, kafka, registry, cancelled, cendLoops, iotVars, wroteClosed>>

MqClose ==
  /\ stopper = "mq.Close" /\ Alive
  /\ kafka' = IF kafka = "up" THEN "closed" ELSE kafka
  /\ stopper' = "done"
  /\ UNCHANGED <<proc, mode, registry, cancelled, cendLoops, iotVars, wroteClosed>>

\* What is waited for are subscriptions, and DTLS connections that closing the
\* listener does not close.
Stuck ==
  \/ stopper = "cend.Wait" /\ cendLoops = {"events"}
  \/ stopper = "iot.Wait" /\ iotLoops \in SUBSET {"trigger", "dtls"} \ {{}} /\ PoolEnded

\* Mutant: main waits for the stopping goroutine without a limit.
ExitWhenDone ==
  /\ proc = "stopping" /\ stopper = "done"
  /\ proc' = "gone"
  /\ UNCHANGED <<mode, kafka, registry, stopper, cancelled, cendLoops, iotVars, wroteClosed>>

\* main returns when all is done, or after 30 s.
Exit ==
  /\ proc = "stopping" /\ (stopper = "done" \/ Stuck)
  /\ proc' = "gone"
  /\ UNCHANGED <<mode, kafka, registry, stopper, cancelled, cendLoops, iotVars, wroteClosed>>

-----------------------------------------------------------------------------
\* The steps of the stop, and the ends of the goroutines it waits for.
StopStep ==
  \/ CendStop \/ CendShutdown \/ CheckerEnds \/ CendWaited
  \/ IotStop \/ (\E d \in Charger : SweepOne(d)) \/ IotClose \/ IotWaited \/ MqClose \/ Exit
  \/ \E name \in iotLoops : IotLoopEnds(name)

LifeNext ==
  \/ StartCend \/ StartIot \/ StartIotFails \/ Signal \/ StopStep
  \/ ConnOpens \/ ConnCloses \/ ForwardToBusiness
  \/ \E w \in PoolWorker : \/ WorkConnect(w) \/ WorkPublish(w) \/ WorkerEnds(w)
                           \/ \E d \in Charger : TakePacket(w, d)
  \/ \E d \in Charger : AsyncTakes(d) \/ AsyncTouches(d)
  \/ \E name \in {"dtls", "quic"} : LinkOpens(name) \/ LinkEnds(name)

LifeSpec == LifeInit /\ [][LifeNext]_lifeVars

\* The goroutines run.  Close ends the loops of a connection, and no new one
\* comes once the HTTP server is down.  A worker whose select finds a packet
\* and the cancelled context comes to pick the latter, as select picks at
\* random: strong fairness, as it may be handling a packet in between.
LifeFairness ==
  /\ WF_lifeVars(StopStep)
  /\ WF_lifeVars("http" \notin cendLoops /\ ConnCloses)
  /\ WF_lifeVars("iot" \in cancelled /\ LinkEnds("quic"))
  /\ \A w \in PoolWorker : /\ WF_lifeVars(WorkConnect(w) \/ WorkPublish(w))
                           /\ SF_lifeVars(WorkerEnds(w))

-----------------------------------------------------------------------------
(* Properties *)

\* Type invariant.
LifeTypeOK ==
  /\ proc \in {"start", "up", "stopping", "gone"}
  /\ mode \in {"redis", "local"} /\ kafka \in {"none", "up", "closed"}
  /\ registry \subseteq Server /\ cancelled \subseteq Server
  /\ stopper \in Stage
  /\ cendLoops \subseteq {"http", "checker", "shutdown", "events", "conn"}
  /\ iotLoops \subseteq {"read", "cleanup", "async", "trigger", "dtls", "quic"}
  /\ pool \in [PoolWorker -> Charger \cup {"idle", "ended"}]
  /\ devices \subseteq Charger /\ queued \subseteq Charger /\ spawned \subseteq Charger
  /\ sweep \subseteq Charger /\ onlineMarks \subseteq Charger
  /\ wroteClosed \in BOOLEAN

\* Kafka is closed last: by then no connection of the C-end server and no
\* worker of the IoT server is left to publish, whatever packets were queued
\* when the signal came.
KafkaClosedLast == ~wroteClosed

\* A process that was told to stop is gone at last, though with Redis a
\* goroutine Stop waits for never ends.
SignalEnds == proc = "stopping" ~> proc = "gone"

\* The C-end gateway is no longer registered when a stopped process is gone:
\* whatever cuts the stop short, it does not do so before waitForShutdown is
\* through.
CendLeavesRegistry == proc = "gone" /\ stopper # "none" => "cend" \notin registry

\* When a stopped process is gone, no pile of it is left with an online mark.
\* The code does not guarantee this: with Redis the wait for the C-end server
\* never ends, so the piles are never marked offline.
DownMeansOffline ==
  proc = "gone" /\ mode = "redis" => onlineMarks \cap devices = {}
=============================================================================
