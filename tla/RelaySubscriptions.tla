--------------------------- MODULE RelaySubscriptions ---------------------------
(***************************************************************************)
(* The streams of the relay adapter (BackendRelayAdapter, relay_adapter.ts)*)
(* with its local relay cache (relay_cache.ts), and of the outbox adapter  *)
(* (outbox.ts).  A stream of the relay adapter hears the events in memory  *)
(* at once, then those of the local relay, then the upstream relay; one of *)
(* the outbox hears the upstream relays only.  The two adapters' maps are  *)
(* one here: their keys differ.                                            *)
(*                                                                         *)
(* The relays are external: the local one ends its answer within a timeout *)
(* or fails, the upstream one sends what it likes and may end.             *)
(***************************************************************************)
EXTENDS Naturals, Sequences, SequencesExt

CONSTANTS RelayKeys,   \* keys of the relay adapter: connection, window, subId
          OutboxKeys,  \* and of the outbox adapter
          Streams,     \* subscriptions made, each once
          RelayEvents, \* events
          MaxCacheWrites,   \* bound: cache writes that wait
          NoStream

ASSUME RelayAssumption == NoStream \notin Streams /\ MaxCacheWrites \in Nat

StreamKeys == RelayKeys \cup OutboxKeys

VARIABLES
  relayStreams,   \* #subscriptions: registry[k] is the stream of key k
  stream,     \* stream[s]: key, stage, the events heard, EOSE told, handle closed
  memory,     \* the event store
  localRelay, \* the events the local relay holds
  cacheWrites, \* the writes behind #writeQueue
  health      \* relayCacheHealth$

relayVars == <<relayStreams, stream, memory, localRelay, cacheWrites, health>>

Stages == {"unused", "local", "upstream", "over", "closed"}
Streaming(s) == stream[s].stage \in {"local", "upstream"}

RelayInit ==
  /\ relayStreams = [k \in StreamKeys |-> NoStream]
  /\ stream \in [Streams -> [key : StreamKeys, stage : {"unused"}, heard : {{}},
                             eose : {FALSE}, shut : {FALSE}]]
  /\ memory = {}
  /\ localRelay \in SUBSET RelayEvents
  /\ cacheWrites = <<>> /\ health = "healthy"

\* A stream that ends forgets what it heard.
Ended(s, stage) == [stream[s] EXCEPT !.stage = stage, !.heard = {}, !.eose = FALSE]

\* Mutant: the key is dropped and its stream runs on.
KeyClosedUnheard(k) == stream

\* close: the stream of a key, whichever it is now, is unsubscribed.
KeyClosed(k) == [s \in Streams |-> IF relayStreams[k] = s THEN Ended(s, "closed") ELSE stream[s]]

(***************************************************************************)
(* subscribe closes the stream of its key; memory answers at once.         *)
(***************************************************************************)
SubscribeStream(s) ==
  LET k == stream[s].key
  IN  /\ stream[s].stage = "unused"
      /\ relayStreams' = [relayStreams EXCEPT ![k] = s]
      /\ stream' = [KeyClosed(k) EXCEPT
           ![s].stage = IF k \in RelayKeys THEN "local" ELSE "upstream",
           ![s].heard = IF k \in RelayKeys THEN memory ELSE {}]
  /\ UNCHANGED <<memory, localRelay, cacheWrites, health>>

\* The close of a handle closes the key it was made for.
CloseHandle(s) ==
  /\ stream[s].stage # "unused" /\ ~stream[s].shut
  /\ relayStreams' = [relayStreams EXCEPT ![stream[s].key] = NoStream]
  /\ stream' = [KeyClosed(stream[s].key) EXCEPT ![s].shut = TRUE]
  /\ UNCHANGED <<memory, localRelay, cacheWrites, health>>

\* destroy, of both adapters.
DestroyStreams ==
  /\ relayStreams' = [k \in StreamKeys |-> NoStream]
  /\ stream' = [s \in Streams |-> IF Streaming(s) THEN Ended(s, "closed") ELSE stream[s]]
  /\ UNCHANGED <<memory, localRelay, cacheWrites, health>>

\* The listener of a stream: a key in the map is all it asks for.
Hears(s, e) == IF relayStreams[stream[s].key] # NoStream
               THEN stream' = [stream EXCEPT ![s].heard = @ \cup {e}]
               ELSE UNCHANGED stream

(***************************************************************************)
(* The local relay's part: its EOSE is not passed on, and its failure ends *)
(* this part only.                                                         *)
(***************************************************************************)
LocalEvent(s, e) ==
  /\ stream[s].stage = "local"
  /\ e \in localRelay
  /\ Hears(s, e)
  /\ UNCHANGED <<relayStreams, memory, localRelay, cacheWrites, health>>

LocalEnds(s) ==
  /\ stream[s].stage = "local"
  /\ stream' = [stream EXCEPT ![s].stage = "upstream"]
  /\ UNCHANGED <<relayStreams, memory, localRelay, cacheWrites, health>>

LocalFails(s) ==
  /\ stream[s].stage = "local"
  /\ health' = "degraded"
  /\ stream' = [stream EXCEPT ![s].stage = "upstream"]
  /\ UNCHANGED <<relayStreams, memory, localRelay, cacheWrites>>

\* #enqueue
Enqueued(q, e) == Append(q, e)

(***************************************************************************)
(* The upstream relay's part: an event, new or not, is stored and written  *)
(* to the local relay before the listener looks at it.                     *)
(***************************************************************************)
UpstreamEvent(s, e) ==
  /\ stream[s].stage = "upstream"
  /\ IF stream[s].key \in RelayKeys
     THEN /\ Len(cacheWrites) < MaxCacheWrites
          /\ memory' = memory \cup {e}
          /\ cacheWrites' = Enqueued(cacheWrites, e)
     ELSE UNCHANGED <<memory, cacheWrites>>
  /\ Hears(s, e)
  /\ UNCHANGED <<relayStreams, localRelay, health>>

UpstreamEose(s) ==
  /\ stream[s].stage = "upstream"
  /\ stream[s].key \in RelayKeys
  /\ stream' = IF relayStreams[stream[s].key] # NoStream
               THEN [stream EXCEPT ![s].eose = TRUE] ELSE stream
  /\ UNCHANGED <<relayStreams, memory, localRelay, cacheWrites, health>>

\* The relay ends the stream, or fails; finalize drops the key.
UpstreamEnds(s) ==
  /\ stream[s].stage = "upstream"
  /\ stream' = [stream EXCEPT ![s] = Ended(s, "over")]
  /\ relayStreams' = [relayStreams EXCEPT ![stream[s].key] = NoStream]
  /\ UNCHANGED <<memory, localRelay, cacheWrites, health>>

WriteCached ==
  /\ cacheWrites # <<>>
  /\ localRelay' = localRelay \cup {Head(cacheWrites)}
  /\ cacheWrites' = Tail(cacheWrites)
  /\ UNCHANGED <<relayStreams, stream, memory, health>>

WriteLost ==
  /\ cacheWrites # <<>>
  /\ health' = "degraded"
  /\ cacheWrites' = Tail(cacheWrites)
  /\ UNCHANGED <<relayStreams, stream, memory, localRelay>>

NappletStreams(s) == SubscribeStream(s) \/ CloseHandle(s)
LocalAnswer(s) == LocalEnds(s) \/ LocalFails(s)
UpstreamStep(s) == UpstreamEose(s) \/ UpstreamEnds(s)
CacheStep == WriteCached \/ WriteLost

RelayNext ==
  \/ \E s \in Streams : NappletStreams(s) \/ LocalAnswer(s) \/ UpstreamStep(s)
  \/ \E s \in Streams, e \in RelayEvents : LocalEvent(s, e) \/ UpstreamEvent(s, e)
  \/ CacheStep
  \/ DestroyStreams

\* The local relay's answer has a timeout; it accepts a write or refuses it.
RelayFairness == /\ \A s \in Streams : WF_relayVars(LocalAnswer(s))
                 /\ WF_relayVars(CacheStep)

RelaySpec == RelayInit /\ [][RelayNext]_relayVars /\ RelayFairness

-----------------------------------------------------------------------------
(***************************************************************************)
(* Registry, streams, store and cache have their types.                    *)
(***************************************************************************)
RelayTypeOK ==
  /\ relayStreams \in [StreamKeys -> Streams \cup {NoStream}]
  /\ stream \in [Streams -> [key : StreamKeys, stage : Stages, heard : SUBSET RelayEvents,
                             eose : BOOLEAN, shut : BOOLEAN]]
  /\ memory \subseteq RelayEvents /\ localRelay \subseteq RelayEvents
  /\ cacheWrites \in BoundedSeq(RelayEvents, MaxCacheWrites)
  /\ health \in {"healthy", "degraded"}

(***************************************************************************)
(* The map and the running streams agree, whatever order subscriptions,    *)
(* closes, ends and failures come in: no stream runs that no close reaches,*)
(* and each key has one.                                                   *)
(***************************************************************************)
LiveIsRegistered == \A s \in Streams : Streaming(s) <=> relayStreams[stream[s].key] = s

(***************************************************************************)
(* A napplet that closed a subscription hears nothing more of it, also     *)
(* when it subscribes again under the same name.                           *)
(***************************************************************************)
ClosedHearsNothing ==
  [][\A s \in Streams : stream[s].shut =>
       stream'[s].heard = stream[s].heard /\ stream'[s].eose = stream[s].eose]_relayVars

(***************************************************************************)
(* While the cache calls itself healthy, every event taken from a relay is *)
(* in the local relay or on its way there.                                 *)
(***************************************************************************)
CacheFollowsMemory ==
  health = "healthy" => memory \subseteq localRelay \cup ToSet(cacheWrites)

(***************************************************************************)
(* A local relay that hangs or fails does not keep a subscription from the *)
(* upstream relay.                                                         *)
(***************************************************************************)
UpstreamIsReached ==
  RelayFairness => \A s \in Streams :
    stream[s].stage = "local" ~> stream[s].stage \in {"upstream", "closed"}

(***************************************************************************)
(* Streams hear while they are registered and not after, and what they hear *)
(* is what the cache will tell the next one.                               *)
(***************************************************************************)
StreamsAreLive == [](LiveIsRegistered /\ CacheFollowsMemory) /\ ClosedHearsNothing
=============================================================================
