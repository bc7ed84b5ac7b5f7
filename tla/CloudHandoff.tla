---------------------------- MODULE CloudHandoff ----------------------------
(***************************************************************************)
(* The ROS node HesaiLidarClient: the decoding thread hands every finished *)
(* cloud to lidarCallback, which checks its timestamp and leaves it in the *)
(* one-slot LatestValueMailbox; the publisher thread waits on the mailbox  *)
(* and publishes; the main thread constructs the node, spins and destroys  *)
(* it.                                                                     *)
(*                                                                         *)
(* push, the predicate of wait_pop and stop run under the mailbox's mutex, *)
(* so each is one step.  The counters of the decoding thread change after  *)
(* push has returned, in a step of their own.                              *)
(***************************************************************************)
EXTENDS TimestampGuard

CONSTANTS
  PublishTypes,  \* values of the parameter publish_type
  MaxClouds,     \* bound: clouds the decoder completes
  MaxTime        \* bound: timestamps of clouds

ASSUME HandoffAssumption ==
  /\ PublishTypes \subseteq {"both", "points", "raw"}
  /\ MaxClouds \in Nat
  /\ MaxTime \in Nat

Times == 0 .. MaxTime

(* Clouds are numbered in the order the decoder completes them. *)
Clouds == [number : 1 .. MaxClouds, stamp : Times]
NoCloud == [number |-> 0, stamp |-> 0]

VARIABLES
  publishType,  \* m_sPublishType
  node,         \* how far the main thread is in the life of the node
  decoder,      \* where ProcessLiarPacket is, lidarCallback included
  publisher,    \* where publishPointClouds is
  cloudGuard,   \* cloudTimestampGuard
  output,       \* the converted cloud of the callback under way
  pushResult,   \* what the last push returned
  pending,      \* pending_ of the mailbox
  stopped,      \* stopped_ of the mailbox
  taken,        \* the cloud wait_pop returned last
  cloudTimestampRegressions, cloudsEnqueued, cloudQueueOverwrites,
  rawScansPublished, cloudsPublished, cloudPublishFailures,
  emitted,      \* history: clouds handed to lidarCallback
  newest,       \* history: the last cloud left in the mailbox
  discarded,    \* history: clouds dropped by stop()
  highest       \* history: the largest timestamp published

mailboxVars == <<pending, stopped, newest>>
callbackVars == <<cloudGuard, output, pushResult, emitted,
                  cloudTimestampRegressions, cloudsEnqueued,
                  cloudQueueOverwrites, rawScansPublished>>
publishVars == <<taken, cloudsPublished, cloudPublishFailures, highest>>
vars == <<publishType, node, decoder, publisher, mailboxVars, callbackVars,
          publishVars, discarded>>

WantsPoints == publishType \in {"both", "points"}
WantsRaw == publishType \in {"both", "raw"}

Ones(P) == IF P THEN 1 ELSE 0

-----------------------------------------------------------------------------
(* The decoding thread: EmitBackMessege calls lidarCallback. *)

(* After the cloud is dealt with the raw scan is published, if wanted. *)
AfterCloud == IF WantsRaw THEN "raw" ELSE "decoding"

CallbackRejects(stamp) ==
  /\ WantsPoints
  /\ ~GuardAccepts(cloudGuard, stamp)
  /\ cloudTimestampRegressions' = cloudTimestampRegressions + 1
  /\ decoder' = AfterCloud
  /\ UNCHANGED <<cloudGuard, output>>

CallbackConverts(stamp) ==
  /\ WantsPoints
  /\ GuardAccepts(cloudGuard, stamp)
  /\ cloudGuard' = GuardNext(cloudGuard, stamp)
  /\ output' = [number |-> emitted + 1, stamp |-> stamp]
  /\ decoder' = "pushing"
  /\ UNCHANGED cloudTimestampRegressions

CallbackSkipsPoints ==
  /\ ~WantsPoints
  /\ decoder' = AfterCloud
  /\ UNCHANGED <<cloudGuard, output, cloudTimestampRegressions>>

LidarCallback ==
  /\ decoder = "decoding"
  /\ emitted < MaxClouds
  /\ emitted' = emitted + 1
  /\ \/ \E stamp \in Times : CallbackRejects(stamp) \/ CallbackConverts(stamp)
     \/ CallbackSkipsPoints
  /\ UNCHANGED <<publishType, node, publisher, mailboxVars, publishVars,
                 discarded, pushResult, cloudsEnqueued, cloudQueueOverwrites,
                 rawScansPublished>>

(* notify_one and notify_all: the publisher is the only thread that waits. *)
Notify == publisher' = IF publisher = "waiting" THEN "checking" ELSE publisher

push_NoNotify ==
  /\ decoder = "pushing"
  /\ pushResult' = IF stopped THEN "stopped"
                   ELSE IF pending # NoCloud THEN "replaced" ELSE "stored"
  /\ pending' = IF stopped THEN pending ELSE output
  /\ newest' = IF stopped THEN newest ELSE output
  /\ UNCHANGED publisher
  /\ decoder' = "counting"
  /\ UNCHANGED <<publishType, node, stopped, publishVars, discarded, cloudGuard,
                 output, emitted, cloudTimestampRegressions, cloudsEnqueued,
                 cloudQueueOverwrites, rawScansPublished>>

push_KeepsOldest ==
  /\ decoder = "pushing"
  /\ pushResult' = IF stopped THEN "stopped"
                   ELSE IF pending # NoCloud THEN "replaced" ELSE "stored"
  /\ pending' = IF stopped \/ pending # NoCloud THEN pending ELSE output
  /\ newest' = IF stopped THEN newest ELSE output
  /\ IF stopped THEN UNCHANGED publisher ELSE Notify
  /\ decoder' = "counting"
  /\ UNCHANGED <<publishType, node, stopped, publishVars, discarded, cloudGuard,
                 output, emitted, cloudTimestampRegressions, cloudsEnqueued,
                 cloudQueueOverwrites, rawScansPublished>>

push ==
  /\ decoder = "pushing"
  /\ pushResult' = IF stopped THEN "stopped"
                   ELSE IF pending # NoCloud THEN "replaced" ELSE "stored"
  /\ pending' = IF stopped THEN pending ELSE output
  /\ newest' = IF stopped THEN newest ELSE output
  /\ IF stopped THEN UNCHANGED publisher ELSE Notify
  /\ decoder' = "counting"
  /\ UNCHANGED <<publishType, node, stopped, publishVars, discarded, cloudGuard,
                 output, emitted, cloudTimestampRegressions, cloudsEnqueued,
                 cloudQueueOverwrites, rawScansPublished>>

CountPush ==
  /\ decoder = "counting"
  /\ cloudsEnqueued' = cloudsEnqueued + Ones(pushResult # "stopped")
  /\ cloudQueueOverwrites' = cloudQueueOverwrites + Ones(pushResult = "replaced")
  /\ decoder' = AfterCloud
  /\ UNCHANGED <<publishType, node, publisher, mailboxVars, publishVars,
                 discarded, cloudGuard, output, pushResult, emitted,
                 cloudTimestampRegressions, rawScansPublished>>

RawPublish ==
  /\ decoder = "raw"
  /\ rawScansPublished' = rawScansPublished + 1
  /\ decoder' = "decoding"
  /\ UNCHANGED <<publishType, node, publisher, mailboxVars, publishVars,
                 discarded, cloudGuard, output, pushResult, emitted,
                 cloudTimestampRegressions, cloudsEnqueued,
                 cloudQueueOverwrites>>

(* The loop ends when Stop has cleared its flag ... *)
DecoderStops ==
  /\ decoder = "decoding"
  /\ node = "deletingSdk"
  /\ decoder' = "exited"
  /\ UNCHANGED <<publishType, node, publisher, mailboxVars, callbackVars,
                 publishVars, discarded>>

(* ... or at a transform that is not available. *)
DecoderReturns ==
  /\ decoder = "decoding"
  /\ decoder' = "exited"
  /\ UNCHANGED <<publishType, node, publisher, mailboxVars, callbackVars,
                 publishVars, discarded>>

-----------------------------------------------------------------------------
(* The publisher thread: publishPointClouds and wait_pop. *)

WaitBlocks ==
  /\ publisher = "checking"
  /\ ~stopped
  /\ pending = NoCloud
  /\ publisher' = "waiting"
  /\ UNCHANGED <<publishType, node, decoder, mailboxVars, callbackVars,
                 publishVars, discarded>>

SpuriousWakeup ==
  /\ publisher = "waiting"
  /\ publisher' = "checking"
  /\ UNCHANGED <<publishType, node, decoder, mailboxVars, callbackVars,
                 publishVars, discarded>>

WaitPops ==
  /\ publisher = "checking"
  /\ pending # NoCloud
  /\ taken' = pending
  /\ pending' = NoCloud
  /\ publisher' = "publishing"
  /\ UNCHANGED <<publishType, node, decoder, stopped, newest, callbackVars,
                 discarded, cloudsPublished, cloudPublishFailures, highest>>

WaitFails ==
  /\ publisher = "checking"
  /\ stopped
  /\ pending = NoCloud
  /\ publisher' = "exited"
  /\ UNCHANGED <<publishType, node, decoder, mailboxVars, callbackVars,
                 publishVars, discarded>>

PublishSucceeds ==
  /\ publisher = "publishing"
  /\ cloudsPublished' = cloudsPublished + 1
  /\ highest' = IF taken.stamp > highest THEN taken.stamp ELSE highest
  /\ publisher' = "checking"
  /\ UNCHANGED <<publishType, node, decoder, mailboxVars, callbackVars,
                 discarded, taken, cloudPublishFailures>>

(* The exception is counted and the loop goes on. *)
PublishThrows_NotCounted ==
  /\ publisher = "publishing"
  /\ publisher' = "checking"
  /\ UNCHANGED <<publishType, node, decoder, mailboxVars, callbackVars,
                 discarded, taken, cloudsPublished, highest,
                 cloudPublishFailures>>

PublishThrows ==
  /\ publisher = "publishing"
  /\ cloudPublishFailures' = cloudPublishFailures + 1
  /\ publisher' = "checking"
  /\ UNCHANGED <<publishType, node, decoder, mailboxVars, callbackVars,
                 discarded, taken, cloudsPublished, highest>>

-----------------------------------------------------------------------------
(* The main thread: constructor, spin and destructor. *)

(* initialize_sdk calls Start, which creates the decoding thread first. *)
SdkStarts ==
  /\ node = "constructing"
  /\ node' = "starting"
  /\ decoder' = "decoding"
  /\ UNCHANGED <<publishType, publisher, mailboxVars, callbackVars,
                 publishVars, discarded>>

Constructed ==
  /\ node = "starting"
  /\ node' = "spinning"
  /\ UNCHANGED <<publishType, decoder, publisher, mailboxVars, callbackVars,
                 publishVars, discarded>>

(* An exception in initialize_sdk, before or after the decoder was         *)
(* created; a signal or a message on /node_control ends spin.  Either way  *)
(* the same calls follow, and delete hsdk clears the decoder's flag.       *)
Teardown ==
  /\ node \in {"constructing", "starting", "spinning"}
  /\ node' = "deletingSdk"
  /\ UNCHANGED <<publishType, decoder, publisher, mailboxVars, callbackVars,
                 publishVars, discarded>>

SdkDeleted_NoJoin ==
  /\ node = "deletingSdk"
  /\ node' = "stoppingMailbox"
  /\ UNCHANGED <<publishType, decoder, publisher, mailboxVars, callbackVars,
                 publishVars, discarded>>

(* ~PandarGeneralSDK has joined the decoding thread.  The calibration      *)
(* thread it joins as well never touches the node: module Calibration.     *)
SdkDeleted ==
  /\ node = "deletingSdk"
  /\ decoder \in {"none", "exited"}
  /\ node' = "stoppingMailbox"
  /\ UNCHANGED <<publishType, decoder, publisher, mailboxVars, callbackVars,
                 publishVars, discarded>>

stop_NoNotify ==
  /\ node = "stoppingMailbox"
  /\ stopped' = TRUE
  /\ pending' = NoCloud
  /\ discarded' = discarded + Ones(pending # NoCloud)
  /\ node' = "joining"
  /\ UNCHANGED <<publishType, decoder, publisher, newest, callbackVars,
                 publishVars>>

stop ==
  /\ node = "stoppingMailbox"
  /\ stopped' = TRUE
  /\ pending' = NoCloud
  /\ discarded' = discarded + Ones(pending # NoCloud)
  /\ Notify
  /\ node' = "joining"
  /\ UNCHANGED <<publishType, decoder, newest, callbackVars, publishVars>>

PublisherJoined ==
  /\ node = "joining"
  /\ publisher = "exited"
  /\ node' = "gone"
  /\ UNCHANGED <<publishType, decoder, publisher, mailboxVars, callbackVars,
                 publishVars, discarded>>

Gone ==
  /\ node = "gone"
  /\ UNCHANGED vars

-----------------------------------------------------------------------------
Init ==
  /\ publishType \in PublishTypes
  /\ node = "constructing"
  /\ decoder = "none"
  /\ publisher = "checking"
  /\ cloudGuard = NewGuard
  /\ output = NoCloud
  /\ pushResult = "none"
  /\ pending = NoCloud
  /\ stopped = FALSE
  /\ taken = NoCloud
  /\ cloudTimestampRegressions = 0
  /\ cloudsEnqueued = 0
  /\ cloudQueueOverwrites = 0
  /\ rawScansPublished = 0
  /\ cloudsPublished = 0
  /\ cloudPublishFailures = 0
  /\ emitted = 0
  /\ newest = NoCloud
  /\ discarded = 0
  /\ highest = 0

Decoder == LidarCallback \/ push \/ CountPush \/ RawPublish
           \/ DecoderStops \/ DecoderReturns

Publisher == WaitBlocks \/ SpuriousWakeup \/ WaitPops \/ WaitFails
             \/ PublishSucceeds \/ PublishThrows

Main == SdkStarts \/ Constructed \/ Teardown \/ SdkDeleted \/ stop
        \/ PublisherJoined \/ Gone

Next == Decoder \/ Publisher \/ Main

Spec == Init /\ [][Next]_vars

(* A thread that can run does run, a publish call returns, and so does the *)
(* join of the calibration thread (Calibration!AnsweringSpec).  Nobody     *)
(* obliges the decoder to complete clouds, the condition variable to wake  *)
(* without cause or the node to be shut down.                              *)
FairSpec ==
  /\ Spec
  /\ WF_vars(push \/ CountPush \/ RawPublish)
  /\ WF_vars(DecoderStops)
  /\ WF_vars(WaitBlocks \/ WaitPops \/ WaitFails)
  /\ WF_vars(PublishSucceeds \/ PublishThrows)
  /\ WF_vars(SdkDeleted \/ stop \/ PublisherJoined)

-----------------------------------------------------------------------------
InCallback == {"pushing", "counting", "raw"}
NodeStates == {"constructing", "starting", "spinning", "deletingSdk",
               "stoppingMailbox", "joining", "gone"}

(* Every variable stays in its range; no counter exceeds the number of     *)
(* clouds completed.                                                       *)
TypeOK ==
  /\ publishType \in PublishTypes
  /\ node \in NodeStates
  /\ decoder \in {"none", "decoding", "exited"} \cup InCallback
  /\ publisher \in {"checking", "waiting", "publishing", "exited"}
  /\ cloudGuard \in [initialized : BOOLEAN, last : Times]
  /\ output \in Clouds \cup {NoCloud}
  /\ pushResult \in {"none", "stored", "replaced", "stopped"}
  /\ pending \in Clouds \cup {NoCloud}
  /\ stopped \in BOOLEAN
  /\ taken \in Clouds \cup {NoCloud}
  /\ newest \in Clouds \cup {NoCloud}
  /\ emitted \in 0 .. MaxClouds
  /\ cloudTimestampRegressions \in 0 .. emitted
  /\ cloudsEnqueued \in 0 .. emitted
  /\ cloudQueueOverwrites \in 0 .. emitted
  /\ rawScansPublished \in 0 .. emitted
  /\ cloudsPublished \in 0 .. emitted
  /\ cloudPublishFailures \in 0 .. emitted
  /\ discarded \in 0 .. 1
  /\ highest \in Times

(* The diagnostics the destructor logs add up, at every moment: a cloud is *)
(* rejected, enqueued or on its way to the mailbox, and an enqueued one is *)
(* published, failed, overwritten, pending or thrown away at shutdown.     *)
(* Raw scans are published for rejected clouds as well.                    *)
CloudsAccounted ==
  /\ WantsPoints =>
       emitted = cloudTimestampRegressions + cloudsEnqueued
                   + Ones(decoder \in {"pushing", "counting"})
  /\ WantsRaw => emitted = rawScansPublished + Ones(decoder \in InCallback)
  /\ cloudsEnqueued + Ones(decoder = "counting")
       = cloudsPublished + cloudPublishFailures + Ones(publisher = "publishing")
         + cloudQueueOverwrites
         + Ones(decoder = "counting" /\ pushResult = "replaced")
         + Ones(pending # NoCloud) + discarded

(* The publisher never sleeps over a cloud or over the request to stop,    *)
(* and never leaves its loop before that request.                          *)
NoLostWakeup ==
  /\ publisher = "waiting" => pending = NoCloud /\ ~stopped
  /\ publisher = "exited" => stopped

(* The destructor outlives the callback: while lidarCallback runs, the     *)
(* mailbox is open and neither it nor the publisher is being torn down.    *)
CallbackInsideLifetime ==
  decoder \in InCallback =>
    /\ ~stopped
    /\ node \notin {"constructing", "stoppingMailbox", "joining", "gone"}
    /\ pushResult # "stopped"

(* No cloud is handed to DDS whose timestamp lies more than the tolerance  *)
(* before one already published (README.md, "published cloud timestamps    *)
(* may jitter backward by up to 0.1 seconds"), overwritten clouds and      *)
(* failed publishes in between included.                                   *)
PublishedNearMonotone ==
  publisher = "publishing" => taken.stamp >= highest - Tolerance

(* The mailbox between the two threads delivers the newest cloud, each at  *)
(* most once: "stale work cannot accumulate".                              *)
Latest == INSTANCE LatestValue WITH
            Values <- Clouds, NoValue <- NoCloud,
            newest <- newest, delivered <- taken

RefinesLatestValue == Latest!Spec

(* Destruction never hangs on the decoder or the publisher: neither thread *)
(* waits for ever, whatever it is doing when the destructor starts.        *)
TeardownCompletes == (node = "deletingSdk") ~> (node = "gone")
=============================================================================
