------------------------- MODULE CloudHandoffProofs -------------------------
(***************************************************************************)
(* Proofs about CloudHandoff, for any number of clouds and any tolerance.  *)
(*                                                                         *)
(* HandoffInv is the inductive invariant.  Lifetime ties the state of the  *)
(* mailbox and of the decoder to the progress of the main thread.          *)
(* Numbering says which of the clouds in the hands of the decoder, the     *)
(* mailbox and the publisher is newer.  Stamping says that each of them    *)
(* was within the tolerance of everything the guard had seen, which covers *)
(* whatever the publisher has published or will publish before it.         *)
(***************************************************************************)
EXTENDS CloudHandoff, TLAPS

MaybeCloud == Clouds \cup {NoCloud}

Shape ==
  /\ publishType \in PublishTypes
  /\ node \in NodeStates
  /\ decoder \in {"none", "decoding", "exited"} \cup InCallback
  /\ publisher \in {"checking", "waiting", "publishing", "exited"}
  /\ cloudGuard \in [initialized : BOOLEAN, last : Times]
  /\ output \in MaybeCloud
  /\ pushResult \in {"none", "stored", "replaced"}
  /\ pending \in MaybeCloud
  /\ stopped \in BOOLEAN
  /\ taken \in MaybeCloud
  /\ newest \in MaybeCloud
  /\ highest \in Times

Counting ==
  /\ emitted \in 0 .. MaxClouds
  /\ cloudTimestampRegressions \in Nat
  /\ cloudsEnqueued \in Nat
  /\ cloudQueueOverwrites \in Nat
  /\ rawScansPublished \in Nat
  /\ cloudsPublished \in Nat
  /\ cloudPublishFailures \in Nat
  /\ discarded \in 0 .. 1

Unwanted ==
  /\ ~WantsPoints => /\ cloudTimestampRegressions = 0
                     /\ cloudsEnqueued = 0
                     /\ decoder \notin {"pushing", "counting"}
  /\ ~WantsRaw => rawScansPublished = 0 /\ decoder # "raw"

Lifetime ==
  /\ node = "constructing" => decoder = "none"
  /\ decoder \in InCallback \cup {"decoding"}
       => node \in {"starting", "spinning", "deletingSdk"}
  /\ stopped => node \in {"joining", "gone"}
  /\ node \in {"joining", "gone"} => stopped
  /\ stopped => pending = NoCloud
  /\ ~stopped => discarded = 0

Numbering ==
  /\ newest.number <= emitted
  /\ taken.number <= newest.number
  /\ pending # NoCloud => pending = newest /\ taken.number < pending.number
  /\ decoder = "pushing" => output.number = emitted /\ newest.number < emitted

Near(cloud, stamp) == cloud.stamp >= stamp - Tolerance

Stamping ==
  /\ ~cloudGuard.initialized => cloudGuard.last = 0
  /\ highest <= cloudGuard.last
  /\ taken.stamp <= cloudGuard.last
  /\ pending.stamp <= cloudGuard.last
  /\ output.stamp <= cloudGuard.last
  /\ publisher = "publishing" => Near(taken, highest)
  /\ pending # NoCloud => Near(pending, highest) /\ Near(pending, taken.stamp)
  /\ decoder = "pushing" => /\ Near(output, highest)
                            /\ Near(output, taken.stamp)
                            /\ Near(output, pending.stamp)

HandoffInv ==
  /\ Shape
  /\ Counting
  /\ Unwanted
  /\ CloudsAccounted
  /\ NoLostWakeup
  /\ Lifetime
  /\ Numbering
  /\ Stamping

-----------------------------------------------------------------------------
(* The fields of a cloud or of the lack of one. *)
LEMMA CloudFields ==
  ASSUME NEW c \in MaybeCloud
  PROVE  c.number \in 0 .. MaxClouds /\ c.stamp \in Times
BY HandoffAssumption DEF MaybeCloud, Clouds, NoCloud, Times

(* A cloud that has a number is a cloud. *)
LEMMA NumberedCloud ==
  ASSUME NEW c \in MaybeCloud, c.number > 0
  PROVE  c \in Clouds /\ c # NoCloud
BY HandoffAssumption DEF MaybeCloud, Clouds, NoCloud

(* What the guard knows after accepting a stamp, and what it accepted. *)
LEMMA GuardStep ==
  ASSUME NEW g \in [initialized : BOOLEAN, last : Times], NEW t \in Times,
         GuardAccepts(g, t), ~g.initialized => g.last = 0
  PROVE  /\ GuardNext(g, t) \in [initialized : BOOLEAN, last : Times]
         /\ GuardNext(g, t).initialized
         /\ GuardNext(g, t).last >= g.last
         /\ GuardNext(g, t).last >= t
         /\ t >= g.last - Tolerance
<1> USE GuardAssumption, HandoffAssumption
<1>1. CASE GuardStatus(g, t) = "first"
  <2>1. GuardNext(g, t) = [initialized |-> TRUE, last |-> t]
    BY <1>1 DEF GuardNext
  <2>2. ~g.initialized
    BY <1>1 DEF GuardStatus, Times
  <2> QED BY <2>1, <2>2 DEF Times
<1>2. CASE GuardStatus(g, t) = "accepted"
  <2>1. GuardNext(g, t) = [g EXCEPT !.last = Advance(g.last, t)]
    BY <1>2 DEF GuardNext
  <2>2. g.initialized /\ ~TooOld(g.last, t)
    BY <1>2 DEF GuardStatus
  <2>3. Advance(g.last, t) \in Times /\ Advance(g.last, t) >= g.last
        /\ Advance(g.last, t) >= t
    BY DEF Advance, Times
  <2>4. t >= g.last - Tolerance
    BY <2>2 DEF TooOld, Times
  <2> QED BY <2>1, <2>2, <2>3, <2>4
<1> QED BY <1>1, <1>2 DEF GuardAccepts

-----------------------------------------------------------------------------
(* The counters and the clouds of a state of the invariant are numbers. *)
LEMMA Numbers ==
  ASSUME HandoffInv
  PROVE  /\ emitted \in Nat /\ emitted <= MaxClouds
         /\ highest \in Nat /\ cloudGuard.last \in Nat
         /\ \A c \in {output, pending, taken, newest} :
              c.number \in Nat /\ c.number <= MaxClouds /\ c.stamp \in Nat
<1>1. output \in MaybeCloud /\ pending \in MaybeCloud /\ taken \in MaybeCloud
      /\ newest \in MaybeCloud /\ highest \in Times
      /\ cloudGuard \in [initialized : BOOLEAN, last : Times]
  BY DEF HandoffInv, Shape
<1>2. emitted \in 0 .. MaxClouds
  BY DEF HandoffInv, Counting
<1>3. ASSUME NEW c \in {output, pending, taken, newest}
      PROVE  c.number \in 0 .. MaxClouds /\ c.stamp \in Times
  BY <1>1, CloudFields
<1> QED BY <1>1, <1>2, <1>3, HandoffAssumption DEF Times

(* The callback starts: the cloud is rejected, converted or not wanted. *)
LEMMA CallbackStep == HandoffInv /\ LidarCallback => HandoffInv'
<1> SUFFICES ASSUME HandoffInv, LidarCallback PROVE HandoffInv'
  OBVIOUS
<1> USE DEF mailboxVars, publishVars
<1>1. /\ decoder = "decoding" /\ emitted' = emitted + 1 /\ emitted < MaxClouds
      /\ UNCHANGED <<publishType, node, publisher, pending, stopped, newest,
                     taken, cloudsPublished, cloudPublishFailures, highest,
                     discarded, pushResult, cloudsEnqueued,
                     cloudQueueOverwrites, rawScansPublished>>
  BY DEF LidarCallback
<1>2. /\ emitted \in Nat /\ emitted <= MaxClouds
      /\ MaxClouds \in Nat
      /\ cloudTimestampRegressions \in Nat /\ cloudsEnqueued \in Nat
      /\ rawScansPublished \in Nat
  BY Numbers, HandoffAssumption DEF HandoffInv, Counting
<1>3. CASE \E stamp \in Times : CallbackRejects(stamp)
  <2> PICK stamp \in Times : CallbackRejects(stamp)
    BY <1>3
  <2>1. /\ WantsPoints
        /\ cloudTimestampRegressions' = cloudTimestampRegressions + 1
        /\ decoder' = (IF WantsRaw THEN "raw" ELSE "decoding")
        /\ UNCHANGED <<cloudGuard, output>>
    BY DEF CallbackRejects, AfterCloud
  <2>2. Shape'
    BY <1>1, <2>1 DEF HandoffInv, Shape, InCallback
  <2>3. Counting'
    BY <1>1, <1>2, <2>1 DEF HandoffInv, Counting
  <2>4. Unwanted' /\ Lifetime'
    BY <1>1, <2>1 DEF HandoffInv, Unwanted, Lifetime, WantsPoints, WantsRaw, InCallback
  <2>5. CloudsAccounted'
    BY <1>1, <1>2, <2>1 DEF HandoffInv, CloudsAccounted, Ones, WantsPoints, WantsRaw,
         InCallback
  <2>6. NoLostWakeup' /\ Stamping'
    BY <1>1, <2>1 DEF HandoffInv, NoLostWakeup, Stamping, Near
  <2>7. Numbering'
    BY <1>1, <1>2, <2>1, Numbers DEF HandoffInv, Numbering
  <2> QED BY <2>2, <2>3, <2>4, <2>5, <2>6, <2>7 DEF HandoffInv
<1>4. CASE \E stamp \in Times : CallbackConverts(stamp)
  <2> PICK stamp \in Times : CallbackConverts(stamp)
    BY <1>4
  <2>1. /\ WantsPoints
        /\ GuardAccepts(cloudGuard, stamp)
        /\ cloudGuard' = GuardNext(cloudGuard, stamp)
        /\ output' = [number |-> emitted + 1, stamp |-> stamp]
        /\ decoder' = "pushing"
        /\ UNCHANGED cloudTimestampRegressions
    BY DEF CallbackConverts
  <2>2. output' \in MaybeCloud
    BY <1>1, <1>2, <2>1 DEF MaybeCloud, Clouds
  <2>3. /\ cloudGuard' \in [initialized : BOOLEAN, last : Times]
        /\ cloudGuard'.initialized
        /\ cloudGuard'.last >= cloudGuard.last
        /\ cloudGuard'.last >= stamp
        /\ stamp >= cloudGuard.last - Tolerance
    BY <2>1, GuardStep DEF HandoffInv, Shape, Stamping
  <2>4. Shape'
    BY <1>1, <2>1, <2>2, <2>3 DEF HandoffInv, Shape, InCallback
  <2>5. Counting'
    BY <1>1, <1>2, <2>1 DEF HandoffInv, Counting
  <2>6. Unwanted' /\ Lifetime'
    BY <1>1, <2>1 DEF HandoffInv, Unwanted, Lifetime, WantsPoints, WantsRaw, InCallback
  <2>7. CloudsAccounted'
    BY <1>1, <1>2, <2>1 DEF HandoffInv, CloudsAccounted, Ones, WantsPoints, WantsRaw,
         InCallback
  <2>8. NoLostWakeup'
    BY <1>1, <2>1 DEF HandoffInv, NoLostWakeup
  <2>9. Numbering'
    BY <1>1, <1>2, <2>1, Numbers DEF HandoffInv, Numbering
  <2>10. Stamping'
    <3>1. cloudGuard'.last \in Nat /\ stamp \in Nat /\ output'.stamp = stamp
      BY <2>1, <2>3 DEF Times
    <3>2. Tolerance \in Nat
      BY GuardAssumption
    <3> QED
      BY <1>1, <2>1, <2>3, <3>1, <3>2, Numbers DEF HandoffInv, Stamping, Near
  <2> QED BY <2>4, <2>5, <2>6, <2>7, <2>8, <2>9, <2>10 DEF HandoffInv
<1>5. CASE CallbackSkipsPoints
  <2>1. /\ ~WantsPoints
        /\ decoder' = (IF WantsRaw THEN "raw" ELSE "decoding")
        /\ UNCHANGED <<cloudGuard, output, cloudTimestampRegressions>>
    BY <1>5 DEF CallbackSkipsPoints, AfterCloud
  <2>2. Shape'
    BY <1>1, <2>1 DEF HandoffInv, Shape, InCallback
  <2>3. Counting'
    BY <1>1, <1>2, <2>1 DEF HandoffInv, Counting
  <2>4. Unwanted' /\ Lifetime'
    BY <1>1, <2>1 DEF HandoffInv, Unwanted, Lifetime, WantsPoints, WantsRaw, InCallback
  <2>5. CloudsAccounted'
    BY <1>1, <1>2, <2>1 DEF HandoffInv, CloudsAccounted, Ones, WantsPoints, WantsRaw,
         InCallback
  <2>6. NoLostWakeup' /\ Stamping'
    BY <1>1, <2>1 DEF HandoffInv, NoLostWakeup, Stamping, Near
  <2>7. Numbering'
    BY <1>1, <1>2, <2>1, Numbers DEF HandoffInv, Numbering
  <2> QED BY <2>2, <2>3, <2>4, <2>5, <2>6, <2>7 DEF HandoffInv
<1> QED BY <1>3, <1>4, <1>5 DEF LidarCallback

(* The callback leaves its cloud in the mailbox. *)
LEMMA PushStep == HandoffInv /\ push => HandoffInv'
<1> SUFFICES ASSUME HandoffInv, push PROVE HandoffInv'
  OBVIOUS
<1>1. ~stopped
  BY DEF push, HandoffInv, Lifetime, InCallback
<1>2. /\ decoder = "pushing" /\ decoder' = "counting"
      /\ pushResult' = (IF pending # NoCloud THEN "replaced" ELSE "stored")
      /\ pending' = output /\ newest' = output
      /\ publisher' = (IF publisher = "waiting" THEN "checking" ELSE publisher)
      /\ UNCHANGED <<publishType, node, stopped, taken, cloudsPublished,
                     cloudPublishFailures, highest, discarded, cloudGuard,
                     output, emitted, cloudTimestampRegressions, cloudsEnqueued,
                     cloudQueueOverwrites, rawScansPublished>>
  BY <1>1 DEF push, Notify, publishVars
<1>3. output \in MaybeCloud /\ output.number = emitted /\ newest.number < emitted
      /\ taken.number <= newest.number
  BY <1>2 DEF HandoffInv, Shape, Numbering
<1>4. output # NoCloud
  BY <1>3, Numbers, NumberedCloud
<1>5. Shape'
  BY <1>2, <1>3 DEF HandoffInv, Shape, InCallback
<1>6. Counting'
  BY <1>2 DEF HandoffInv, Counting
<1>7. Unwanted' /\ Lifetime'
  BY <1>1, <1>2 DEF HandoffInv, Unwanted, Lifetime, WantsPoints, WantsRaw, InCallback
<1>8. CloudsAccounted'
  BY <1>2, <1>4 DEF HandoffInv, Counting, CloudsAccounted, Ones, WantsPoints,
       WantsRaw, InCallback
<1>9. NoLostWakeup'
  BY <1>1, <1>2 DEF HandoffInv, NoLostWakeup
<1>10. Numbering'
  BY <1>2, <1>3, Numbers DEF Numbering
<1>11. Stamping'
  BY <1>2, GuardAssumption, Numbers DEF HandoffInv, Stamping, Near
<1> QED BY <1>5, <1>6, <1>7, <1>8, <1>9, <1>10, <1>11 DEF HandoffInv

(* The rest of the decoding thread: counters, raw scans, the end of the loop. *)
LEMMA DecoderStep == HandoffInv /\ Decoder => HandoffInv'
<1> SUFFICES ASSUME HandoffInv, Decoder PROVE HandoffInv'
  OBVIOUS
<1> USE DEF mailboxVars, publishVars, callbackVars
<1>1. CASE LidarCallback
  BY <1>1, CallbackStep
<1>2. CASE push
  BY <1>2, PushStep
<1>3. CASE CountPush
  <2>1. /\ decoder = "counting"
        /\ decoder' = (IF WantsRaw THEN "raw" ELSE "decoding")
        /\ cloudsEnqueued' = cloudsEnqueued + 1
        /\ cloudQueueOverwrites' =
             cloudQueueOverwrites + (IF pushResult = "replaced" THEN 1 ELSE 0)
        /\ UNCHANGED <<publishType, node, publisher, pending, stopped, newest,
                       taken, cloudsPublished, cloudPublishFailures, highest,
                       discarded, cloudGuard, output, pushResult, emitted,
                       cloudTimestampRegressions, rawScansPublished>>
    BY <1>3 DEF CountPush, AfterCloud, Ones, HandoffInv, Shape
  <2>2. Shape'
    BY <2>1 DEF HandoffInv, Shape, InCallback
  <2>3. Counting'
    BY <2>1 DEF HandoffInv, Counting
  <2>4. Unwanted' /\ Lifetime'
    BY <2>1 DEF HandoffInv, Unwanted, Lifetime, WantsPoints, WantsRaw, InCallback
  <2>5. CloudsAccounted'
    BY <2>1 DEF HandoffInv, Counting, CloudsAccounted, Ones, WantsPoints, WantsRaw,
         InCallback
  <2>6. NoLostWakeup' /\ Stamping' /\ Numbering'
    BY <2>1 DEF HandoffInv, NoLostWakeup, Stamping, Near, Numbering
  <2> QED BY <2>2, <2>3, <2>4, <2>5, <2>6 DEF HandoffInv
<1>4. CASE RawPublish
  <2>1. /\ decoder = "raw" /\ decoder' = "decoding"
        /\ rawScansPublished' = rawScansPublished + 1
        /\ UNCHANGED <<publishType, node, publisher, pending, stopped, newest,
                       taken, cloudsPublished, cloudPublishFailures, highest,
                       discarded, cloudGuard, output, pushResult, emitted,
                       cloudTimestampRegressions, cloudsEnqueued,
                       cloudQueueOverwrites>>
    BY <1>4 DEF RawPublish
  <2>2. Shape'
    BY <2>1 DEF HandoffInv, Shape, InCallback
  <2>3. Counting'
    BY <2>1 DEF HandoffInv, Counting
  <2>4. Unwanted' /\ Lifetime'
    BY <2>1 DEF HandoffInv, Unwanted, Lifetime, WantsPoints, WantsRaw, InCallback
  <2>5. CloudsAccounted'
    BY <2>1 DEF HandoffInv, Counting, CloudsAccounted, Ones, WantsPoints, WantsRaw,
         InCallback
  <2>6. NoLostWakeup' /\ Stamping' /\ Numbering'
    BY <2>1 DEF HandoffInv, NoLostWakeup, Stamping, Near, Numbering
  <2> QED BY <2>2, <2>3, <2>4, <2>5, <2>6 DEF HandoffInv
<1>5. CASE DecoderStops \/ DecoderReturns
  <2>1. /\ decoder = "decoding" /\ decoder' = "exited"
        /\ UNCHANGED <<publishType, node, publisher, mailboxVars, callbackVars,
                       publishVars, discarded>>
    BY <1>5 DEF DecoderStops, DecoderReturns
  <2>2. Shape' /\ Counting'
    BY <2>1 DEF HandoffInv, Shape, Counting, InCallback
  <2>3. Unwanted' /\ Lifetime'
    BY <2>1 DEF HandoffInv, Unwanted, Lifetime, WantsPoints, WantsRaw, InCallback
  <2>4. CloudsAccounted'
    BY <2>1 DEF HandoffInv, Counting, CloudsAccounted, Ones, WantsPoints, WantsRaw,
         InCallback
  <2>5. NoLostWakeup' /\ Stamping' /\ Numbering'
    BY <2>1 DEF HandoffInv, NoLostWakeup, Stamping, Near, Numbering
  <2> QED BY <2>2, <2>3, <2>4, <2>5 DEF HandoffInv
<1> QED BY <1>1, <1>2, <1>3, <1>4, <1>5 DEF Decoder

(* The publisher thread. *)
LEMMA PublisherStep == HandoffInv /\ Publisher => HandoffInv'
<1> SUFFICES ASSUME HandoffInv, Publisher PROVE HandoffInv'
  OBVIOUS
<1> USE DEF mailboxVars, publishVars, callbackVars
<1>1. CASE WaitBlocks \/ SpuriousWakeup \/ WaitFails
  <2>1. /\ publisher # "publishing"
        /\ publisher' \in {"checking", "waiting", "exited"}
        /\ publisher' = "waiting" => pending = NoCloud /\ ~stopped
        /\ publisher' = "exited" => stopped
        /\ UNCHANGED <<publishType, node, decoder, mailboxVars, callbackVars,
                       publishVars, discarded>>
    BY <1>1 DEF WaitBlocks, SpuriousWakeup, WaitFails
  <2>2. Shape' /\ Counting'
    BY <2>1 DEF HandoffInv, Shape, Counting
  <2>3. Unwanted' /\ Lifetime'
    BY <2>1 DEF HandoffInv, Unwanted, Lifetime, WantsPoints, WantsRaw
  <2>4. CloudsAccounted'
    BY <2>1 DEF HandoffInv, Counting, CloudsAccounted, Ones, WantsPoints, WantsRaw
  <2>5. NoLostWakeup' /\ Stamping' /\ Numbering'
    BY <2>1 DEF HandoffInv, NoLostWakeup, Stamping, Near, Numbering
  <2> QED BY <2>2, <2>3, <2>4, <2>5 DEF HandoffInv
<1>2. CASE WaitPops
  <2>1. /\ publisher = "checking" /\ publisher' = "publishing"
        /\ pending # NoCloud /\ pending' = NoCloud /\ taken' = pending
        /\ UNCHANGED <<publishType, node, decoder, stopped, newest, callbackVars,
                       discarded, cloudsPublished, cloudPublishFailures, highest>>
    BY <1>2 DEF WaitPops
  <2>2. Shape'
    BY <2>1 DEF HandoffInv, Shape, MaybeCloud
  <2>3. Counting'
    BY <2>1 DEF HandoffInv, Counting
  <2>4. Unwanted' /\ Lifetime'
    BY <2>1 DEF HandoffInv, Unwanted, Lifetime, WantsPoints, WantsRaw
  <2>5. CloudsAccounted'
    BY <2>1 DEF HandoffInv, Counting, CloudsAccounted, Ones, WantsPoints, WantsRaw
  <2>6. NoLostWakeup'
    BY <2>1 DEF HandoffInv, NoLostWakeup
  <2>7. Numbering'
    BY <2>1, Numbers DEF HandoffInv, Numbering
  <2>8. Stamping'
    <3>1. pending'.stamp = 0
      BY <2>1 DEF NoCloud
    <3> QED
      BY <2>1, <3>1, GuardAssumption, Numbers DEF HandoffInv, Stamping, Near
  <2> QED BY <2>2, <2>3, <2>4, <2>5, <2>6, <2>7, <2>8 DEF HandoffInv
<1>3. CASE PublishSucceeds
  <2>1. /\ publisher = "publishing" /\ publisher' = "checking"
        /\ cloudsPublished' = cloudsPublished + 1
        /\ highest' = (IF taken.stamp > highest THEN taken.stamp ELSE highest)
        /\ UNCHANGED <<publishType, node, decoder, mailboxVars, callbackVars,
                       discarded, taken, cloudPublishFailures>>
    BY <1>3 DEF PublishSucceeds
  <2>2. Shape'
    BY <2>1, CloudFields DEF HandoffInv, Shape
  <2>3. Counting'
    BY <2>1 DEF HandoffInv, Counting
  <2>4. Unwanted' /\ Lifetime'
    BY <2>1 DEF HandoffInv, Unwanted, Lifetime, WantsPoints, WantsRaw
  <2>5. CloudsAccounted'
    BY <2>1 DEF HandoffInv, Counting, CloudsAccounted, Ones, WantsPoints, WantsRaw
  <2>6. NoLostWakeup' /\ Numbering'
    BY <2>1 DEF HandoffInv, NoLostWakeup, Numbering
  <2>7. Stamping'
    BY <2>1, GuardAssumption, Numbers DEF HandoffInv, Stamping, Near
  <2> QED BY <2>2, <2>3, <2>4, <2>5, <2>6, <2>7 DEF HandoffInv
<1>4. CASE PublishThrows
  <2>1. /\ publisher = "publishing" /\ publisher' = "checking"
        /\ cloudPublishFailures' = cloudPublishFailures + 1
        /\ UNCHANGED <<publishType, node, decoder, mailboxVars, callbackVars,
                       discarded, taken, cloudsPublished, highest>>
    BY <1>4 DEF PublishThrows
  <2>2. Shape'
    BY <2>1 DEF HandoffInv, Shape
  <2>3. Counting'
    BY <2>1 DEF HandoffInv, Counting
  <2>4. Unwanted' /\ Lifetime'
    BY <2>1 DEF HandoffInv, Unwanted, Lifetime, WantsPoints, WantsRaw
  <2>5. CloudsAccounted'
    BY <2>1 DEF HandoffInv, Counting, CloudsAccounted, Ones, WantsPoints, WantsRaw
  <2>6. NoLostWakeup' /\ Stamping' /\ Numbering'
    BY <2>1 DEF HandoffInv, NoLostWakeup, Stamping, Near, Numbering
  <2> QED BY <2>2, <2>3, <2>4, <2>5, <2>6 DEF HandoffInv
<1> QED BY <1>1, <1>2, <1>3, <1>4 DEF Publisher

(* The main thread. *)
LEMMA MainStep == HandoffInv /\ Main => HandoffInv'
<1> SUFFICES ASSUME HandoffInv, Main PROVE HandoffInv'
  OBVIOUS
<1> USE DEF mailboxVars, publishVars, callbackVars
<1>1. CASE SdkStarts
  <2>1. /\ node = "constructing" /\ node' = "starting" /\ decoder' = "decoding"
        /\ UNCHANGED <<publishType, publisher, mailboxVars, callbackVars,
                       publishVars, discarded>>
    BY <1>1 DEF SdkStarts
  <2>2. decoder = "none"
    BY <2>1 DEF HandoffInv, Lifetime
  <2>3. Shape' /\ Counting'
    BY <2>1 DEF HandoffInv, Shape, Counting, NodeStates
  <2>4. Unwanted' /\ Lifetime'
    BY <2>1, <2>2 DEF HandoffInv, Unwanted, Lifetime, WantsPoints, WantsRaw, InCallback
  <2>5. CloudsAccounted'
    BY <2>1, <2>2 DEF HandoffInv, Counting, CloudsAccounted, Ones, WantsPoints,
         WantsRaw, InCallback
  <2>6. NoLostWakeup' /\ Stamping' /\ Numbering'
    BY <2>1, <2>2 DEF HandoffInv, NoLostWakeup, Stamping, Near, Numbering
  <2> QED BY <2>3, <2>4, <2>5, <2>6 DEF HandoffInv
<1>2. CASE Constructed \/ Teardown \/ SdkDeleted \/ PublisherJoined \/ Gone
  <2>1. UNCHANGED <<publishType, decoder, publisher, mailboxVars, callbackVars,
                    publishVars, discarded>>
    BY <1>2 DEF Constructed, Teardown, SdkDeleted, PublisherJoined, Gone, vars
  <2>2. Shape' /\ Counting'
    BY <1>2, <2>1 DEF HandoffInv, Shape, Counting, NodeStates, Constructed, Teardown,
         SdkDeleted, PublisherJoined, Gone, vars
  <2>3. Lifetime'
    BY <1>2, <2>1 DEF HandoffInv, Lifetime, InCallback, Constructed, Teardown,
         SdkDeleted, PublisherJoined, Gone, vars
  <2>4. Unwanted' /\ CloudsAccounted'
    BY <2>1 DEF HandoffInv, Unwanted, CloudsAccounted, Ones, WantsPoints, WantsRaw
  <2>5. NoLostWakeup' /\ Stamping' /\ Numbering'
    BY <2>1 DEF HandoffInv, NoLostWakeup, Stamping, Near, Numbering
  <2> QED BY <2>2, <2>3, <2>4, <2>5 DEF HandoffInv
<1>3. CASE stop
  <2>1. /\ node = "stoppingMailbox" /\ node' = "joining"
        /\ stopped' = TRUE /\ pending' = NoCloud
        /\ discarded' = discarded + (IF pending # NoCloud THEN 1 ELSE 0)
        /\ publisher' = (IF publisher = "waiting" THEN "checking" ELSE publisher)
        /\ UNCHANGED <<publishType, decoder, newest, callbackVars, publishVars>>
    BY <1>3 DEF stop, Notify, Ones
  <2>2. discarded = 0 /\ decoder \notin InCallback \cup {"decoding"}
    BY <2>1 DEF HandoffInv, Lifetime, Shape
  <2>3. Shape' /\ Counting'
    BY <2>1, <2>2 DEF HandoffInv, Shape, Counting, NodeStates, MaybeCloud
  <2>4. Unwanted' /\ Lifetime'
    BY <2>1, <2>2 DEF HandoffInv, Unwanted, Lifetime, WantsPoints, WantsRaw
  <2>5. CloudsAccounted'
    BY <2>1, <2>2 DEF HandoffInv, Counting, CloudsAccounted, Ones, WantsPoints, WantsRaw
  <2>6. NoLostWakeup' /\ Numbering'
    BY <2>1, <2>2 DEF HandoffInv, NoLostWakeup, Numbering, InCallback
  <2>7. Stamping'
    <3>1. pending'.stamp = 0 /\ decoder # "pushing"
      BY <2>1, <2>2 DEF NoCloud, InCallback
    <3> QED
      BY <2>1, <3>1, Numbers DEF HandoffInv, Stamping, Near
  <2> QED BY <2>3, <2>4, <2>5, <2>6, <2>7 DEF HandoffInv
<1> QED BY <1>1, <1>2, <1>3 DEF Main

-----------------------------------------------------------------------------
(* HandoffInv holds throughout: whatever the three threads of the node do, *)
(* and whatever timestamps the clouds carry.                               *)
THEOREM HandoffInvariant == Spec => []HandoffInv
<1>1. Init => HandoffInv
  <2> SUFFICES ASSUME Init PROVE HandoffInv
    OBVIOUS
  <2> USE HandoffAssumption, GuardAssumption DEF Init
  <2>1. Shape /\ Counting
    <3>1. NewGuard \in [initialized : BOOLEAN, last : Times]
      BY DEF NewGuard, Times
    <3>2. stopped \in BOOLEAN
      OBVIOUS
    <3>3. highest \in Times
      BY DEF Times
    <3>4. Counting
      BY DEF Counting
    <3> QED BY <3>1, <3>2, <3>3, <3>4 DEF Shape, NodeStates, MaybeCloud
  <2>2. Unwanted /\ CloudsAccounted /\ NoLostWakeup /\ Lifetime
    BY DEF Unwanted, CloudsAccounted, NoLostWakeup, Lifetime, Ones, InCallback
  <2>3. Numbering /\ Stamping
    BY DEF Numbering, Stamping, Near, NoCloud, NewGuard
  <2> QED BY <2>1, <2>2, <2>3 DEF HandoffInv
<1>2. HandoffInv /\ [Next]_vars => HandoffInv'
  <2>1. ASSUME HandoffInv, UNCHANGED vars PROVE HandoffInv'
    <3> USE <2>1 DEF vars, mailboxVars, publishVars, callbackVars
    <3>1. Shape' /\ Counting'
      BY DEF HandoffInv, Shape, Counting
    <3>2. Unwanted' /\ Lifetime'
      BY DEF HandoffInv, Unwanted, Lifetime, WantsPoints, WantsRaw
    <3>3. CloudsAccounted'
      BY DEF HandoffInv, CloudsAccounted, Ones, WantsPoints, WantsRaw
    <3>4. NoLostWakeup' /\ Stamping' /\ Numbering'
      BY DEF HandoffInv, NoLostWakeup, Stamping, Near, Numbering
    <3> QED BY <3>1, <3>2, <3>3, <3>4 DEF HandoffInv
  <2> QED BY <2>1, DecoderStep, PublisherStep, MainStep DEF Next
<1> QED BY <1>1, <1>2, PTL DEF Spec

(* Every variable of the handoff stays in its range, and no diagnostic     *)
(* counter of the node exceeds the number of clouds completed.             *)
THEOREM HandoffTypeCorrect == Spec => []TypeOK
<1>1. HandoffInv => TypeOK
  <2> SUFFICES ASSUME HandoffInv PROVE TypeOK
    OBVIOUS
  <2>1. /\ emitted \in Nat /\ discarded \in 0 .. 1
        /\ cloudTimestampRegressions \in Nat /\ cloudsEnqueued \in Nat
        /\ cloudQueueOverwrites \in Nat /\ rawScansPublished \in Nat
        /\ cloudsPublished \in Nat /\ cloudPublishFailures \in Nat
    BY HandoffAssumption DEF HandoffInv, Counting
  <2>2. cloudTimestampRegressions + cloudsEnqueued + Ones(decoder = "counting")
          <= emitted
    BY <2>1 DEF HandoffInv, CloudsAccounted, Unwanted, Ones
  <2>3. rawScansPublished <= emitted
    BY <2>1 DEF HandoffInv, CloudsAccounted, Unwanted, Ones
  <2>4. cloudQueueOverwrites + cloudsPublished + cloudPublishFailures
          <= cloudsEnqueued + Ones(decoder = "counting")
    BY <2>1 DEF HandoffInv, CloudsAccounted, Ones
  <2>5. /\ cloudTimestampRegressions \in 0 .. emitted
        /\ cloudsEnqueued \in 0 .. emitted
        /\ cloudQueueOverwrites \in 0 .. emitted
        /\ rawScansPublished \in 0 .. emitted
        /\ cloudsPublished \in 0 .. emitted
        /\ cloudPublishFailures \in 0 .. emitted
    BY <2>1, <2>2, <2>3, <2>4 DEF Ones
  <2>6. emitted \in 0 .. MaxClouds
    BY DEF HandoffInv, Counting
  <2> QED BY <2>1, <2>5, <2>6 DEF HandoffInv, Shape, TypeOK, MaybeCloud
<1> QED BY HandoffInvariant, <1>1, PTL

(* The diagnostics of the node add up at every moment: no cloud is lost    *)
(* without being counted, for any interleaving of callback and publisher.  *)
THEOREM HandoffCloudsAccounted == Spec => []CloudsAccounted
<1>1. HandoffInv => CloudsAccounted
  BY DEF HandoffInv
<1> QED BY HandoffInvariant, <1>1, PTL

(* The publisher never sleeps over a pending cloud or a stopped mailbox. *)
THEOREM HandoffNoLostWakeup == Spec => []NoLostWakeup
<1>1. HandoffInv => NoLostWakeup
  BY DEF HandoffInv
<1> QED BY HandoffInvariant, <1>1, PTL

(* lidarCallback never runs against a mailbox that has been stopped. *)
THEOREM HandoffCallbackInsideLifetime == Spec => []CallbackInsideLifetime
<1>1. HandoffInv => CallbackInsideLifetime
  <2> SUFFICES ASSUME HandoffInv, decoder \in InCallback
               PROVE  /\ ~stopped
                      /\ node \notin {"constructing", "stoppingMailbox", "joining", "gone"}
                      /\ pushResult # "stopped"
    BY DEF CallbackInsideLifetime
  <2>1. node \in {"starting", "spinning", "deletingSdk"}
    BY DEF HandoffInv, Lifetime
  <2>2. ~stopped
    BY <2>1 DEF HandoffInv, Lifetime
  <2>3. pushResult # "stopped"
    BY DEF HandoffInv, Shape
  <2> QED BY <2>1, <2>2, <2>3
<1> QED BY HandoffInvariant, <1>1, PTL

(* No published cloud is more than the tolerance older than one published  *)
(* before it, for every sequence of cloud timestamps.                      *)
THEOREM HandoffPublishedNearMonotone == Spec => []PublishedNearMonotone
<1>1. HandoffInv => PublishedNearMonotone
  BY DEF HandoffInv, Stamping, Near, PublishedNearMonotone
<1> QED BY HandoffInvariant, <1>1, PTL

(* Mailbox, callback, publisher and teardown together implement a channel  *)
(* that delivers only the newest cloud, and none twice.                    *)
THEOREM HandoffRefinesLatestValue == Spec => RefinesLatestValue
<1>1. Init => Latest!Init
  BY DEF Init, Latest!Init
<1>2. HandoffInv /\ [Next]_vars => [Latest!Next]_(Latest!latestVars)
  <2> SUFFICES ASSUME HandoffInv, [Next]_vars
               PROVE  Latest!Next \/ UNCHANGED <<newest, taken>>
    BY DEF Latest!latestVars
  <2> USE DEF mailboxVars, publishVars, callbackVars
  <2>1. CASE push
    <3>1. ~stopped /\ decoder = "pushing"
      BY <2>1 DEF push, HandoffInv, Lifetime, InCallback
    <3>2. newest' = output /\ UNCHANGED taken
      BY <2>1, <3>1 DEF push
    <3>3. output \in MaybeCloud /\ output.number = emitted /\ newest.number < emitted
      BY <3>1 DEF HandoffInv, Shape, Numbering
    <3>4. output \in Clouds /\ output # newest
      BY <3>3, Numbers, NumberedCloud
    <3> QED BY <3>2, <3>4 DEF Latest!Next, Latest!Put
  <2>2. CASE WaitPops
    <3>1. pending # NoCloud /\ taken' = pending /\ UNCHANGED newest
      BY <2>2 DEF WaitPops
    <3>2. pending = newest /\ taken.number < pending.number
      BY <3>1 DEF HandoffInv, Numbering
    <3>3. taken # newest
      BY <3>2, Numbers
    <3> QED BY <3>1, <3>2, <3>3 DEF Latest!Next, Latest!Get
  <2>3. CASE Decoder /\ ~push
    BY <2>3 DEF Decoder, LidarCallback, CountPush, RawPublish, DecoderStops,
         DecoderReturns
  <2>4. CASE Publisher /\ ~WaitPops
    BY <2>4 DEF Publisher, WaitBlocks, SpuriousWakeup, WaitFails, PublishSucceeds,
         PublishThrows
  <2>5. CASE Main
    BY <2>5 DEF Main, SdkStarts, Constructed, Teardown, SdkDeleted, stop,
         PublisherJoined, Gone, vars
  <2>6. CASE UNCHANGED vars
    BY <2>6 DEF vars
  <2> QED BY <2>1, <2>2, <2>3, <2>4, <2>5, <2>6 DEF Next
<1> QED BY HandoffInvariant, <1>1, <1>2, PTL DEF Spec, RefinesLatestValue, Latest!Spec
=============================================================================
