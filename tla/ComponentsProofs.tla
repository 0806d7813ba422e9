-------------------------- MODULE ComponentsProofs --------------------------
(***************************************************************************)
(* Proofs about Components: every part behaves in the composition as its   *)
(* own specification says, its fairness included, so that whatever is      *)
(* proved of a part alone holds of the composed system, for every value of *)
(* the constants.                                                          *)
(***************************************************************************)
EXTENDS Components, KernelProofs, AdapterProofs, EventProofs, StartProofs

\* A step of the composition is a step of the part it is about, or leaves that
\* part alone.
LEMMA StepOfOnePart ==
    ASSUME [ComponentsNext]_componentVars
    PROVE  /\ [QrNext]_qrVars
           /\ [CacheNext]_cacheVars
           /\ [SendNext]_sendVars
           /\ [IdsNext]_idVars
           /\ [RequestsNext]_requestVars
           /\ [EssenceNext]_essenceVars
           /\ [NoticeNext]_noticeVars
           /\ [EventNext]_eventVars
           /\ [TransportNext]_transportVars
           /\ [ProvisionNext]_provisionVars
           /\ [Next]_lockVars
<1>1. [QrNext]_qrVars
  BY DEF ComponentsNext, OthersStay, componentVars
<1>2. [CacheNext]_cacheVars
  BY DEF ComponentsNext, OthersStay, componentVars
<1>3. [SendNext]_sendVars
  BY DEF ComponentsNext, OthersStay, componentVars
<1>4. [IdsNext]_idVars
  BY DEF ComponentsNext, OthersStay, componentVars
<1>5. [RequestsNext]_requestVars
  BY DEF ComponentsNext, OthersStay, componentVars
<1>6. [EssenceNext]_essenceVars
  BY DEF ComponentsNext, OthersStay, componentVars
<1>7. [NoticeNext]_noticeVars
  BY DEF ComponentsNext, OthersStay, componentVars
<1>8. [EventNext]_eventVars
  BY DEF ComponentsNext, OthersStay, componentVars
<1>9. [TransportNext]_transportVars
  BY DEF ComponentsNext, OthersStay, componentVars
<1>10. [ProvisionNext]_provisionVars
  BY DEF ComponentsNext, OthersStay, componentVars
<1>11. [Next]_lockVars
  BY DEF ComponentsNext, OthersStay, componentVars
<1> QED
  BY <1>1, <1>2, <1>3, <1>4, <1>5, <1>6, <1>7, <1>8, <1>9, <1>10, <1>11

\* The composition implements the specification of every part.
LEMMA PartsBehave ==
    ComponentsSpec =>
        /\ QrSpec
        /\ CacheSpec
        /\ SendSpec
        /\ IdsSpec
        /\ RequestsSpec
        /\ EssenceSpec
        /\ NoticeSpec
        /\ EventSpec
        /\ TransportSpec
        /\ ProvisionSpec
        /\ Spec
<1>1. ComponentsInit =>
        /\ QrInit
        /\ CacheInit
        /\ SendInit
        /\ IdsInit
        /\ RequestsInit
        /\ EssenceInit
        /\ NoticeInit
        /\ EventInit
        /\ TransportInit
        /\ ProvisionInit
        /\ Init
  BY DEF ComponentsInit
<1>2. [ComponentsNext]_componentVars =>
        /\ [QrNext]_qrVars
        /\ [CacheNext]_cacheVars
        /\ [SendNext]_sendVars
        /\ [IdsNext]_idVars
        /\ [RequestsNext]_requestVars
        /\ [EssenceNext]_essenceVars
        /\ [NoticeNext]_noticeVars
        /\ [EventNext]_eventVars
        /\ [TransportNext]_transportVars
        /\ [ProvisionNext]_provisionVars
        /\ [Next]_lockVars
  BY StepOfOnePart
<1>3. ComponentsSpec => QrSpec
  BY <1>1, <1>2, PTL DEF ComponentsSpec, QrSpec
<1>4. ComponentsSpec => CacheSpec
  BY <1>1, <1>2, PTL DEF ComponentsSpec, CacheSpec
<1>5. ComponentsSpec => SendSpec
  BY <1>1, <1>2, PTL DEF ComponentsSpec, SendSpec
<1>6. ComponentsSpec => IdsSpec
  BY <1>1, <1>2, PTL DEF ComponentsSpec, IdsSpec
<1>7. ComponentsSpec => RequestsSpec
  BY <1>1, <1>2, PTL DEF ComponentsSpec, RequestsSpec
<1>8. ComponentsSpec => EssenceSpec
  BY <1>1, <1>2, PTL DEF ComponentsSpec, EssenceSpec
<1>9. ComponentsSpec => NoticeSpec
  BY <1>1, <1>2, PTL DEF ComponentsSpec, NoticeSpec
<1>10. ComponentsSpec => EventSpec
  BY <1>1, <1>2, PTL DEF ComponentsSpec, EventSpec
<1>11. ComponentsSpec => TransportSpec
  BY <1>1, <1>2, PTL DEF ComponentsSpec, TransportSpec
<1>12. ComponentsSpec => ProvisionSpec
  BY <1>1, <1>2, PTL DEF ComponentsSpec, ProvisionSpec
<1>13. ComponentsSpec => Spec
  BY <1>1, <1>2, PTL DEF ComponentsSpec, Spec
<1> QED
  BY <1>3, <1>4, <1>5, <1>6, <1>7, <1>8, <1>9, <1>10, <1>11, <1>12, <1>13, PTL

\* Whatever part of a session is looked at, its state stays consistent, for
\* every value of the constants: one theorem for the invariants that the run of
\* Components checks, but for the two that ask something of the surroundings.
THEOREM SessionIsConsistent ==
    ComponentsSpec =>
        /\ [](HandleIsWaited /\ CacheCurrent /\ IdsOneToOne)
        /\ [](FailedChangedNothing /\ OkMeansDone)
        /\ [](EssenceReportedOnce /\ LedgerIsFriends /\ PinEventsAlternate)
        /\ [](EventsReported /\ StoppedIsQuiet /\ ReconnectsUntilLimit /\ LoadsWhole)
<1>1. ComponentsSpec => [](HandleIsWaited /\ CacheCurrent /\ IdsOneToOne)
  BY PartsBehave, RefreshReachesWaiter, CacheCatchesUp, IdsStayOneToOne, PTL
<1>2. ComponentsSpec => [](FailedChangedNothing /\ OkMeansDone)
  BY PartsBehave, FailureIsClean, SuccessIsTaken, PTL
<1>3. ComponentsSpec => [](EssenceReportedOnce /\ LedgerIsFriends /\ PinEventsAlternate)
  BY PartsBehave, EssenceCountsHold, AnnouncementsAddUp, PinEventsAreTrue, PTL
<1>4. ComponentsSpec =>
        [](EventsReported /\ StoppedIsQuiet /\ ReconnectsUntilLimit /\ LoadsWhole)
  BY PartsBehave, EveryEventOnce, StopLeavesNothing, ClientPersists, LaunchedWhole, PTL
<1> QED
  BY <1>1, <1>2, <1>3, <1>4, PTL

\* Where launches do not overlap and a command line can be read, a process that
\* runs is alone in its data directory, and who is turned away is turned away by
\* a living one.
THEOREM StartIsSafe ==
    ASSUME CalmSurroundings, ProbeSupported
    PROVE  ComponentsSpec => [](Exclusive /\ LockNamesHolder) /\ RefusedForCause
<1>1. Spec => []Exclusive
  BY MutualExclusion
<1>2. Spec => []LockNamesHolder
  BY HolderIsNamed
<1>3. Spec => RefusedForCause
  BY RefusalHasCause
<1> QED
  BY <1>1, <1>2, <1>3, PartsBehave, PTL

\* In the composition too the sends keep the promise of Delivery: a confirmed
\* success comes after delivery, and what was told is final.
THEOREM SessionDelivers == ComponentsSpec => ImplementsDelivery
BY PartsBehave, SendsKeepTheirPromise, PTL

\* What the ends of logins and sends rest on holds in the composition as well: a
\* login that waits for a scan and a send that waits for its confirmation have
\* their time limit armed, and what is settled stays so.
THEOREM SessionIsTimed ==
    ComponentsSpec => /\ [](QrTypeOK /\ WaitIsGuarded /\ WaitsAreTimed)
                      /\ [][SettlesOnce]_sendVars
<1>1. QrSpec => [](QrTypeOK /\ WaitIsGuarded)
  BY LoginIsBounded
<1>2. SendSpec => []WaitsAreTimed
  BY EveryWaitIsTimed
<1>3. SendSpec => [][SettlesOnce]_sendVars
  BY ConfirmationsAreFinal
<1> QED
  BY <1>1, <1>2, <1>3, PartsBehave, PTL
=============================================================================
