-------------------------- MODULE UpdateApplyProofs --------------------------
(***************************************************************************)
(* Proofs about UpdateApply, for any archives and releases, any retry      *)
(* budget, any number of requests, crashes and starts, with or without a   *)
(* second launcher: ApplyInv is inductive, the safety properties the run   *)
(* checks on a small instance follow from it, and every step implements    *)
(* one of InstalledRelease.                                                *)
(***************************************************************************)
EXTENDS UpdateApply, TLAPS

-----------------------------------------------------------------------------
(* Facts about the records *)

\* No marker can be taken for its absence: no offer is None.
LEMMA NoPendingFacts == NoPending \notin Pending /\ NoPending.target = None
  BY ApplyConstants DEF NoPending, Pending

\* The fields of a marker.
LEMMA MarkerFacts ==
    ASSUME NEW m \in Pending
    PROVE  m.target \in Offers /\ m.from \in Nat /\ m.retry \in 0..RetryBudget
  BY DEF Pending

\* A handler that has nothing to do holds no marker.
LEMMA IdleFacts ==
    Idle \in Handlers /\ Idle.step = "idle" /\ Idle.marker = NoPending
  BY DEF Idle, Handlers, HandlerSteps

\* A handler that goes on keeps its marker.
LEMMA Advance ==
    ASSUME NEW h \in Handlers, NEW s \in HandlerSteps
    PROVE  /\ [h EXCEPT !.step = s] \in Handlers
           /\ [h EXCEPT !.step = s].step = s
           /\ [h EXCEPT !.step = s].marker = h.marker
  BY DEF Handlers

\* A new request is a well formed marker that nothing has been tried for.
LEMMA RequestFacts ==
    ASSUME NEW o \in Offers, NEW r \in Nat,
           NEW h, h = [step |-> "unflag",
                       marker |-> [target |-> o, from |-> r, retry |-> 0]]
    PROVE  /\ h \in Handlers
           /\ h.step = "unflag"
           /\ h.marker \in Pending
           /\ h.marker.target = o
  BY ApplyConstants DEF Handlers, HandlerSteps, Pending

\* A count that was dropped is a count.
LEMMA CountFacts == NoCount \in Counts
  BY DEF NoCount, Counts

-----------------------------------------------------------------------------
(* Type correctness *)

\* A folder that was never updated is well typed.
LEMMA TypeInit == Init => TypeOK
  <1> SUFFICES ASSUME Init PROVE TypeOK
      OBVIOUS
  <1>1. /\ settled \in BOOLEAN /\ cancelFlag \in BOOLEAN
        /\ noted \in BOOLEAN /\ cancelled \in BOOLEAN
      BY DEF Init
  <1> QED BY <1>1, ApplyConstants, IdleFacts, CountFacts
          DEF Init, TypeOK, StartPoints, ServePoints, RecoverPoints

\* Every operation keeps the types; that a retry count stays within its budget and
\* that a swap has something to promote is what ControlInv adds.
LEMMA TypeNext == TypeOK /\ ControlInv /\ Next => TypeOK'
  <1> SUFFICES ASSUME TypeOK, ControlInv, Next PROVE TypeOK'
      OBVIOUS
  <1> USE ApplyConstants DEF TypeOK, WorkPoints, SwapPoints, GatePoints,
          RecoverPoints, RepairPoints, StartPoints, ServePoints, Goto, current,
          folder, records, work, serving, process, shell
  <1>1. CASE RecoverForward
      BY <1>1 DEF RecoverForward
  <1>2. CASE RecoverAbort
      BY <1>2 DEF RecoverAbort
  <1>3. CASE RecoverPromote
      BY <1>3 DEF RecoverPromote, Promote, Proven
  <1>4. CASE ClearMarker
      BY <1>4 DEF ClearMarker
  <1>5. CASE RecoverBack
      BY <1>5 DEF RecoverBack, Proven
  <1>6. CASE Restore
      BY <1>6 DEF Restore
  <1>7. CASE RecoverFails
      BY <1>7 DEF RecoverFails
  <1>8. CASE RecoverNothing
      BY <1>8 DEF RecoverNothing
  <1>9. CASE ClearStarted
      BY <1>9, CountFacts DEF ClearStarted
  <1>10. CASE ReadPending
      BY <1>10 DEF ReadPending
  <1>11. CASE ApplyGates
      BY <1>11 DEF ApplyGates, Gate
  <1>12. CASE FetchManifest
      BY <1>12 DEF FetchManifest
  <1>13. CASE Stage
      BY <1>13 DEF Stage
  <1>14. CASE LastCancelCheck
      BY <1>14 DEF LastCancelCheck
  <1>15. CASE FailRetryable
    <2>1. held \in Pending
        BY <1>15 DEF FailRetryable, ControlInv
    <2>2. [held EXCEPT !.retry = @ + 1] \in Pending
        BY <1>15, <2>1 DEF FailRetryable, ControlInv, Pending
    <2> QED BY <1>15, <2>2 DEF FailRetryable
  <1>16. CASE ClearPending
      BY <1>16 DEF ClearPending
  <1>17. CASE ClearCancel
    <2>1. cancelFlag' \in BOOLEAN /\ pc' \in {"resolve", "elect"}
        BY <1>17 DEF ClearCancel
    <2> QED BY <1>17, <2>1 DEF ClearCancel
  <1>18. CASE SwapBegin
      BY <1>18 DEF SwapBegin
  <1>19. CASE SwapDropBackup
      BY <1>19 DEF SwapDropBackup
  <1>20. CASE SwapMoveAside
      BY <1>20 DEF SwapMoveAside
  <1>21. CASE SwapPromote
      BY <1>21, NoPendingFacts, MarkerFacts DEF SwapPromote, Promote, Proven
  <1>22. CASE SwapRecord
      BY <1>22 DEF SwapRecord
  <1>23. CASE SwapFails
      BY <1>23 DEF SwapFails
  <1>24. CASE PromoteFails
      BY <1>24 DEF PromoteFails
  <1>25. CASE MergeLauncher
      BY <1>25, NoPendingFacts, MarkerFacts DEF MergeLauncher, ControlInv
  <1>26. CASE Resolve
      BY <1>26 DEF Resolve
  <1>27. CASE Elect
      BY <1>27 DEF Elect
  <1>28. CASE Publish
      BY <1>28 DEF Publish, Releases
  <1>29. CASE Start
      BY <1>29 DEF Start
  <1>30. CASE DiskFull
      BY <1>30 DEF DiskFull
  <1>31. CASE Crash
      BY <1>31 DEF Crash
  <1>32. CASE RequestUpdate
    <2>1. handler' \in Handlers
        BY <1>32, RequestFacts DEF RequestUpdate
    <2>2. cancelled' \in BOOLEAN
        BY <1>32 DEF RequestUpdate
    <2> QED BY <1>32, <2>1, <2>2 DEF RequestUpdate
  <1>33. CASE RemoveStaleCancel
    <2>1. handler' \in Handlers /\ cancelFlag' \in BOOLEAN
        BY <1>33, Advance DEF RemoveStaleCancel, HandlerSteps
    <2> QED BY <1>33, <2>1 DEF RemoveStaleCancel
  <1>34. CASE RecordPending
    <2>1. handler' \in Handlers /\ pending' \in Pending
        BY <1>34, IdleFacts DEF RecordPending, ControlInv, Handlers
    <2> QED BY <1>34, <2>1, MarkerFacts DEF RecordPending
  <1>35. CASE CancelUpdate
    <2>1. handler' \in Handlers /\ cancelled' \in BOOLEAN
        BY <1>35 DEF CancelUpdate, Handlers, HandlerSteps
    <2> QED BY <1>35, <2>1 DEF CancelUpdate
  <1>36. CASE RemoveCancel
    <2>1. handler' \in Handlers /\ cancelFlag' \in BOOLEAN
        BY <1>36, Advance DEF RemoveCancel, HandlerSteps
    <2> QED BY <1>36, <2>1 DEF RemoveCancel
  <1>37. CASE RequestCancel
      BY <1>37, IdleFacts DEF RequestCancel
  <1>38. CASE NoteSuccessfulStart
    <2>1. started' \in Counts
        BY <1>38 DEF NoteSuccessfulStart, OneMore, Counts
    <2> QED BY <1>38, <2>1 DEF NoteSuccessfulStart, OneMore
  <1>39. CASE RetireBackup
    <2>1. settled' \in BOOLEAN
        BY <1>39 DEF RetireBackup
    <2> QED BY <1>39, <2>1 DEF RetireBackup
  <1>40. CASE DropCount
      BY <1>40, CountFacts DEF DropCount
  <1>41. CASE Exit
    <2>1. noted' \in BOOLEAN /\ server' = "down"
        BY <1>41 DEF Exit
    <2> QED BY <1>41, <2>1 DEF Exit
  <1>42. CASE ServerCrash
    <2>1. handler' \in Handlers /\ noted' \in BOOLEAN
        BY <1>42, IdleFacts DEF ServerCrash
    <2> QED BY <1>42, <2>1 DEF ServerCrash
  <1> QED BY <1>1, <1>2, <1>3, <1>4, <1>5, <1>6, <1>7, <1>8, <1>9, <1>10, <1>11,
         <1>12, <1>13, <1>14, <1>15, <1>16, <1>17, <1>18, <1>19, <1>20, <1>21,
         <1>22, <1>23, <1>24, <1>25, <1>26, <1>27, <1>28, <1>29, <1>30, <1>31,
         <1>32, <1>33, <1>34, <1>35, <1>36, <1>37, <1>38, <1>39, <1>40, <1>41, <1>42
      DEF Next, RecoverStep, ApplyStep, SwapStep, StartupStep, RequestStep, RetireStep

-----------------------------------------------------------------------------
(* What each point of the pass knows *)

\* No launcher runs at first, and nothing is recorded.
LEMMA ControlInit == Init => ControlInv
  BY IdleFacts DEF Init, ControlInv, WorkPoints, SwapPoints, BeforeApply, RepairPoints, Serving

\* Only the pass itself moves pc, and the shell's requests do not touch its copies.
LEMMA ControlNext == TypeOK /\ ControlInv /\ Next => ControlInv'
  <1> SUFFICES ASSUME TypeOK, ControlInv, Next PROVE ControlInv'
      OBVIOUS
  <1> USE ApplyConstants DEF TypeOK, ControlInv, WorkPoints, SwapPoints, GatePoints,
          BeforeApply, RecoverPoints, RepairPoints, Serving, Goto, folder, records,
          work, serving, process, shell
  <1>1. CASE RecoverForward
      BY <1>1 DEF RecoverForward
  <1>2. CASE RecoverAbort
      BY <1>2 DEF RecoverAbort
  <1>3. CASE RecoverPromote
      BY <1>3 DEF RecoverPromote, Promote
  <1>4. CASE ClearMarker
      BY <1>4, NoPendingFacts, MarkerFacts DEF ClearMarker
  <1>5. CASE RecoverBack
      BY <1>5 DEF RecoverBack
  <1>6. CASE Restore
      BY <1>6 DEF Restore
  <1>7. CASE RecoverFails
      BY <1>7 DEF RecoverFails
  <1>8. CASE RecoverNothing
      BY <1>8 DEF RecoverNothing
  <1>9. CASE ClearStarted
      BY <1>9 DEF ClearStarted
  <1>10. CASE ReadPending
      BY <1>10 DEF ReadPending
  <1>11. CASE ApplyGates
      BY <1>11, MarkerFacts DEF ApplyGates, Gate
  <1>12. CASE FetchManifest
      BY <1>12 DEF FetchManifest, Reconciled
  <1>13. CASE Stage
      BY <1>13 DEF Stage
  <1>14. CASE LastCancelCheck
      BY <1>14 DEF LastCancelCheck
  <1>15. CASE FailRetryable
      BY <1>15 DEF FailRetryable
  <1>16. CASE ClearPending
      BY <1>16 DEF ClearPending
  <1>17. CASE ClearCancel
      BY <1>17 DEF ClearCancel
  <1>18. CASE SwapBegin
      BY <1>18 DEF SwapBegin
  <1>19. CASE SwapDropBackup
      BY <1>19 DEF SwapDropBackup
  <1>20. CASE SwapMoveAside
      BY <1>20, NoPendingFacts, MarkerFacts DEF SwapMoveAside
  <1>21. CASE SwapPromote
      BY <1>21, NoPendingFacts, MarkerFacts DEF SwapPromote, Promote
  <1>22. CASE SwapRecord
      BY <1>22, NoPendingFacts, MarkerFacts DEF SwapRecord
  <1>23. CASE SwapFails
      BY <1>23 DEF SwapFails
  <1>24. CASE PromoteFails
      BY <1>24 DEF PromoteFails
  <1>25. CASE MergeLauncher
      BY <1>25, NoPendingFacts, MarkerFacts DEF MergeLauncher
  <1>26. CASE Resolve
      BY <1>26 DEF Resolve
  <1>27. CASE Elect
      BY <1>27 DEF Elect
  <1>28. CASE Publish
      BY <1>28 DEF Publish
  <1>29. CASE Start
      BY <1>29 DEF Start
  <1>30. CASE DiskFull
      BY <1>30 DEF DiskFull
  <1>31. CASE Crash
      BY <1>31 DEF Crash
  <1>32. CASE RequestUpdate
      BY <1>32, RequestFacts, NoPendingFacts DEF RequestUpdate
  <1>33. CASE RemoveStaleCancel
      BY <1>33, Advance, NoPendingFacts DEF RemoveStaleCancel, HandlerSteps
  <1>34. CASE RecordPending
      BY <1>34, IdleFacts DEF RecordPending
  <1>35. CASE CancelUpdate
      BY <1>35 DEF CancelUpdate
  <1>36. CASE RemoveCancel
      BY <1>36, Advance, NoPendingFacts DEF RemoveCancel, HandlerSteps
  <1>37. CASE RequestCancel
      BY <1>37, IdleFacts DEF RequestCancel
  <1>38. CASE NoteSuccessfulStart
      BY <1>38 DEF NoteSuccessfulStart
  <1>39. CASE RetireBackup
      BY <1>39 DEF RetireBackup
  <1>40. CASE DropCount
      BY <1>40 DEF DropCount
  <1>41. CASE Exit
      BY <1>41 DEF Exit
  <1>42. CASE ServerCrash
      BY <1>42, IdleFacts DEF ServerCrash
  <1> QED BY <1>1, <1>2, <1>3, <1>4, <1>5, <1>6, <1>7, <1>8, <1>9, <1>10, <1>11,
         <1>12, <1>13, <1>14, <1>15, <1>16, <1>17, <1>18, <1>19, <1>20, <1>21,
         <1>22, <1>23, <1>24, <1>25, <1>26, <1>27, <1>28, <1>29, <1>30, <1>31,
         <1>32, <1>33, <1>34, <1>35, <1>36, <1>37, <1>38, <1>39, <1>40, <1>41, <1>42
      DEF Next, RecoverStep, ApplyStep, SwapStep, StartupStep, RequestStep, RetireStep

-----------------------------------------------------------------------------
(* The order of releases *)

\* Everything starts at the first release.
LEMMA OrderInit == Init => OrderInv
  BY IdleFacts, NoPendingFacts, ApplyConstants DEF Init, OrderInv, Behind

\* A request names the newest release published, and everything an apply does
\* goes from an older request to a newer directory.
LEMMA OrderNext == TypeOK /\ ControlInv /\ OrderInv /\ Next => OrderInv'
  <1> SUFFICES ASSUME TypeOK, ControlInv, OrderInv, Next PROVE OrderInv'
      OBVIOUS
  <1> USE ApplyConstants DEF TypeOK, ControlInv, OrderInv, Behind, Handlers,
          WorkPoints, SwapPoints, GatePoints, BeforeApply, RecoverPoints, RepairPoints,
          Goto, folder, records, work, serving, process, shell
  <1>1. CASE RecoverForward
      BY <1>1 DEF RecoverForward
  <1>2. CASE RecoverAbort
      BY <1>2 DEF RecoverAbort
  <1>3. CASE RecoverPromote
      BY <1>3, NoPendingFacts, MarkerFacts DEF RecoverPromote, Promote
  <1>4. CASE ClearMarker
      BY <1>4 DEF ClearMarker
  <1>5. CASE RecoverBack
      BY <1>5, NoPendingFacts, MarkerFacts DEF RecoverBack
  <1>6. CASE Restore
      BY <1>6 DEF Restore
  <1>7. CASE RecoverFails
      BY <1>7 DEF RecoverFails
  <1>8. CASE RecoverNothing
      BY <1>8 DEF RecoverNothing
  <1>9. CASE ClearStarted
      BY <1>9 DEF ClearStarted
  <1>10. CASE ReadPending
      BY <1>10, MarkerFacts DEF ReadPending
  <1>11. CASE ApplyGates
      BY <1>11 DEF ApplyGates
  <1>12. CASE FetchManifest
      BY <1>12 DEF FetchManifest, Reconciled
  <1>13. CASE Stage
      BY <1>13 DEF Stage
  <1>14. CASE LastCancelCheck
      BY <1>14 DEF LastCancelCheck
  <1>15. CASE FailRetryable
      BY <1>15, MarkerFacts DEF FailRetryable
  <1>16. CASE ClearPending
      BY <1>16, NoPendingFacts DEF ClearPending
  <1>17. CASE ClearCancel
      BY <1>17 DEF ClearCancel
  <1>18. CASE SwapBegin
      BY <1>18 DEF SwapBegin
  <1>19. CASE SwapDropBackup
      BY <1>19 DEF SwapDropBackup
  <1>20. CASE SwapMoveAside
      BY <1>20 DEF SwapMoveAside
  <1>21. CASE SwapPromote
      BY <1>21, NoPendingFacts, MarkerFacts DEF SwapPromote, Promote
  <1>22. CASE SwapRecord
      BY <1>22 DEF SwapRecord
  <1>23. CASE SwapFails
      BY <1>23 DEF SwapFails
  <1>24. CASE PromoteFails
      BY <1>24 DEF PromoteFails
  <1>25. CASE MergeLauncher
      BY <1>25, NoPendingFacts, MarkerFacts DEF MergeLauncher
  <1>26. CASE Resolve
      BY <1>26, NoPendingFacts DEF Resolve
  <1>27. CASE Elect
      BY <1>27 DEF Elect
  <1>28. CASE Publish
      BY <1>28, NoPendingFacts, MarkerFacts DEF Publish, Releases
  <1>29. CASE Start
      BY <1>29 DEF Start
  <1>30. CASE DiskFull
      BY <1>30 DEF DiskFull
  <1>31. CASE Crash
      BY <1>31, NoPendingFacts DEF Crash
  <1>32. CASE RequestUpdate
      BY <1>32, RequestFacts DEF RequestUpdate
  <1>33. CASE RemoveStaleCancel
      BY <1>33, Advance DEF RemoveStaleCancel, HandlerSteps
  <1>34. CASE RecordPending
      BY <1>34, IdleFacts, NoPendingFacts DEF RecordPending
  <1>35. CASE CancelUpdate
      BY <1>35, NoPendingFacts DEF CancelUpdate
  <1>36. CASE RemoveCancel
      BY <1>36, Advance DEF RemoveCancel, HandlerSteps
  <1>37. CASE RequestCancel
      BY <1>37, IdleFacts, NoPendingFacts DEF RequestCancel
  <1>38. CASE NoteSuccessfulStart
      BY <1>38 DEF NoteSuccessfulStart
  <1>39. CASE RetireBackup
      BY <1>39 DEF RetireBackup
  <1>40. CASE DropCount
      BY <1>40 DEF DropCount
  <1>41. CASE Exit
      BY <1>41 DEF Exit
  <1>42. CASE ServerCrash
      BY <1>42, IdleFacts, NoPendingFacts DEF ServerCrash
  <1> QED BY <1>1, <1>2, <1>3, <1>4, <1>5, <1>6, <1>7, <1>8, <1>9, <1>10, <1>11,
         <1>12, <1>13, <1>14, <1>15, <1>16, <1>17, <1>18, <1>19, <1>20, <1>21,
         <1>22, <1>23, <1>24, <1>25, <1>26, <1>27, <1>28, <1>29, <1>30, <1>31,
         <1>32, <1>33, <1>34, <1>35, <1>36, <1>37, <1>38, <1>39, <1>40, <1>41, <1>42
      DEF Next, RecoverStep, ApplyStep, SwapStep, StartupStep, RequestStep, RetireStep

-----------------------------------------------------------------------------
(* Only what was confirmed *)

\* Nothing was asked for, and nothing is installed but the first offer.
LEMMA ConfirmedInit == Init => ConfirmedInv
  BY NoPendingFacts DEF Init, ConfirmedInv

\* What is recorded was confirmed, and what is staged is what was recorded.
LEMMA ConfirmedNext == TypeOK /\ ControlInv /\ ConfirmedInv /\ Next => ConfirmedInv'
  <1> SUFFICES ASSUME TypeOK, ControlInv, ConfirmedInv, Next PROVE ConfirmedInv'
      OBVIOUS
  <1> USE ApplyConstants DEF TypeOK, ControlInv, ConfirmedInv, Handlers, WorkPoints,
          SwapPoints, GatePoints, BeforeApply, RecoverPoints, RepairPoints, Goto, folder,
          records, work, serving, process, shell
  <1>1. CASE RecoverForward
      BY <1>1 DEF RecoverForward
  <1>2. CASE RecoverAbort
      BY <1>2 DEF RecoverAbort
  <1>3. CASE RecoverPromote
      BY <1>3 DEF RecoverPromote, Promote
  <1>4. CASE ClearMarker
      BY <1>4 DEF ClearMarker
  <1>5. CASE RecoverBack
      BY <1>5 DEF RecoverBack
  <1>6. CASE Restore
      BY <1>6 DEF Restore
  <1>7. CASE RecoverFails
      BY <1>7 DEF RecoverFails
  <1>8. CASE RecoverNothing
      BY <1>8 DEF RecoverNothing
  <1>9. CASE ClearStarted
      BY <1>9 DEF ClearStarted
  <1>10. CASE ReadPending
      BY <1>10 DEF ReadPending
  <1>11. CASE ApplyGates
      BY <1>11 DEF ApplyGates
  <1>12. CASE FetchManifest
      BY <1>12 DEF FetchManifest, Reconciled
  <1>13. CASE Stage
      BY <1>13 DEF Stage
  <1>14. CASE LastCancelCheck
      BY <1>14 DEF LastCancelCheck
  <1>15. CASE FailRetryable
      BY <1>15 DEF FailRetryable
  <1>16. CASE ClearPending
      BY <1>16, NoPendingFacts DEF ClearPending
  <1>17. CASE ClearCancel
      BY <1>17 DEF ClearCancel
  <1>18. CASE SwapBegin
      BY <1>18 DEF SwapBegin
  <1>19. CASE SwapDropBackup
      BY <1>19 DEF SwapDropBackup
  <1>20. CASE SwapMoveAside
      BY <1>20 DEF SwapMoveAside
  <1>21. CASE SwapPromote
      BY <1>21 DEF SwapPromote, Promote
  <1>22. CASE SwapRecord
      BY <1>22 DEF SwapRecord
  <1>23. CASE SwapFails
      BY <1>23 DEF SwapFails
  <1>24. CASE PromoteFails
      BY <1>24 DEF PromoteFails
  <1>25. CASE MergeLauncher
      BY <1>25, NoPendingFacts, MarkerFacts DEF MergeLauncher
  <1>26. CASE Resolve
      BY <1>26, NoPendingFacts DEF Resolve
  <1>27. CASE Elect
      BY <1>27 DEF Elect
  <1>28. CASE Publish
      BY <1>28 DEF Publish
  <1>29. CASE Start
      BY <1>29 DEF Start
  <1>30. CASE DiskFull
      BY <1>30 DEF DiskFull
  <1>31. CASE Crash
      BY <1>31, NoPendingFacts DEF Crash
  <1>32. CASE RequestUpdate
      BY <1>32 DEF RequestUpdate
  <1>33. CASE RemoveStaleCancel
      BY <1>33 DEF RemoveStaleCancel
  <1>34. CASE RecordPending
      BY <1>34, IdleFacts DEF RecordPending
  <1>35. CASE CancelUpdate
      BY <1>35, NoPendingFacts DEF CancelUpdate
  <1>36. CASE RemoveCancel
      BY <1>36 DEF RemoveCancel
  <1>37. CASE RequestCancel
      BY <1>37 DEF RequestCancel
  <1>38. CASE NoteSuccessfulStart
      BY <1>38 DEF NoteSuccessfulStart
  <1>39. CASE RetireBackup
      BY <1>39 DEF RetireBackup
  <1>40. CASE DropCount
      BY <1>40 DEF DropCount
  <1>41. CASE Exit
      BY <1>41 DEF Exit
  <1>42. CASE ServerCrash
      BY <1>42 DEF ServerCrash
  <1> QED BY <1>1, <1>2, <1>3, <1>4, <1>5, <1>6, <1>7, <1>8, <1>9, <1>10, <1>11,
         <1>12, <1>13, <1>14, <1>15, <1>16, <1>17, <1>18, <1>19, <1>20, <1>21,
         <1>22, <1>23, <1>24, <1>25, <1>26, <1>27, <1>28, <1>29, <1>30, <1>31,
         <1>32, <1>33, <1>34, <1>35, <1>36, <1>37, <1>38, <1>39, <1>40, <1>41, <1>42
      DEF Next, RecoverStep, ApplyStep, SwapStep, StartupStep, RequestStep, RetireStep

-----------------------------------------------------------------------------
(* Cancelling *)

\* Nothing was cancelled.
LEMMA CancelInit == Init => CancelInv
  BY IdleFacts DEF Init, CancelInv, CancelSticks, WorkPoints, SwapPoints

\* A running apply that writes its marker back finds the flag still there, and one
\* that removes the flag has removed the marker first.
LEMMA CancelNext == TypeOK /\ ControlInv /\ CancelInv /\ Next => CancelInv'
  <1> SUFFICES ASSUME TypeOK, ControlInv, CancelInv, Next PROVE CancelInv'
      OBVIOUS
  <1> USE ApplyConstants DEF TypeOK, ControlInv, CancelInv, CancelSticks,
          WorkPoints, SwapPoints, GatePoints, BeforeApply, RecoverPoints, RepairPoints,
          Goto, folder, records, work, serving, process, shell
  <1>1. CASE RecoverForward
      BY <1>1 DEF RecoverForward
  <1>2. CASE RecoverAbort
      BY <1>2 DEF RecoverAbort
  <1>3. CASE RecoverPromote
      BY <1>3 DEF RecoverPromote, Promote
  <1>4. CASE ClearMarker
      BY <1>4 DEF ClearMarker
  <1>5. CASE RecoverBack
      BY <1>5 DEF RecoverBack
  <1>6. CASE Restore
      BY <1>6 DEF Restore
  <1>7. CASE RecoverFails
      BY <1>7 DEF RecoverFails
  <1>8. CASE RecoverNothing
      BY <1>8 DEF RecoverNothing
  <1>9. CASE ClearStarted
      BY <1>9 DEF ClearStarted
  <1>10. CASE ReadPending
      BY <1>10 DEF ReadPending
  <1>11. CASE ApplyGates
      BY <1>11 DEF ApplyGates, Gate
  <1>12. CASE FetchManifest
      BY <1>12 DEF FetchManifest
  <1>13. CASE Stage
      BY <1>13 DEF Stage
  <1>14. CASE LastCancelCheck
      BY <1>14 DEF LastCancelCheck
  <1>15. CASE FailRetryable
      BY <1>15 DEF FailRetryable
  <1>16. CASE ClearPending
      BY <1>16 DEF ClearPending
  <1>17. CASE ClearCancel
      BY <1>17 DEF ClearCancel
  <1>18. CASE SwapBegin
      BY <1>18 DEF SwapBegin
  <1>19. CASE SwapDropBackup
      BY <1>19 DEF SwapDropBackup
  <1>20. CASE SwapMoveAside
      BY <1>20 DEF SwapMoveAside
  <1>21. CASE SwapPromote
      BY <1>21 DEF SwapPromote, Promote
  <1>22. CASE SwapRecord
      BY <1>22 DEF SwapRecord
  <1>23. CASE SwapFails
      BY <1>23 DEF SwapFails
  <1>24. CASE PromoteFails
      BY <1>24 DEF PromoteFails
  <1>25. CASE MergeLauncher
      BY <1>25, NoPendingFacts, MarkerFacts DEF MergeLauncher
  <1>26. CASE Resolve
      BY <1>26 DEF Resolve
  <1>27. CASE Elect
      BY <1>27 DEF Elect
  <1>28. CASE Publish
      BY <1>28 DEF Publish
  <1>29. CASE Start
      BY <1>29 DEF Start
  <1>30. CASE DiskFull
      BY <1>30 DEF DiskFull
  <1>31. CASE Crash
      BY <1>31 DEF Crash
  <1>32. CASE RequestUpdate
      BY <1>32, RequestFacts, IdleFacts DEF RequestUpdate
  <1>33. CASE RemoveStaleCancel
      BY <1>33, Advance DEF RemoveStaleCancel, HandlerSteps
  <1>34. CASE RecordPending
      BY <1>34, IdleFacts DEF RecordPending
  <1>35. CASE CancelUpdate
      BY <1>35 DEF CancelUpdate
  <1>36. CASE RemoveCancel
      BY <1>36, Advance DEF RemoveCancel, HandlerSteps
  <1>37. CASE RequestCancel
      BY <1>37, IdleFacts DEF RequestCancel
  <1>38. CASE NoteSuccessfulStart
      BY <1>38 DEF NoteSuccessfulStart
  <1>39. CASE RetireBackup
      BY <1>39 DEF RetireBackup
  <1>40. CASE DropCount
      BY <1>40 DEF DropCount
  <1>41. CASE Exit
      BY <1>41 DEF Exit
  <1>42. CASE ServerCrash
      BY <1>42, IdleFacts DEF ServerCrash
  <1> QED BY <1>1, <1>2, <1>3, <1>4, <1>5, <1>6, <1>7, <1>8, <1>9, <1>10, <1>11,
         <1>12, <1>13, <1>14, <1>15, <1>16, <1>17, <1>18, <1>19, <1>20, <1>21,
         <1>22, <1>23, <1>24, <1>25, <1>26, <1>27, <1>28, <1>29, <1>30, <1>31,
         <1>32, <1>33, <1>34, <1>35, <1>36, <1>37, <1>38, <1>39, <1>40, <1>41, <1>42
      DEF Next, RecoverStep, ApplyStep, SwapStep, StartupStep, RequestStep, RetireStep

-----------------------------------------------------------------------------
(* The count of good starts *)

\* Nothing is counted of a folder that was never updated.
LEMMA CountInit == Init => CountInv
  BY IdleFacts, ApplyConstants DEF Init, CountInv, NoCount, fallback

\* An apply goes past its gates only towards a release newer than the reported one,
\* and what it then promotes is newer than anything that was counted.
LEMMA CountNext == TypeOK /\ ControlInv /\ OrderInv /\ CountInv /\ Next => CountInv'
  <1> SUFFICES ASSUME TypeOK, ControlInv, OrderInv, CountInv, Next PROVE CountInv'
      OBVIOUS
  <1> USE ApplyConstants DEF TypeOK, ControlInv, OrderInv, CountInv, Behind, Counts,
          WorkPoints, SwapPoints, GatePoints, BeforeApply, RecoverPoints, RepairPoints,
          Serving, Goto, current, fallback, folder, records, work, serving, process, shell
  <1>1. CASE RecoverForward
      BY <1>1 DEF RecoverForward, Proven
  <1>2. CASE RecoverAbort
      BY <1>2 DEF RecoverAbort
  <1>3. CASE RecoverPromote
      BY <1>3, NoPendingFacts, MarkerFacts DEF RecoverPromote, Promote, Proven
  <1>4. CASE ClearMarker
      BY <1>4 DEF ClearMarker
  <1>5. CASE RecoverBack
      BY <1>5, NoPendingFacts, MarkerFacts DEF RecoverBack, Proven
  <1>6. CASE Restore
      BY <1>6 DEF Restore
  <1>7. CASE RecoverFails
      BY <1>7 DEF RecoverFails
  <1>8. CASE RecoverNothing
      BY <1>8 DEF RecoverNothing
  <1>9. CASE ClearStarted
      BY <1>9 DEF ClearStarted, NoCount
  <1>10. CASE ReadPending
      BY <1>10 DEF ReadPending
  <1>11. CASE ApplyGates
      BY <1>11, NoPendingFacts, MarkerFacts DEF ApplyGates, Gate
  <1>12. CASE FetchManifest
      BY <1>12 DEF FetchManifest, Reconciled
  <1>13. CASE Stage
      BY <1>13 DEF Stage
  <1>14. CASE LastCancelCheck
      BY <1>14 DEF LastCancelCheck
  <1>15. CASE FailRetryable
      BY <1>15 DEF FailRetryable
  <1>16. CASE ClearPending
      BY <1>16 DEF ClearPending
  <1>17. CASE ClearCancel
      BY <1>17 DEF ClearCancel
  <1>18. CASE SwapBegin
      BY <1>18 DEF SwapBegin
  <1>19. CASE SwapDropBackup
      BY <1>19 DEF SwapDropBackup
  <1>20. CASE SwapMoveAside
      BY <1>20 DEF SwapMoveAside
  <1>21. CASE SwapPromote
      BY <1>21, NoPendingFacts, MarkerFacts DEF SwapPromote, Promote, Proven
  <1>22. CASE SwapRecord
      BY <1>22 DEF SwapRecord
  <1>23. CASE SwapFails
      BY <1>23 DEF SwapFails
  <1>24. CASE PromoteFails
      BY <1>24 DEF PromoteFails
  <1>25. CASE MergeLauncher
      BY <1>25, NoPendingFacts, MarkerFacts DEF MergeLauncher
  <1>26. CASE Resolve
      BY <1>26 DEF Resolve
  <1>27. CASE Elect
      BY <1>27 DEF Elect
  <1>28. CASE Publish
      BY <1>28 DEF Publish
  <1>29. CASE Start
      BY <1>29 DEF Start
  <1>30. CASE DiskFull
      BY <1>30 DEF DiskFull
  <1>31. CASE Crash
      BY <1>31 DEF Crash
  <1>32. CASE RequestUpdate
      BY <1>32 DEF RequestUpdate
  <1>33. CASE RemoveStaleCancel
      BY <1>33 DEF RemoveStaleCancel
  <1>34. CASE RecordPending
      BY <1>34 DEF RecordPending
  <1>35. CASE CancelUpdate
      BY <1>35 DEF CancelUpdate
  <1>36. CASE RemoveCancel
      BY <1>36 DEF RemoveCancel
  <1>37. CASE RequestCancel
      BY <1>37 DEF RequestCancel
  <1>38. CASE NoteSuccessfulStart
      BY <1>38 DEF NoteSuccessfulStart, OneMore
  <1>39. CASE RetireBackup
      BY <1>39 DEF RetireBackup
  <1>40. CASE DropCount
      BY <1>40 DEF DropCount, NoCount
  <1>41. CASE Exit
      BY <1>41 DEF Exit
  <1>42. CASE ServerCrash
      BY <1>42 DEF ServerCrash
  <1> QED BY <1>1, <1>2, <1>3, <1>4, <1>5, <1>6, <1>7, <1>8, <1>9, <1>10, <1>11,
         <1>12, <1>13, <1>14, <1>15, <1>16, <1>17, <1>18, <1>19, <1>20, <1>21,
         <1>22, <1>23, <1>24, <1>25, <1>26, <1>27, <1>28, <1>29, <1>30, <1>31,
         <1>32, <1>33, <1>34, <1>35, <1>36, <1>37, <1>38, <1>39, <1>40, <1>41, <1>42
      DEF Next, RecoverStep, ApplyStep, SwapStep, StartupStep, RequestStep, RetireStep

-----------------------------------------------------------------------------
(* The theorems *)

\* A step in which nothing changes keeps the invariant.
LEMMA ApplyStutter == ApplyInv /\ UNCHANGED vars => ApplyInv'
  BY DEF ApplyInv, TypeOK, ControlInv, OrderInv, Behind, ConfirmedInv, CancelInv,
         CancelSticks, CountInv, current, fallback, Serving, vars, folder, records, work, serving, process,
         shell

\* ApplyInv holds in every state that starts, applies, crashes, requests and
\* cancels lead to.
THEOREM ApplyInvariant == Spec => []ApplyInv
  <1>1. Init => ApplyInv
      BY TypeInit, ControlInit, OrderInit, ConfirmedInit, CancelInit, CountInit
         DEF ApplyInv
  <1>2. ApplyInv /\ [Next]_vars => ApplyInv'
    <2>1. ApplyInv /\ Next => ApplyInv'
        BY TypeNext, ControlNext, OrderNext, ConfirmedNext, CancelNext, CountNext
           DEF ApplyInv
    <2> QED BY <2>1, ApplyStutter
  <1> QED BY <1>1, <1>2, PTL DEF Spec

\* Every record of the update directory keeps its shape, the retry count its budget.
THEOREM TypeCorrect == Spec => []TypeOK
  <1>1. ApplyInv => TypeOK
      BY DEF ApplyInv
  <1> QED BY <1>1, ApplyInvariant, PTL

\* Nothing the player was not shown is ever installed or kept as the fallback
\* (reconcilePending, R9.3).
THEOREM OnlyConfirmedInstalled == Spec => []InstalledWasConfirmed
  <1>1. ApplyInv => InstalledWasConfirmed
      BY DEF ApplyInv, ConfirmedInv, InstalledWasConfirmed
  <1> QED BY <1>1, ApplyInvariant, PTL

\* The release launcher.config.json names is never newer than the installed one:
\* the merge comes after the swap, and nothing reports what is not there.
THEOREM NeverReportedAhead == Spec => []ReportedNotAhead
  <1>1. ApplyInv => ReportedNotAhead
      BY ApplyConstants DEF ApplyInv, TypeOK, OrderInv, ReportedNotAhead, current
  <1> QED BY <1>1, ApplyInvariant, PTL

\* A cancel that was answered holds against every interleaving of a running apply.
THEOREM CancelAlwaysSticks == Spec => []CancelSticks
  <1>1. ApplyInv => CancelSticks
      BY DEF ApplyInv, CancelInv
  <1> QED BY <1>1, ApplyInvariant, PTL

\* The steps that change the directories.
LEMMA DirectorySteps ==
    Next /\ <<game', backup'>> # <<game, backup>> =>
        \/ RecoverForward \/ RecoverPromote \/ RecoverBack \/ Restore
        \/ SwapDropBackup \/ SwapMoveAside \/ SwapPromote \/ PromoteFails \/ RetireBackup
  BY DEF Next, StartupStep, RecoverStep, ApplyStep, SwapStep, RequestStep, RetireStep,
         folder, records, work, serving, process, shell,
         RecoverAbort, ClearMarker, RecoverFails, RecoverNothing, ClearStarted,
         ReadPending, ApplyGates, FetchManifest, Stage, LastCancelCheck, FailRetryable,
         ClearPending, ClearCancel, SwapBegin, SwapRecord, SwapFails, MergeLauncher,
         Resolve, Elect, Publish, Start, DiskFull, Crash, RequestUpdate,
         RemoveStaleCancel, RecordPending, CancelUpdate, RemoveCancel, RequestCancel,
         NoteSuccessfulStart, DropCount, Exit, ServerCrash

\* What each of them does to the installed release and to the one kept beside it:
\* a rename or a removal that takes game/ away, or brings the same release back,
\* does neither.
LEMMA InstalledSteps ==
    ASSUME ApplyInv, Next, <<game', backup'>> # <<game, backup>>
    PROVE  \/ /\ RecoverPromote \/ SwapPromote
              /\ settled /\ swapping \in Offers
              /\ current' = swapping /\ fallback' = current
              /\ settled' = (fallback' = None)
              /\ config < Release[swapping]
           \/ /\ RecoverBack
              /\ ~settled /\ settled' = settled /\ fallback # None
              /\ current' = fallback /\ fallback' = None
           \/ /\ RecoverForward \/ SwapDropBackup
              /\ settled /\ settled'
              /\ current' = current /\ fallback' = None
              /\ swapping # None
           \/ /\ Restore \/ SwapMoveAside \/ PromoteFails
              /\ current' = current /\ fallback = None /\ fallback' = None
              /\ settled' = settled \/ settled'
           \/ /\ RetireBackup /\ settled' /\ fallback' = None
              /\ current' = game
  <1> USE ApplyConstants DEF ApplyInv, TypeOK, ControlInv, OrderInv, CountInv, current,
          fallback, SwapPoints, Goto, folder
  <1>1. CASE RecoverPromote
    <2>1. swapping \in Offers /\ game = None
        BY <1>1 DEF RecoverPromote
    <2> QED BY <1>1, <2>1 DEF RecoverPromote, Promote
  <1>2. CASE SwapPromote
    <2>1. swapping \in Offers /\ game = None
        BY <1>2, NoPendingFacts, MarkerFacts DEF SwapPromote
    <2> QED BY <1>2, <2>1 DEF SwapPromote, Promote
  <1>3. CASE RecoverBack
      BY <1>3 DEF RecoverBack
  <1>4. CASE RecoverForward
      BY <1>4 DEF RecoverForward
  <1>5. CASE SwapDropBackup
      BY <1>5, NoPendingFacts, MarkerFacts DEF SwapDropBackup
  <1>6. CASE Restore
      BY <1>6 DEF Restore
  <1>7. CASE SwapMoveAside
      BY <1>7 DEF SwapMoveAside
  <1>8. CASE PromoteFails
      BY <1>8 DEF PromoteFails
  <1>9. CASE RetireBackup
      BY <1>9 DEF RetireBackup
  <1> QED BY <1>1, <1>2, <1>3, <1>4, <1>5, <1>6, <1>7, <1>8, <1>9, DirectorySteps

\* Only the recovery of a promotion that was not recorded puts an older release
\* into game/.
LEMMA InstalledGoesForward ==
    ApplyInv /\ Next =>
        (current # None /\ current' # None /\ Release[current'] < Release[current]
            => ~settled /\ current' = fallback)
  <1> SUFFICES ASSUME ApplyInv, Next, current # None, current' # None,
                      Release[current'] < Release[current]
               PROVE  ~settled /\ current' = fallback
      OBVIOUS
  <1>1. current \in Offers /\ Release[current] \in Nat
      BY ApplyConstants DEF ApplyInv, TypeOK, current
  <1>2. current' # current
      BY <1>1
  <1>3. <<game', backup'>> # <<game, backup>>
      BY <1>2 DEF current
  <1>4. CASE swapping \in Offers /\ current' = swapping
    <2>1. Release[current] <= Release[swapping]
        BY <1>1, <1>4, ApplyConstants DEF ApplyInv, OrderInv, Behind, current
    <2> QED BY <1>1, <1>4, <2>1, ApplyConstants
  <1>5. CASE RetireBackup /\ current' = game
      BY <1>2, <1>5 DEF current
  <1> QED BY <1>2, <1>3, <1>4, <1>5, InstalledSteps

\* No start, request or retry ever takes an installed release back, but for the
\* rollback of a promotion that was not recorded.
THEOREM OnlyRollbacksGoBack == Spec => OnlyRollbackGoesBack
  <1>1. ApplyInv /\ [Next]_vars
            => [current # None /\ current' # None /\ Release[current'] < Release[current]
                  => ~settled /\ current' = fallback]_vars
      BY InstalledGoesForward
  <1> QED BY <1>1, ApplyInvariant, PTL DEF Spec, OnlyRollbackGoesBack

-----------------------------------------------------------------------------
(* What a launcher merge that was lost costs *)

\* A swap keeps a release older than the one it installs, unless the folder
\* reported less than it held.
LEMMA PromotionKeepsOlder == ApplyInv /\ Next => FallbackLostToRetry
  <1> SUFFICES ASSUME ApplyInv, Next,
                      fallback' # None, Release[fallback'] >= Release[current'],
                      ~(fallback' = fallback /\ current' = current)
               PROVE  config < Release[current]
      BY DEF FallbackLostToRetry
  <1>1. <<game', backup'>> # <<game, backup>>
      BY DEF current, fallback
  <1>2. /\ swapping \in Offers /\ current' = swapping /\ fallback' = current
        /\ config < Release[swapping]
      BY <1>1, InstalledSteps
  <1>3. current \in Offers
      BY <1>2, ApplyConstants DEF ApplyInv, TypeOK, current
  <1> QED BY <1>2, <1>3, ApplyConstants DEF ApplyInv, TypeOK

\* The fallback is never replaced by a release no older than the installed one,
\* but by a swap made after a launcher merge that failed or was cut off.
THEOREM FallbackLostOnlyToRetry == Spec => OnlyLostMergeCostsFallback
  <1>1. ApplyInv /\ [Next]_vars => [FallbackLostToRetry]_vars
      BY PromotionKeepsOlder
  <1> QED BY <1>1, ApplyInvariant, PTL DEF Spec, OnlyLostMergeCostsFallback

\* Retention counts starts of the installed release, unless it counts those of an
\* older one: a release that is reported cannot be newer than the installed one.
LEMMA RetirementIsCounted == ApplyInv /\ Next => RetiredByItsCount
  <1> SUFFICES ASSUME ApplyInv, Next, ~SecondStart,
                      backup # None, backup' = None, game' = game, swapping = None
               PROVE  goodStarts >= RetireCount \/ started.release < Release[game]
      BY DEF RetiredByItsCount
  <1>1. RetireBackup
    <2>1. <<game', backup'>> # <<game, backup>>
        OBVIOUS
    <2>2. ~Restore /\ ~SwapMoveAside /\ ~PromoteFails
        BY ApplyConstants DEF Restore, SwapMoveAside, PromoteFails, ApplyInv, TypeOK,
           ControlInv
    <2>3. ~RecoverPromote /\ ~SwapPromote /\ ~RecoverBack
        BY DEF RecoverPromote, SwapPromote, Promote, RecoverBack
    <2> QED BY <2>1, <2>2, <2>3, InstalledSteps
  <1>2. server = "retire" /\ game # None /\ game \in Offers
      BY <1>1 DEF RetireBackup, Serving, ApplyInv, TypeOK, ControlInv
  <1>3. started.count >= RetireCount
      BY <1>2 DEF ApplyInv, CountInv
  <1>4. /\ started.release <= config /\ config <= Release[game]
        /\ started.release = Release[game] => started.count <= goodStarts
      BY <1>2, ApplyConstants DEF ApplyInv, CountInv, OrderInv, fallback
  <1> QED BY <1>2, <1>3, <1>4, ApplyConstants DEF ApplyInv, TypeOK, Counts

\* With one launcher at a time, game.old/ is retired when the installed release has
\* been started well RetireCount times, or on the count of an older release.
THEOREM RetiredOnlyByItsCount == Spec => OnlyOldCountRetiresEarly
  <1>1. ApplyInv /\ [Next]_vars => [RetiredByItsCount]_vars
      BY RetirementIsCounted
  <1> QED BY <1>1, ApplyInvariant, PTL DEF Spec, OnlyOldCountRetiresEarly

-----------------------------------------------------------------------------
(* UpdateApply implements InstalledRelease *)

\* A folder that was never updated holds one settled release.
LEMMA AbstractInit == Init => Installed!Init
  BY ApplyConstants DEF Init, Installed!Init, current, fallback

\* Promotions install, Recover settles or takes back, a swap and retention drop
\* the fallback, and no other step touches a release.
LEMMA StepRefines ==
    ApplyInv /\ [Next]_vars => [Installed!Next]_(Installed!ivars)
  <1> SUFFICES ASSUME ApplyInv, [Next]_vars
               PROVE  [Installed!Next]_(Installed!ivars)
      OBVIOUS
  <1> USE DEF Installed!Next, Installed!ivars
  <1>1. CASE Next /\ <<game', backup'>> # <<game, backup>>
    <2>1. CASE /\ settled /\ swapping \in Offers
               /\ current' = swapping /\ fallback' = current
               /\ settled' = (fallback' = None)
        BY <2>1 DEF Installed!Install
    <2>2. CASE /\ ~settled /\ settled' = settled /\ fallback # None
               /\ current' = fallback /\ fallback' = None
        BY <2>2 DEF Installed!RollBack, ApplyInv, TypeOK
    <2>3. CASE settled /\ settled' /\ current' = current /\ fallback' = None
        BY <2>3 DEF Installed!DropFallback, ApplyInv, TypeOK
    <2>4. CASE /\ current' = current /\ fallback = None /\ fallback' = None
               /\ settled' = settled \/ settled'
        BY <2>4 DEF Installed!Settle, ApplyInv, TypeOK
    <2>5. CASE RetireBackup /\ settled' /\ fallback' = None /\ current' = game
      <3>1. settled \/ SecondStart
          BY <2>5 DEF RetireBackup, Serving, ApplyInv, ControlInv
      <3>2. game # None \/ SecondStart
          BY <2>5 DEF RetireBackup, Serving, ApplyInv, ControlInv
      <3>3. CASE game = None
          BY <1>1, <2>5, <3>2, <3>3 DEF RetireBackup, Installed!Lose, current, fallback,
             ApplyInv, TypeOK
      <3>4. CASE game # None
          BY <1>1, <2>5, <3>1, <3>4 DEF RetireBackup, Installed!DropFallback, current,
             fallback, ApplyInv, TypeOK
      <3> QED BY <3>3, <3>4
    <2> QED BY <1>1, <2>1, <2>2, <2>3, <2>4, <2>5, InstalledSteps
  <1>2. CASE UNCHANGED <<game, backup, settled>>
      BY <1>2 DEF current, fallback
  <1>3. CASE ClearMarker \/ SwapRecord \/ RetireBackup
    <2>1. CASE <<game', backup'>> = <<game, backup>>
      <3>1. settled' \/ settled' = settled
          BY <1>3 DEF ClearMarker, SwapRecord, RetireBackup
      <3>2. current' = current /\ fallback' = fallback
          BY <2>1 DEF current, fallback
      <3> QED BY <3>1, <3>2 DEF Installed!Settle, ApplyInv, TypeOK
    <2> QED BY <1>1, <1>3, <2>1 DEF Next, StartupStep, RecoverStep, SwapStep, RetireStep
  <1>4. CASE UNCHANGED vars
      BY <1>2, <1>4 DEF vars, folder
  <1>5. CASE <<game', backup'>> = <<game, backup>> /\ Next
    <2>1. UNCHANGED settled \/ ClearMarker \/ SwapRecord \/ RetireBackup \/ Restore
              \/ RecoverPromote \/ SwapPromote
        BY <1>5
           DEF Next, StartupStep, RecoverStep, ApplyStep, SwapStep, RequestStep, RetireStep,
               folder, records, work, serving, process, shell,
               RecoverForward, RecoverAbort, RecoverBack, RecoverFails, RecoverNothing,
               ClearStarted, ReadPending, ApplyGates, FetchManifest, Stage,
               LastCancelCheck, FailRetryable, ClearPending, ClearCancel, SwapBegin,
               SwapDropBackup, SwapMoveAside, SwapFails, PromoteFails, MergeLauncher,
               Resolve, Elect, Publish, Start, DiskFull, Crash, RequestUpdate,
               RemoveStaleCancel, RecordPending, CancelUpdate, RemoveCancel,
               RequestCancel, NoteSuccessfulStart, DropCount, Exit, ServerCrash
    <2>2. ~Restore
        BY <1>5, ApplyConstants DEF Restore
    <2>3. ~RecoverPromote /\ ~SwapPromote
        BY <1>5, NoPendingFacts, MarkerFacts, ApplyConstants
           DEF RecoverPromote, SwapPromote, Promote, ApplyInv, TypeOK, ControlInv, SwapPoints
    <2> QED BY <1>2, <1>3, <1>5, <2>1, <2>2, <2>3
  <1> QED BY <1>1, <1>4, <1>5

\* Over any number of requests, starts, cancels and crashes, the release in game/
\* and the one beside it change as InstalledRelease says, as UpdateSwap shows of
\* the directories they stand for.
THEOREM ApplyImplementsInstalledRelease == Spec => ImplementsInstalledRelease
  <1>1. Init => Installed!Init
      BY AbstractInit
  <1>2. ApplyInv /\ [Next]_vars => [Installed!Next]_(Installed!ivars)
      BY StepRefines
  <1> QED BY ApplyInvariant, <1>1, <1>2, PTL
          DEF Spec, ImplementsInstalledRelease, Installed!Spec
==============================================================================
