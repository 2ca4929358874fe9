SPECIFICATION Spec
CONSTANT MaxFailures = 8
INVARIANTS TypeOK LoopHasNextEvent ArmedAtCurrentRung
           AttemptIsAwaited NoOrphanLink
PROPERTIES LadderClimbs LoopIsNotAbandoned LoopEnds LossIsNoticed
