SPECIFICATION Spec
CONSTANTS
  Size = 2
  Take = 3
INVARIANTS ChannelHoldsTheRest EnoughTerminates GracefulShutdown NeverPoisoned DropFailsAfterJobPanic
PROPERTIES HungJobDoesNotBlock ShutdownEnds
