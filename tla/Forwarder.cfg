SPECIFICATION Spec
CONSTANT MaxConnections = 7
INVARIANTS ManagerWaitsForSender AsleepMeansConnected
PROPERTIES SecondOnlyAfterTimeout ReconnectsUnlessErased
