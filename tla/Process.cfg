SPECIFICATION ServerSpec
CONSTANTS
    rides = rides
    locations = locations
    events = events
    bridge = bridge
    Topics = {rides}
    Producers = {w1, w2}
    Consumers = {events}
    TopicOf <- MCTopicOf
    MaxSent = 2
    MaxNotices = 1
    Lifecycle = rides
    Main = Main
    None = None
INVARIANTS
    ServerTypeOK
    HandledInOrder
    NothingRunsAfterExit
    PortsStayApart
PROPERTIES
    ConsumersStop
    ListeningServerStops
    WaitingConsumerIsServed
\* The process ends, or waits for a server nobody stops.
CHECK_DEADLOCK FALSE
