SPECIFICATION ServerSpec
CONSTANTS
    rides = rides
    locations = locations
    events = events
    bridge = bridge
    Topics = {rides, locations}
    Producers = {w1}
    Consumers = {events, bridge}
    TopicOf <- MCTopicOf
    MaxSent = 0
    MaxNotices = 0
    Lifecycle = rides
    Main = Main
    None = None
PROPERTY ShutdownEnds
\* The process ends, or waits for a server nobody stops.
CHECK_DEADLOCK FALSE
