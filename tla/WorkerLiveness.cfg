CONSTANTS
    Request = {r1, r2}
    QueueSize = 1
    MaxWorkers = 1
SPECIFICATION LiveSpec
PROPERTIES EveryHandlerAnswers EveryTicketSettles StopEndsThread
