\* Two clients on two TCBs, over a network that loses, repeats and reorders.
CONSTANTS
    Clients = {c1, c2}
    Modulus = 32
    Mss = 2
    LastTcb = 1
    ClientIss = 31
    ClientWindow = 1
    Messages <- GetAndPost
    c1 = c1
    c2 = c2
    MaxMessages = 2
    ClockStep = 5
    MaxOpens = 2
    Answers = {"null", "list", "page", "submit", "error"}
    Nobody = Nobody
SPECIFICATION Spec
INVARIANTS ReadsInOrder AcknowledgedIsKept AcknowledgesSent
CHECK_DEADLOCK FALSE
