SPECIFICATION Spec
CONSTANTS
    r1 = r1
    r2 = r2
    r3 = r3
    t1 = t1
    t2 = t2
    nobody = nobody
    MaxMessage = 2
    Requests <- TwoRequests
    Senders <- OneSender
    Free <- nobody
    MaxFault = 0
SYMMETRY Symmetry
INVARIANTS SentWithConsent RejectedNeverSent ClosedNeverClaimed
PROPERTIES DecisionHitsItsDraft HumanApprovalStands
