------------------------ MODULE MCAttemptCoordinator ------------------------
(* Instances of AttemptCoordinator for TLC.  The errors are the ones the     *)
(* OpenAI and xAI providers build, named for the place that builds them.     *)
EXTENDS AttemptCoordinator

CONSTANTS A, B, C

Error(kind, sent, safe) ==
    [NoError EXCEPT !.kind = kind, !.send_state = sent, !.replay_safe = safe]
Directed(e, directive) == [e EXCEPT !.pre_delivery_retry = directive]
Disposed(e, disposition) == [e EXCEPT !.disposition = disposition]

(* openai/src/provider/failure.rs and execution.rs *)
CapacityRejected   == Directed(Error("Other", "Sent", TRUE), "TransientRotate")
ServerError        == [Directed(Error("Other", "Sent", TRUE), "TransientReturn")
                         EXCEPT !.atomic_events = "Facts"]
SafeReject         == Error("Other", "Sent", TRUE)
RejectWithEvents   == [Error("Other", "Sent", TRUE) EXCEPT !.atomic_events = "Facts"]
UncostedReject     == [Error("Other", "Sent", TRUE) EXCEPT !.atomic_events = "Plain"]
EgressFailed       == Error("Other", "NotSent", FALSE)
StreamBroken       == Error("Other", "Ambiguous", FALSE)
ConnectionFailed   == Directed(Error("Other", "NotSent", TRUE), "ConnectionRetry")
OpeningExhausted   == [Error("Other", "NotSent", FALSE)
                         EXCEPT !.budget_exhausted = TRUE, !.retry_prohibited = TRUE]
SocketRetry        == Directed(Error("Other", "NotSent", FALSE), "TransportRetry")
SocketFallback     == Directed(Error("Other", "NotSent", FALSE), "TransportFallback")
TooBigFallback     == Directed(Error("MessageTooBig", "Ambiguous", FALSE), "TransportFallback")
AccountRefused     == Directed(Error("Other", "Sent", FALSE), "AccountRotation")
PolicyProhibited   == [Error("Other", "Sent", FALSE) EXCEPT !.retry_prohibited = TRUE]
CredentialRejected == [Error("Unauthorized", "Sent", TRUE) EXCEPT !.retries_same_account = TRUE]

(* gateway-core allows a batch whose cost is in its metering only; no provider *)
(* builds one today.                                                         *)
MeteredReject      == [Error("Other", "Sent", TRUE) EXCEPT !.atomic_events = "Metering"]

(* xai/src/provider/failure.rs and openai continuation failures *)
ReplayAllowed  == Disposed(Error("Other", "Sent", TRUE), "ProviderReplayAllowed")
ExactRetry     == Disposed(Error("Other", "NotSent", TRUE), "RetryExactConnection")
ClientReplay   == Disposed(Error("Other", "NotSent", FALSE), "ClientReplayRequired")

(* openai/src/provider/observation.rs: account selection *)
NoCapacity     == Error("Capacity", "NotSent", FALSE)
OwnerBusy      == Disposed(NoCapacity, "RetryExactConnection")
PolicyBlocked  == [Error("SessionPolicy", "NotSent", FALSE) EXCEPT !.retry_prohibited = TRUE]
NoStore        == Error("Infrastructure", "NotSent", FALSE)

SomeGuards == {[observed |-> FALSE, settled |-> "open"], [observed |-> TRUE, settled |-> "open"]}
NoGuard == {[observed |-> FALSE, settled |-> "absent"]}
TwoAccounts   == {A, B}
ThreeAccounts == {A, B, C}
OneProvider   == [c \in 1..1 |-> TwoAccounts]
TwoProviders  == [c \in 1..2 |-> IF c = 1 THEN {A, B} ELSE {C}]

RoutingStream     == {CapacityRejected, AccountRefused, CredentialRejected, PolicyProhibited}
RoutingExecute    == {NoCapacity, PolicyBlocked}
DeliveryStream    == {ServerError, RejectWithEvents, StreamBroken, EgressFailed}
ConnectionStream  == {ConnectionFailed, OpeningExhausted, SafeReject}
TransportStream   == {SocketRetry, SocketFallback, TooBigFallback, StreamBroken}
ContinuationStream == {ReplayAllowed, ExactRetry, ClientReplay, SafeReject}
ContinuationExecute == {NoCapacity, OwnerBusy, NoStore}
RoutingContinued    == RoutingStream \cup ContinuationStream
                         \cup {RejectWithEvents, UncostedReject, MeteredReject}
RefusedSelections   == RoutingExecute \cup ContinuationExecute
ReconnectStream   == TransportStream \cup ConnectionStream
                       \cup {CapacityRejected, AccountRefused, CredentialRejected, EgressFailed}
JustCapacity  == {NoCapacity}
SocketStream  == {SocketRetry, SocketFallback}
=============================================================================
