CONSTANTS
    Always = {"app", "te", "proxy-authorization"}
    Sometimes = {"content-length", "transfer-encoding", "x-forwarded-for"}
    MayName = {"app", "upgrade", "connection", "content-length", "x-forwarded-for"}
    AnswerNames = {"app", "upgrade"}
SPECIFICATION Spec
INVARIANTS
    OnlyEndToEndFieldsPass
    ForwardedIsTheGateways
    BodyFramedOnce
    UpgradeIsAgreed
