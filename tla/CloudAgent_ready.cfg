CONSTANTS
    t1 = t1
    t2 = t2
    NoWorker = NoWorker
    GRPCSA = "grpc_sa"
    AttachImpl = "permissive_sa"
    Threads <- MCThreads

SPECIFICATION Spec

INVARIANTS
    WorkerReadyWhenReturned
