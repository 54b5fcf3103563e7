SPECIFICATION FairSpec
CONSTANTS
  Stream = {s1, s2, s3}
  Kinds = {"serve", "listener", "tls", "sdk"}
  Ingress = {s1, s2}
  NoStream = NoStream
INVARIANTS NoStreamForgotten
PROPERTIES StreamsAreTaken LossEndsServe
CHECK_DEADLOCK FALSE
