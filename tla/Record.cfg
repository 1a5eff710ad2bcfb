SPECIFICATION FairSpec
CONSTANTS
  Channels = {"client_app", "server_app"}
  ContentTypes = {"CT_HANDSHAKE", "CT_APP_DATA"}
  Payloads = {"m1"}
  PayloadLen <- MCPayloadLen
  SeqSpace = 3
  MaxOverrun = 2
INVARIANTS
  TypeOK
  DeliveredIsPrefix
  NonceNeverReused
 
