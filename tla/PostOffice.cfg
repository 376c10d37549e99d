SPECIFICATION FairSpec
CONSTANTS
  Boxes <- SmallBoxes
  Postman = "postman"
  Threads <- SmallThreads
  BoxOf <- SmallBoxOf
  First <- SmallFirst
  Main = "main"
  Broker = "broker"
  Types <- SmallTypes
  PostmanType <- PostmanBit
  LogType <- StorageType
  AssistType <- AssistBit
  NoType = NoType
  Wants <- SmallWants
  Sends <- SmallSends
  MaxMail = 2
  postman1 = postman1
  postman2 = postman2
  logger1 = logger1
  ui1 = ui1
INVARIANTS
  TypeOK
  TableComplete
  NobodyLeftWaiting
  DeliveredOnce
  OrderPerSender
PROPERTY EveryMailHandled
CHECK_DEADLOCK FALSE
