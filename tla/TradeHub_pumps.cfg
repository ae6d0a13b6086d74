\* Two clients of one coin, channels of one place, under fairness.
\* Nothing more happens once every event is copied and every client is gone.
SPECIFICATION FairSpec
CONSTANTS
  Clients = {c1, c2}
  Topics = {btc}
  BroadcastCap = 1
  RegisterCap = 1
  UnregisterCap = 1
  SendCap = 1
  MaxPushed = 2
INVARIANTS
  TypeOK
  SendsOnOpenOnly
  CountedAreThere
  NoGaps
PROPERTIES
  EventsAreCopied
  DroppedClientsEnd
CHECK_DEADLOCK FALSE
