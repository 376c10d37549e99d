---------------------------- MODULE MCPostOffice ----------------------------
EXTENDS PostOffice

CONSTANTS postman1, postman2, logger1, ui1

EventType == 1
UiType == 3
StorageType == 4
CellularType == 5
PostmanBit == 6
AssistBit == 7
SafetyType == 8

(* A small office: a type with two subscribers, one nobody wants, and what *)
(* MAIL_SEND may be asked for beyond what the program's threads send.  The *)
(* broker sends before, the safeguard after everybody has subscribed.      *)
SmallBoxes == {"postman", "logger", "ui"}

SmallThreads == {postman1, postman2, logger1, ui1}

SmallFirst == [postman |-> postman1, logger |-> logger1, ui |-> ui1]

SmallBoxOf ==
  [t \in SmallThreads |->
     IF t = logger1 THEN "logger" ELSE IF t = ui1 THEN "ui" ELSE "postman"]

SmallTypes == {EventType, StorageType, PostmanBit, AssistBit}

SmallWants ==
  [postman |-> {PostmanBit},
   logger  |-> {StorageType},
   ui      |-> {StorageType, AssistBit}]

SmallSends ==
  [x \in SmallBoxes \cup {"main", "broker"} |->
     CASE x = "broker" -> {StorageType, EventType}
       [] x = "main"   -> {NoType, PostmanBit}
       [] OTHER        -> {}]

-----------------------------------------------------------------------------
(* The program's own table (safeguard.cpp, POSTMAN_OPT 1).                 *)
ProgramWants ==
  [postman  |-> {PostmanBit},
   logger   |-> {StorageType},
   safety   |-> {SafetyType},
   ui       |-> {UiType, AssistBit},
   cellular |-> {CellularType}]

(* da.cpp and the postman send ASSIST, ui.cpp CELLULAR and STORAGE,        *)
(* cellular.cpp and the safeguard STORAGE, the broker SAFETY and STORAGE.  *)
ProgramSends ==
  [postman  |-> {AssistBit},
   safety   |-> {AssistBit},
   ui       |-> {CellularType, StorageType},
   cellular |-> {StorageType},
   main     |-> {StorageType},
   broker   |-> {SafetyType, StorageType}]

(* Every type that some thread of the program sends has a subscriber, so   *)
(* that by TableComplete none of its mails is reported as unroutable.      *)
ASSUME ProgramSendsAreWanted ==
  \A x \in DOMAIN ProgramSends : \A type \in ProgramSends[x] :
    \E b \in DOMAIN ProgramWants : type \in ProgramWants[b]
=============================================================================
