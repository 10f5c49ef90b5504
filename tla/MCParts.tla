------------------------------- MODULE MCParts -------------------------------
(***************************************************************************)
(* The parts that do not interact, side by side in one state space: part   *)
(* says which of them runs, and the others rest in an initial state in     *)
(* which nothing of theirs is due.                                         *)
(***************************************************************************)
EXTENDS ShadowLocal, Snowflake, AdminTasks, Push, Frames, TLC

CONSTANTS u1, u2, c1, c2

VARIABLE part

Owner == (c1 :> u1) @@ (c2 :> u2)

\* One message of each type, and the lengths around the largest of a byte.
Messages ==
  [type : {CONNECT}, id : {<<5>>, <<5, 6>>}]
  \cup [type : {PUBLISH}, topic : {1}, msgID : {17},
        values : {<<>>, <<<<3>>>>, <<<<>>, <<1, 2>>>>, <<<<3>>, <<1, 2>>>>}]
  \cup [type : {SUBSCRIBE}, msgID : {1}, topicName : {<<9>>}, qos : {1}]
  \cup [type : {STATUS}, id : {<<5>>}, state : {1}]
  \cup [type : {FETCH}, id : {<<5>>}]
  \cup [type : {CMD}, id : {<<5>>}, cmdID : {<<7>>}, cmdType : {1},
        payload : {<<>>, [i \in 1..8 |-> 1], [i \in 1..9 |-> 1]}]
  \cup [type : {CMDACK}, id : {<<5>>}, cmdID : {<<7>>}, code : {0}, state : {1}]

MCInit ==
  /\ part \in {"local", "ids", "admin", "push", "frames"}
  /\ local = [d \in Device |-> NoShadow] /\ lastSeen = [d \in Device |-> 0]
  /\ now = IF part = "local" THEN 0 ELSE MaxNow
  /\ millis = IF part = "ids" THEN Epoch ELSE MaxMillis + 1
  /\ idgen = NewGenerator /\ idWaits = FALSE /\ issued = <<>> /\ setBacks = 0 /\ idRun = 0
  /\ AdminInit /\ PushInit /\ FrameInit

\* Where a part is at rest.
LocalRests == UNCHANGED vars
IdsRest == UNCHANGED idVars
AdminRests == UNCHANGED adminVars
PushRests == UNCHANGED pushVars
FramesRest == UNCHANGED frameVars

\* Bound: beside a second client there is one event, a state change, and no
\* other gateway; that client only subscribes and unsubscribes, and reads
\* nothing.
PushBound ==
  link'[c2] # "new" =>
    /\ events' <= 1 /\ inbox'["result"] = <<>>
    /\ \A u \in User : presence'[u] # Elsewhere
    /\ acking'[c2] => acking[c2] \/ subscribers' # subscribers
    /\ sendChan'[c2] >= sendChan[c2] \/ link'[c2] = "closed"

MCNext ==
  /\ UNCHANGED part
  /\ \/ part = "local" /\ Next
        /\ IdsRest /\ AdminRests /\ PushRests /\ FramesRest
     \/ part = "ids" /\ IdNext
        /\ LocalRests /\ AdminRests /\ PushRests /\ FramesRest
     \/ part = "admin" /\ AdminNext
        /\ LocalRests /\ IdsRest /\ PushRests /\ FramesRest
     \/ part = "push" /\ PushNext /\ PushBound
        /\ LocalRests /\ IdsRest /\ AdminRests /\ FramesRest
     \/ part = "frames" /\ FrameNext
        /\ LocalRests /\ IdsRest /\ AdminRests /\ PushRests

MCSpec ==
  /\ MCInit
  /\ [][MCNext]_<<part, vars, idVars, adminVars, pushVars, frameVars>>
  /\ Fairness /\ IdFairness /\ AdminFairness /\ PushFairness
=============================================================================
