------------------------- MODULE MCClusterRequired --------------------------
(***************************************************************************)
(* Insert with a history variable that remembers, for each call at work,   *)
(* whether the server had a centroid set when the call began.              *)
(***************************************************************************)
EXTENDS Insert

VARIABLE began  \* began[c]: the server's set when the call of c began, or NoSet

RememberedInit == Init /\ began = [c \in Callers |-> NoSet]

RememberedNext ==
  /\ Next
  /\ began' = [c \in Callers |-> IF pc'[c] = "idle" THEN NoSet
                                 ELSE IF pc[c] = "idle" THEN serverSet ELSE began[c]]

RememberedSpec == RememberedInit /\ [][RememberedNext]_<<vars, began>>

(* "ErrClusterRequired is returned by Insert when the server exposes no    *)
(* centroid set": not by a call that began after it exposed one.           *)
ClusterRequiredMeansNoSet ==
  [][\A c \in Callers :
       pc[c] # "idle" /\ pc'[c] = "idle" /\ result'[c] = "clusterRequired" =>
         began[c] = 0]_<<vars, began>>
=============================================================================
