----------------------------- MODULE MCBuffers ------------------------------
(* The block cache, the request queue of the SD driver below it and a pipe,  *)
(* each by itself: part says which one runs.                                 *)
EXTENDS BlockCache, SdQueue, Pipe

VARIABLE part

BuffersInit ==
  /\ part \in {"cache", "queue", "pipe"}
  /\ Init /\ SdqInit /\ PipeInit
  /\ part # "cache" => want = [t \in Threads |-> CHOOSE b \in BlockNos : TRUE]
BuffersNext ==
  /\ UNCHANGED part
  /\ \/ part = "cache" /\ Next /\ UNCHANGED <<sdqvars, pipevars>>
     \/ part = "queue" /\ SdqNext /\ UNCHANGED <<vars, pipevars>>
     \/ part = "pipe" /\ PipeNext /\ UNCHANGED <<vars, sdqvars>>
\* The fairness of each part; its actions are disabled while another runs.
BuffersSpec ==
  /\ BuffersInit /\ [][BuffersNext]_<<vars, sdqvars, pipevars, part>>
  /\ Fairness /\ SdqFairness /\ PipeFairness
=============================================================================
