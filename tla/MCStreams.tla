------------------------------ MODULE MCStreams ------------------------------
(***************************************************************************)
(* The two kinds of pipelines, one at a time: the channel pipelines of     *)
(* MCPipe, and the chains of MCChains as lazy sequences.                   *)
(***************************************************************************)
EXTENDS MCPipe, Yield, MCChains

VARIABLES
  inUse,
  prog, pos, locals, out   \* those of LazySeq, with those of Yield

seqVars == <<prog, pos, locals, control, refused, out>>

Seqs == INSTANCE Terminals WITH st <- locals

AnyProgram == CHOOSE p \in Programs : TRUE
AnyNet == CHOOSE p \in Nets : TRUE

MCInit ==
  /\ inUse \in {"pipe", "seq"}
  /\ Init /\ (inUse # "pipe" => net = AnyNet)
  /\ Seqs!Init /\ (inUse # "seq" => prog = AnyProgram)

MCNext ==
  \/ inUse = "pipe" /\ Next /\ UNCHANGED <<inUse, seqVars>>
  \/ inUse = "seq" /\ Seqs!Next /\ UNCHANGED <<inUse, vars>>

(* Pipelines and the one goroutine that ranges over a Seq are scheduled,   *)
(* as Fairness of Pipe and FairSpec of LazySeq have it.                    *)
MCSpec ==
  /\ MCInit /\ [][MCNext]_<<inUse, vars, seqVars>>
  /\ WF_vars(inUse = "pipe" /\ Step)
  /\ WF_vars(inUse = "pipe" /\ \E w \in Workers : SeeCtxDone(w))
  /\ WF_seqVars(inUse = "seq" /\ Seqs!Step)

(* The properties of those that run. *)
PipeDrainedEnds == inUse = "pipe" => DrainedEnds
SeqRunEnds == inUse = "seq" => Seqs!RunEnds
SeqGivesResult == Seqs!GivesResult
SeqPullsWhatIsNeeded == Seqs!PullsWhatIsNeeded
SeqTerminalsAgree == Seqs!TerminalsAgree
=============================================================================
