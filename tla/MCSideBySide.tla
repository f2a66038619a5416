---------------------------- MODULE MCSideBySide -----------------------------
(* The parts that share nothing, side by side for TLC: a behaviour is one  *)
(* of Index, of Review, of Trial, of RemoteCall or of Evaluation; the      *)
(* others are off.                                                         *)
EXTENDS MCIndex, MCReview, MCTrial, MCRemoteCall, MCEvaluation

IndexOff ==
  /\ stored = [r \in Repos |-> <<>>] /\ known = {}
  /\ holder = [r \in Repos |-> Nothing]
  /\ ipc = [p \in Procs |-> "killed"]
  /\ loc = [p \in Procs |-> FreshLocals]
  /\ shown = [r \in Repos |-> Nothing]

ReviewOff ==
  /\ files = <<>> /\ drawn = <<>> /\ next = 1 /\ sheet = <<>> /\ edits = 0
  /\ rpc = "off" /\ problems = {} /\ outcome = <<>>

TrialOff ==
  /\ study = "off" /\ world = 0 /\ snaps = <<>>
  /\ results = [name \in Names |-> <<>>] /\ asked = {} /\ verdict = NoVerdict

CallOff ==
  /\ client = "embed" /\ pc = "off" /\ calls = 0 /\ attempt = 0 /\ result = None
  /\ log = NoRecord
  /\ sent = 0 /\ timeouts = 0 /\ waits = 0 /\ slept = 0 /\ paid = FALSE

EvalOff ==
  /\ goldenFile = <<>> /\ digest = FirstDigest /\ indexed = {} /\ moves = 0
  /\ epc = "off" /\ run = NoRun /\ answer = Silence /\ scores = <<>> /\ docs = <<>>

MCInit ==
  \/ IndexInit /\ ReviewOff /\ TrialOff /\ CallOff /\ EvalOff
  \/ IndexOff /\ ReviewInit /\ TrialOff /\ CallOff /\ EvalOff
  \/ IndexOff /\ ReviewOff /\ TrialInit /\ CallOff /\ EvalOff
  \/ IndexOff /\ ReviewOff /\ TrialOff /\ Init /\ EvalOff
  \/ IndexOff /\ ReviewOff /\ TrialOff /\ CallOff /\ EvalInit

MCNext ==
  \/ IndexNext /\ UNCHANGED <<reviewVars, trialVars, vars, evalVars>>
  \/ ReviewNext /\ UNCHANGED <<indexVars, trialVars, vars, evalVars>>
  \/ study # "off" /\ TrialNext /\ UNCHANGED <<indexVars, reviewVars, vars, evalVars>>
  \/ pc # "off" /\ Next /\ UNCHANGED <<indexVars, reviewVars, trialVars, evalVars>>
  \/ epc # "off" /\ EvalNext /\ UNCHANGED <<indexVars, reviewVars, trialVars, vars>>

MCSpec ==
  MCInit /\ [][MCNext]_<<indexVars, reviewVars, trialVars, vars, evalVars>> /\ IndexFairness
=============================================================================
