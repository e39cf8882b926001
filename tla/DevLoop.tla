------------------------------- MODULE DevLoop -------------------------------
(***************************************************************************)
(* The bounded development loop of tools/agiwiki_devloop: the nodes of     *)
(* graph.py, the Git gate before and after every callback and command, the *)
(* commands of gates.py, the agents behind the callbacks, and outsiders    *)
(* who write to the worktree or move HEAD at any moment.                   *)
(*                                                                         *)
(* A gate is three reads, of HEAD, of the paths changed since preflight's  *)
(* snapshot, and of the digest of the diff; others act in between.  What   *)
(* an outsider writes is its own, and nobody but the implementer writes    *)
(* over it: interference that is undone before the next read leaves no     *)
(* trace that a gate could find.  The texts of receipts are left out.      *)
(***************************************************************************)
EXTENDS Integers, Sequences, FiniteSets

CONSTANTS
  Paths,      \* paths of the worktree
  Allowed,    \* those in allowed_paths
  Expected,   \* those in expected_dirty_paths
  Drafts,     \* what an implementer writes to a path
  Clean,      \* a path is as in HEAD
  Mine,       \* a path as the user had changed it before
  Foreign,    \* a path as an outsider has changed it
  Commands,   \* the number of acceptance commands
  Budgets,    \* pairs of max_rounds and max_agent_calls
  MaxMischief, \* bound on the deeds of outsiders
  NULL

ASSUME DevLoopAssumption ==
  /\ Allowed \subseteq Paths /\ Expected \subseteq Paths
  /\ Commands \in Nat \ {0}
  /\ Budgets \subseteq (1..20) \X (3..100)
  /\ MaxMischief \in Nat

\* What is not the implementer's can be told from what is.
ASSUME VersionsAssumption == {Clean, Mine, Foreign} \cap Drafts = {}

Versions == Drafts \cup {Clean, Mine, Foreign}

Tree == [Paths -> Versions]

\* HEAD at first, a commit with the same files, and another.
Heads == {"base", "same", "other"}

\* worktree_diff_digest: the files, relative to HEAD.
Digest == [tree : Tree, moved : BOOLEAN]

\* Whether a command passed, and on what it ran (history).
Receipt == [ok : BOOLEAN, on : Tree]

Verdict == [decision : {"APPROVE", "REVISE", "HUMAN_REVIEW"}, serious : BOOLEAN]

\* DevLoopState.
Run ==
  [round : Nat \ {0}, calls : Nat, changed : SUBSET Paths,
   digest : Digest \cup {NULL}, previous : Digest \cup {NULL},
   receipts : Seq(Receipt), verdict : Verdict \cup {NULL},
   decision : {"IN_PROGRESS", "READY_FOR_HUMAN", "BLOCKED", "HUMAN_REVIEW"}]

Stages ==
  {"preflight", "planner", "implementer", "verify", "reviewer", "decide", "end"}

\* Where a stage is: the reads of preflight and of a gate, a callback that
\* runs, a command with its output open or closed.
Steps == {"enter", "dirty", "snapshot", "base digest", "base head",
          "head", "changed", "digest", "call", "start", "open", "silent"}

\* What a callback returned, a status or a verdict, or that it raised.
Answer ==
  [decision : {"READY", "NEEDS_INPUT", "IMPLEMENTED", "BLOCKED", "raised"},
   serious : {FALSE}] \cup Verdict

Status(word) == [decision |-> word, serious |-> FALSE]

VARIABLES
  stage,     \* the node of the graph
  gate,      \* [at : step, after : the second gate, ok, changed : reads so far]
  answer,    \* what the callback returned
  run,       \* the state of the graph
  base,      \* [snapshot, head] of preflight
  budget,    \* <<max_rounds, max_agent_calls>>
  tree,      \* the worktree
  head,      \* HEAD
  mischief,  \* deeds of outsiders so far
  undone,    \* the change was taken back between two reads of a gate (history)
  approved   \* <<tree, head>> when the reviewer last answered (history)

vars == <<stage, gate, answer, run, base, budget, tree, head, mischief,
          undone, approved>>

world == <<tree, head, mischief, undone>>

DevLoopTypeOK ==
  /\ stage \in Stages
  /\ gate \in [at : Steps, after : BOOLEAN, ok : BOOLEAN,
               changed : SUBSET Paths]
  /\ answer \in Answer \cup {NULL}
  /\ run \in Run
  /\ base \in [snapshot : [Paths -> (Versions \ Drafts) \cup {NULL}],
               head : Heads]
  /\ budget \in Budgets
  /\ tree \in Tree
  /\ head \in Heads
  /\ mischief \in 0..MaxMischief
  /\ undone \in BOOLEAN
  /\ approved \in (Tree \X Heads) \cup {NULL}

Fresh == [round |-> 1, calls |-> 0, changed |-> {}, digest |-> NULL,
          previous |-> NULL, receipts |-> <<>>, verdict |-> NULL,
          decision |-> "IN_PROGRESS"]

DevLoopInit ==
  /\ stage = "preflight"
  /\ gate = [at |-> "dirty", after |-> FALSE, ok |-> TRUE, changed |-> {}]
  /\ answer = NULL
  /\ run = Fresh
  /\ base = [snapshot |-> [p \in Paths |-> NULL], head |-> "base"]
  /\ budget \in Budgets
  /\ tree \in [Paths -> {Clean, Mine}]
  /\ head = "base"
  /\ mischief = 0
  /\ undone = FALSE
  /\ approved = NULL

-----------------------------------------------------------------------------
(***************************************************************************)
(* What Git says                                                           *)
(***************************************************************************)

dirty_paths == {p \in Paths : tree[p] # Clean}

worktree_diff_digest == [tree |-> tree, moved |-> head = "other"]

\* changed_since_snapshot, of the files t.
ChangedIn(t) ==
  {p \in Paths : /\ t[p] # Clean \/ base.snapshot[p] # NULL
                 /\ t[p] # base.snapshot[p]}

-----------------------------------------------------------------------------
(***************************************************************************)
(* Control                                                                 *)
(***************************************************************************)

At(s, step) == stage = s /\ gate.at = step

GoTo(s, step) ==
  /\ stage' = s
  /\ gate' = [at |-> step, after |-> FALSE, ok |-> TRUE, changed |-> {}]

\* _terminal_update
Stop(decision) ==
  /\ GoTo("end", "enter")
  /\ run' = [run EXCEPT !.decision = decision]
  /\ answer' = NULL

\* _repository_terminal: with what the gate has read.
StopWith(decision, changed, digest) ==
  /\ GoTo("end", "enter")
  /\ run' = [run EXCEPT !.decision = decision, !.changed = changed,
               !.digest = digest,
               !.previous = IF stage = "implementer" /\ gate.after
                            THEN run.digest ELSE @]
  /\ answer' = NULL

-----------------------------------------------------------------------------
(***************************************************************************)
(* preflight                                                               *)
(***************************************************************************)

ReadDirty ==
  /\ At("preflight", "dirty")
  /\ IF dirty_paths \subseteq Expected
     THEN /\ gate' = [gate EXCEPT !.at = "snapshot", !.changed = dirty_paths]
          /\ UNCHANGED <<stage, run, answer>>
     ELSE Stop("HUMAN_REVIEW")
  /\ UNCHANGED <<base, budget, approved, world>>

\* Mutant: the snapshot has no entry for a clean path.
DirtySnapshot ==
  /\ At("preflight", "snapshot")
  /\ base' = [base EXCEPT !.snapshot = [p \in gate.changed |-> tree[p]]]
  /\ GoTo("preflight", "base digest")
  /\ UNCHANGED <<run, answer, budget, approved, world>>

TakeSnapshot ==
  /\ At("preflight", "snapshot")
  /\ base' = [base EXCEPT !.snapshot =
                [p \in Paths |-> IF p \in gate.changed THEN tree[p] ELSE NULL]]
  /\ GoTo("preflight", "base digest")
  /\ UNCHANGED <<run, answer, budget, approved, world>>

ReadBaseDigest ==
  /\ At("preflight", "base digest")
  /\ run' = [run EXCEPT !.digest = worktree_diff_digest]
  /\ GoTo("preflight", "base head")
  /\ UNCHANGED <<base, answer, budget, approved, world>>

ReadBaseHead ==
  /\ At("preflight", "base head")
  /\ base' = [base EXCEPT !.head = head]
  /\ GoTo("planner", "enter")
  /\ UNCHANGED <<run, answer, budget, approved, world>>

\* A Git command of preflight fails or times out.
PreflightFails ==
  /\ stage = "preflight"
  /\ GoTo("end", "enter")
  /\ run' = [run EXCEPT !.decision = "HUMAN_REVIEW", !.digest = NULL]
  /\ UNCHANGED <<answer, base, budget, approved, world>>

-----------------------------------------------------------------------------
(***************************************************************************)
(* The gate                                                                *)
(***************************************************************************)

\* A node that calls an agent first looks at the budget.
Enter ==
  /\ stage \in {"planner", "implementer", "reviewer"}
  /\ gate.at = "enter"
  /\ IF run.calls >= budget[2]
     THEN Stop("HUMAN_REVIEW")
     ELSE GoTo(stage, "head") /\ UNCHANGED <<run, answer>>
  /\ UNCHANGED <<base, budget, approved, world>>

GateHead ==
  /\ gate.at = "head"
  /\ gate' = [gate EXCEPT !.at = "changed", !.ok = head = base.head]
  /\ UNCHANGED <<stage, run, answer, base, budget, approved, world>>

\* Mutant: the allowlist is checked only after the implementer.
OutsideAfterwards ==
  /\ gate.at = "changed"
  /\ gate' = [gate EXCEPT !.at = "digest", !.changed = ChangedIn(tree),
               !.ok = @ /\ (stage = "implementer" =>
                              ChangedIn(tree) \subseteq Allowed)]
  /\ UNCHANGED <<stage, run, answer, base, budget, approved, world>>

GateChanged ==
  /\ gate.at = "changed"
  /\ gate' = [gate EXCEPT !.at = "digest", !.changed = ChangedIn(tree),
                          !.ok = @ /\ ChangedIn(tree) \subseteq Allowed]
  /\ UNCHANGED <<stage, run, answer, base, budget, approved, world>>

\* The digest that a gate expects: after the implementer, any.
AsExpected ==
  \/ stage = "implementer" /\ gate.after
  \/ worktree_diff_digest = run.digest

\* The last read of a gate: its verdict, all reasons together.
Passed == gate.at = "digest" /\ gate.ok /\ AsExpected

GateRefuses ==
  /\ gate.at = "digest"
  /\ ~gate.ok \/ ~AsExpected
  /\ StopWith("HUMAN_REVIEW", gate.changed, worktree_diff_digest)
  /\ UNCHANGED <<base, budget, approved, world>>

\* A Git command fails or times out.
GateFails ==
  /\ gate.at \in {"head", "changed", "digest"}
  /\ StopWith("HUMAN_REVIEW", gate.changed, NULL)
  /\ UNCHANGED <<base, budget, approved, world>>

\* The first gate of a stage passes.
Proceed ==
  /\ Passed /\ ~gate.after
  /\ IF stage = "verify"
     THEN /\ GoTo(stage, "start")
          /\ run' = [run EXCEPT !.receipts = <<>>]
     ELSE GoTo(stage, "call") /\ UNCHANGED run
  /\ UNCHANGED <<answer, base, budget, approved, world>>

\* On to the second gate of a stage.
Recheck == gate' = [gate EXCEPT !.at = "head", !.after = TRUE]

-----------------------------------------------------------------------------
(***************************************************************************)
(* planner, implementer, reviewer                                          *)
(***************************************************************************)

\* The callback returns a receipt, or raises.
Return(value) ==
  /\ gate.at = "call"
  /\ answer' = value
  /\ run' = [run EXCEPT !.calls = @ + 1]
  /\ approved' = IF stage = "reviewer" THEN <<tree, head>> ELSE approved
  /\ Recheck
  /\ UNCHANGED <<stage, base, budget, world>>

PlannerReturns ==
  stage = "planner"
    /\ \E word \in {"READY", "NEEDS_INPUT", "BLOCKED", "raised"} :
         Return(Status(word))

ImplementerReturns ==
  stage = "implementer"
    /\ \E word \in {"IMPLEMENTED", "BLOCKED", "raised"} : Return(Status(word))

ReviewerReturns ==
  stage = "reviewer" /\ \E value \in Verdict \cup {Status("raised")} : Return(value)

\* The one writer, on allowed paths or not.
ImplementerWrites(p, version) ==
  /\ At("implementer", "call")
  /\ tree' = [tree EXCEPT ![p] = version]
  /\ UNCHANGED <<stage, gate, answer, run, base, budget, head, mischief,
                 undone, approved>>

Planned ==
  /\ stage = "planner" /\ gate.after /\ Passed
  /\ \/ /\ answer.decision = "READY"
        /\ GoTo("implementer", "enter") /\ answer' = NULL /\ UNCHANGED run
     \/ answer.decision = "raised" /\ StopWith("HUMAN_REVIEW", gate.changed, run.digest)
     \/ answer.decision \in {"NEEDS_INPUT", "BLOCKED"} /\ Stop("HUMAN_REVIEW")
  /\ UNCHANGED <<base, budget, approved, world>>

Implemented ==
  /\ stage = "implementer" /\ gate.after /\ Passed
  /\ LET read == [run EXCEPT !.changed = gate.changed,
                             !.previous = run.digest,
                             !.digest = worktree_diff_digest]
     IN IF answer.decision = "IMPLEMENTED"
        THEN run' = read /\ GoTo("verify", "head")
        ELSE /\ run' = [read EXCEPT !.decision =
                          IF answer.decision = "BLOCKED" THEN "BLOCKED"
                          ELSE "HUMAN_REVIEW"]
             /\ GoTo("end", "enter")
  /\ answer' = NULL
  /\ UNCHANGED <<base, budget, approved, world>>

Reviewed ==
  /\ stage = "reviewer" /\ gate.after /\ Passed
  /\ IF answer \in Verdict
     THEN /\ run' = [run EXCEPT !.verdict = answer]
          /\ GoTo("decide", "enter")
          /\ answer' = NULL
     ELSE StopWith("HUMAN_REVIEW", gate.changed, run.digest)
  /\ UNCHANGED <<base, budget, approved, world>>

-----------------------------------------------------------------------------
(***************************************************************************)
(* verify and _run_bounded_command                                         *)
(***************************************************************************)

StartCommand ==
  /\ gate.at = "start"
  /\ gate' = [gate EXCEPT !.at = "open"]
  /\ run' = [run EXCEPT !.receipts = Append(@, [ok |-> FALSE, on |-> tree])]
  /\ UNCHANGED <<stage, answer, base, budget, approved, world>>

\* The command closes its output and runs on; process.wait() has no timeout.
CloseOutput ==
  /\ gate.at = "open"
  /\ gate' = [gate EXCEPT !.at = "silent"]
  /\ UNCHANGED <<stage, answer, run, base, budget, approved, world>>

\* The command ends, or is killed for too much output, or did not start.
Finish(ok) ==
  /\ gate.at \in {"open", "silent"}
  /\ run' = [run EXCEPT !.receipts[Len(run.receipts)].ok = ok]
  /\ Recheck
  /\ UNCHANGED <<stage, answer, base, budget, approved, world>>

\* Mutant: the deadline is looked at only once the output has ended.
TimeOutLate ==
  /\ gate.at = "silent"
  /\ Recheck
  /\ UNCHANGED <<stage, answer, run, base, budget, approved, world>>

\* The deadline passes while the output is open.
TimeOut ==
  /\ gate.at = "open"
  /\ Recheck
  /\ UNCHANGED <<stage, answer, run, base, budget, approved, world>>

Verified ==
  /\ stage = "verify" /\ gate.after /\ Passed
  /\ IF Len(run.receipts) < Commands
     THEN GoTo("verify", "start")
     ELSE GoTo("reviewer", "enter")
  /\ UNCHANGED <<answer, run, base, budget, approved, world>>

-----------------------------------------------------------------------------
(***************************************************************************)
(* decide                                                                  *)
(***************************************************************************)

VerificationPassed == \A i \in DOMAIN run.receipts : run.receipts[i].ok

NeedsRevision ==
  \/ ~VerificationPassed
  \/ run.verdict.serious
  \/ run.verdict.decision = "REVISE"
  \/ run.changed = {}

\* Mutant: room for the implementer is enough.
ExhaustedLate ==
  \/ run.digest = run.previous
  \/ run.round >= budget[1]
  \/ run.calls + 1 > budget[2]

\* A round that changed nothing, the last round, or one whose successor
\* could not pay its implementer and its reviewer.
Exhausted ==
  \/ run.digest = run.previous
  \/ run.round >= budget[1]
  \/ run.calls + 2 > budget[2]

Decide ==
  /\ stage = "decide"
  /\ \/ /\ run.verdict.decision = "HUMAN_REVIEW"
        /\ Stop("HUMAN_REVIEW")
     \/ /\ run.verdict.decision # "HUMAN_REVIEW"
        /\ NeedsRevision /\ Exhausted
        /\ Stop("HUMAN_REVIEW")
     \/ /\ run.verdict.decision # "HUMAN_REVIEW"
        /\ NeedsRevision /\ ~Exhausted
        /\ run' = [run EXCEPT !.round = @ + 1]
        /\ GoTo("implementer", "enter")
        /\ UNCHANGED answer
     \/ /\ run.verdict.decision = "APPROVE"
        /\ ~NeedsRevision
        /\ Stop("READY_FOR_HUMAN")
  /\ UNCHANGED <<base, budget, approved, world>>

-----------------------------------------------------------------------------
\* A node raises what it does not expect: the caller gets the initial state.
GraphRaises ==
  /\ stage # "end"
  /\ GoTo("end", "enter")
  /\ run' = [Fresh EXCEPT !.decision = "HUMAN_REVIEW"]
  /\ UNCHANGED <<answer, base, budget, approved, world>>

-----------------------------------------------------------------------------
(***************************************************************************)
(* Outsiders: stray processes, commands and agents that write, a colleague *)
(***************************************************************************)

Meddle ==
  /\ stage # "end"
  /\ mischief < MaxMischief
  /\ mischief' = mischief + 1
  /\ UNCHANGED <<stage, gate, answer, run, base, budget, approved>>

\* An outsider writes to a path, perhaps what was there before.
Overwrite(p, version) ==
  /\ Meddle
  /\ tree' = [tree EXCEPT ![p] = version]
  /\ undone' = (undone \/ (At("implementer", "digest") /\ ChangedIn(tree') = {}))
  /\ UNCHANGED head

Scribble(p) == Overwrite(p, Foreign)

\* The implementer's work on a path is taken back.
PutBack(p) ==
  /\ tree[p] \in Drafts
  /\ Overwrite(p, IF base.snapshot[p] = NULL THEN Clean ELSE base.snapshot[p])

MoveHead ==
  /\ Meddle
  /\ head = "base"
  /\ head' \in {"same", "other"}
  /\ UNCHANGED <<tree, undone>>

-----------------------------------------------------------------------------
Preflight == ReadDirty \/ TakeSnapshot \/ ReadBaseDigest \/ ReadBaseHead

Gate == Enter \/ GateHead \/ GateChanged \/ GateRefuses \/ Proceed

Continue == Planned \/ Implemented \/ Verified \/ Reviewed \/ Decide

AgentReturns == PlannerReturns \/ ImplementerReturns \/ ReviewerReturns

Command == CloseOutput \/ \E ok \in BOOLEAN : Finish(ok)

Outsiders == MoveHead \/ \E p \in Paths : Scribble(p) \/ PutBack(p)

DevLoopNext ==
  \/ Preflight
  \/ Gate
  \/ Continue
  \/ StartCommand
  \/ TimeOut
  \/ AgentReturns
  \/ Command
  \/ PreflightFails \/ GateFails \/ GraphRaises
  \/ \E p \in Paths, v \in Drafts \cup {Clean} : ImplementerWrites(p, v)
  \/ Outsiders
  \/ stage = "end" /\ UNCHANGED vars

DevLoopSpec == DevLoopInit /\ [][DevLoopNext]_vars

\* The loop runs on, callbacks return, and deadlines pass.  A command need
\* never end.
DevLoopFairness ==
  /\ WF_vars(Preflight \/ Gate \/ Continue \/ StartCommand)
  /\ WF_vars(AgentReturns)
  /\ WF_vars(TimeOut)

FairDevLoopSpec == DevLoopSpec /\ DevLoopFairness

-----------------------------------------------------------------------------
(***************************************************************************)
(* Properties                                                              *)
(***************************************************************************)

\* READY_FOR_HUMAN names one worktree: every command passed on it, the
\* reviewer approved it, on the commit of preflight, and its changes are
\* allowed ones, whoever wrote or moved HEAD between any two reads of the
\* gates.  There is a change, unless it was taken back between the two reads
\* of the implementer's gate (_repository_gate, _verify, _reviewer, _decide).
ReadySound ==
  run.decision = "READY_FOR_HUMAN" =>
    LET ready == run.digest.tree
    IN /\ approved = <<ready, base.head>>
       /\ Len(run.receipts) = Commands
       /\ \A i \in 1..Commands : run.receipts[i] = [ok |-> TRUE, on |-> ready]
       /\ ChangedIn(ready) \subseteq Allowed
       /\ ChangedIn(ready) # {} \/ undone
       /\ run.verdict = [decision |-> "APPROVE", serious |-> FALSE]

\* A round that begins has the calls for its implementer and its reviewer:
\* no implementation is ever left without a review because the budget ends,
\* and the budget's guards in those nodes never fire (_decide).
RoundsAffordable ==
  /\ run.calls <= budget[2]
  /\ run.round <= budget[1]
  /\ At("implementer", "enter") => run.calls + 2 <= budget[2]
  /\ At("reviewer", "enter") => run.calls + 1 <= budget[2]

\* The loop ends, whatever agents answer and outsiders do, unless a command
\* that has closed its output runs on for ever (_run_bounded_command).
Terminates == <>(stage = "end") \/ <>[](gate.at = "silent")

=============================================================================
