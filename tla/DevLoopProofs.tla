---------------------------- MODULE DevLoopProofs ----------------------------
(***************************************************************************)
(* Proofs that, for any worktree, commands, budgets and outsiders, a round *)
(* that begins can pay its review, READY_FOR_HUMAN names one worktree, and *)
(* the steps that the loop has left become fewer with each of them.        *)
(***************************************************************************)
EXTENDS DevLoop, TLAPS

\* The steps of each stage.
StepsOf(s) ==
  CASE s = "preflight" -> {"dirty", "snapshot", "base digest", "base head"}
    [] s = "verify" -> {"head", "changed", "digest", "start", "open", "silent"}
    [] s \in {"decide", "end"} -> {"enter"}
    [] OTHER -> {"enter", "head", "changed", "digest", "call"}

\* The loop is at a step of its stage, and only a gate is ever the second.
Placed ==
  /\ gate.at \in StepsOf(stage)
  /\ gate.after => gate.at \in {"head", "changed", "digest"}

TypeInv ==
  /\ DevLoopTypeOK
  /\ Placed
  /\ stage = "preflight" => \A p \in Paths : tree[p] \notin Drafts
  /\ gate.at \in {"open", "silent"} => Len(run.receipts) > 0

-----------------------------------------------------------------------------
(* Types.                                                                  *)

GateType == [at : Steps, after : BOOLEAN, ok : BOOLEAN, changed : SUBSET Paths]

Decisions == {"IN_PROGRESS", "READY_FOR_HUMAN", "BLOCKED", "HUMAN_REVIEW"}

\* What the loop keeps of the types when it goes to a step of a stage.
LEMMA GoToType ==
  ASSUME NEW s \in Stages, NEW step \in StepsOf(s), GoTo(s, step)
  PROVE  /\ stage' = s /\ gate' \in GateType /\ gate'.at = step
         /\ gate'.after = FALSE /\ Placed'
<1>1. StepsOf(s) \subseteq Steps BY DEF StepsOf, Steps, Stages
<1> QED BY <1>1 DEF GoTo, GateType, Placed

\* A run with a decision is a run.
LEMMA RunDecided ==
  ASSUME run \in Run, NEW d \in Decisions
  PROVE  [run EXCEPT !.decision = d] \in Run
BY DEF Run, Decisions

\* The run before its preflight, and the one whose preflight failed.
LEMMA FreshType ==
  /\ Fresh \in Run
  /\ [Fresh EXCEPT !.decision = "HUMAN_REVIEW"] \in Run
<1>1. <<>> \in Seq(Receipt) OBVIOUS
<1>2. Fresh \in Run BY <1>1 DEF Fresh, Run
<1> QED BY <1>2 DEF Run

\* A digest of the worktree as it is.
LEMMA DigestType ==
  ASSUME DevLoopTypeOK
  PROVE  worktree_diff_digest \in Digest /\ worktree_diff_digest.tree = tree
BY DEF DevLoopTypeOK, worktree_diff_digest, Digest

\* A step that only moves the loop.
LEMMA TypeMoves ==
  ASSUME TypeInv, NEW s \in Stages \ {"preflight"}, NEW step \in StepsOf(s),
         GoTo(s, step), step \notin {"open", "silent"},
         run' \in Run, answer' \in Answer \cup {NULL},
         UNCHANGED <<base, budget, approved, world>>
  PROVE  TypeInv'
BY GoToType DEF TypeInv, DevLoopTypeOK, GateType, world

\* A step that goes on within a stage.
LEMMA TypeStays ==
  ASSUME TypeInv, NEW g \in GateType, gate' = g, UNCHANGED stage,
         g.at \in StepsOf(stage),
         g.after => g.at \in {"head", "changed", "digest"},
         g.at \in {"open", "silent"} => Len(run'.receipts) > 0,
         run' \in Run, answer' \in Answer \cup {NULL},
         approved' \in (Tree \X Heads) \cup {NULL},
         UNCHANGED <<base, budget, world>>
  PROVE  TypeInv'
BY DEF TypeInv, DevLoopTypeOK, GateType, world, Placed

\* A step that ends the loop.
LEMMA TypeStops ==
  ASSUME TypeInv, NEW d \in Decisions, Stop(d),
         UNCHANGED <<base, budget, approved, world>>
  PROVE  TypeInv'
<1>1. run \in Run BY DEF TypeInv, DevLoopTypeOK
<1>2. run' \in Run BY <1>1, RunDecided DEF Stop
<1>3. "end" \in Stages \ {"preflight"} /\ "enter" \in StepsOf("end")
  BY DEF Stages, StepsOf
<1> QED BY <1>2, <1>3, TypeMoves DEF Stop

\* A gate that refuses ends the run.
LEMMA TypeStopsWith ==
  ASSUME TypeInv, NEW d \in Decisions, NEW changed \in SUBSET Paths,
         NEW digest \in Digest \cup {NULL}, StopWith(d, changed, digest),
         UNCHANGED <<base, budget, approved, world>>
  PROVE  TypeInv'
<1>1. run \in Run BY DEF TypeInv, DevLoopTypeOK
<1>2. run' \in Run BY <1>1 DEF StopWith, Run, Decisions
<1>3. "end" \in Stages \ {"preflight"} /\ "enter" \in StepsOf("end")
  BY DEF Stages, StepsOf
<1> QED BY <1>2, <1>3, TypeMoves DEF StopWith

-----------------------------------------------------------------------------
(* Types, action by action.                                                *)

\* The steps of preflight are well typed.
LEMMA PreflightTypeStep ==
  ASSUME TypeInv, Preflight \/ PreflightFails
  PROVE  TypeInv'
<1>1. /\ run \in Run /\ answer \in Answer \cup {NULL} /\ gate \in GateType
      /\ tree \in Tree /\ head \in Heads
      /\ base \in [snapshot : [Paths -> (Versions \ Drafts) \cup {NULL}],
                   head : Heads]
  BY DEF TypeInv, DevLoopTypeOK, GateType
<1>2. CASE ReadDirty
  <2>1. CASE ~(dirty_paths \subseteq Expected)
    BY <1>2, <2>1, TypeStops DEF ReadDirty, Decisions
  <2>2. CASE dirty_paths \subseteq Expected
    <3> DEFINE g == [gate EXCEPT !.at = "snapshot", !.changed = dirty_paths]
    <3>1. g \in GateType /\ g.at = "snapshot" /\ g.after = gate.after
      BY <1>1 DEF GateType, Steps, dirty_paths
    <3>2. gate' = g /\ stage = "preflight" /\ gate.at = "dirty"
      BY <1>2, <2>2 DEF ReadDirty, At
    <3> HIDE DEF g
    <3>3. g.at \in StepsOf(stage) /\ ~g.after
      BY <3>1, <3>2 DEF StepsOf, TypeInv, Placed
    <3> QED BY <1>1, <1>2, <2>2, <3>1, <3>2, <3>3, TypeStays
            DEF ReadDirty, TypeInv, DevLoopTypeOK
  <2> QED BY <2>1, <2>2
<1>3. CASE TakeSnapshot
  <2> DEFINE s == [p \in Paths |-> IF p \in gate.changed THEN tree[p] ELSE NULL]
  <2>1. stage = "preflight" /\ base' = [base EXCEPT !.snapshot = s]
    BY <1>3 DEF TakeSnapshot, At
  <2>2. \A p \in Paths : tree[p] \in Versions \ Drafts
    BY <1>1, <2>1 DEF TypeInv, Tree
  <2>3. s \in [Paths -> (Versions \ Drafts) \cup {NULL}] BY <2>2
  <2> HIDE DEF s
  <2>4. base' \in [snapshot : [Paths -> (Versions \ Drafts) \cup {NULL}],
                   head : Heads]
    BY <1>1, <2>1, <2>3
  <2>5. "preflight" \in Stages /\ "base digest" \in StepsOf("preflight")
    BY DEF Stages, StepsOf
  <2>6. GoTo("preflight", "base digest") BY <1>3 DEF TakeSnapshot
  <2>7. UNCHANGED <<run, answer, budget, approved, world>>
    BY <1>3 DEF TakeSnapshot
  <2> QED BY <2>1, <2>4, <2>5, <2>6, <2>7, GoToType
          DEF TypeInv, DevLoopTypeOK, GateType, world
<1>4. CASE ReadBaseDigest
  <2>1. "preflight" \in Stages /\ "base digest" \in StepsOf("preflight")
        /\ "base head" \in StepsOf("preflight")
    BY DEF Stages, StepsOf
  <2>2. run' = [run EXCEPT !.digest = worktree_diff_digest]
    BY <1>4 DEF ReadBaseDigest
  <2>3. worktree_diff_digest \in Digest BY DigestType DEF TypeInv
  <2>4. run' \in Run BY <1>1, <2>2, <2>3 DEF Run
  <2>5. /\ stage = "preflight" /\ GoTo("preflight", "base head")
        /\ UNCHANGED <<base, answer, budget, approved, world>>
    BY <1>4 DEF ReadBaseDigest, At
  <2> QED BY <2>1, <2>4, <2>5, GoToType
          DEF TypeInv, DevLoopTypeOK, GateType, world
<1>5. CASE ReadBaseHead
  <2>1. "planner" \in Stages /\ "enter" \in StepsOf("planner")
    BY DEF Stages, StepsOf
  <2>2. base' = [base EXCEPT !.head = head] BY <1>5 DEF ReadBaseHead
  <2>3. base' \in [snapshot : [Paths -> (Versions \ Drafts) \cup {NULL}],
                   head : Heads]
    BY <1>1, <2>2
  <2>4. /\ GoTo("planner", "enter")
        /\ UNCHANGED <<run, answer, budget, approved, world>>
    BY <1>5 DEF ReadBaseHead
  <2> QED BY <2>1, <2>3, <2>4, GoToType
          DEF TypeInv, DevLoopTypeOK, GateType, world
<1>6. CASE PreflightFails
  <2>1. "end" \in Stages \ {"preflight"} /\ "enter" \in StepsOf("end")
    BY DEF Stages, StepsOf
  <2>2. run' = [run EXCEPT !.decision = "HUMAN_REVIEW", !.digest = NULL]
    BY <1>6 DEF PreflightFails
  <2>3. run' \in Run BY <1>1, <2>2 DEF Run
  <2> QED BY <1>1, <1>6, <2>1, <2>3, TypeMoves DEF PreflightFails
<1> QED BY <1>2, <1>3, <1>4, <1>5, <1>6 DEF Preflight

\* Where the reads of a gate lead.
LEMMA GateSteps ==
  ASSUME TypeInv
  PROVE  /\ gate.at \in {"head", "changed", "digest"} =>
              /\ stage \in {"planner", "implementer", "verify", "reviewer"}
              /\ {"head", "changed", "digest"} \subseteq StepsOf(stage)
         /\ gate.at = "call" =>
              /\ stage \in {"planner", "implementer", "reviewer"}
              /\ {"head", "changed", "digest"} \subseteq StepsOf(stage)
         /\ gate.at \in {"start", "open", "silent"} => stage = "verify"
BY DEF TypeInv, DevLoopTypeOK, Placed, StepsOf, Stages

\* So are those of the gate,
LEMMA GateTypeStep ==
  ASSUME TypeInv, Gate \/ GateFails
  PROVE  TypeInv'
<1>1. /\ run \in Run /\ answer \in Answer \cup {NULL} /\ gate \in GateType
      /\ stage \in Stages /\ approved \in (Tree \X Heads) \cup {NULL}
  BY DEF TypeInv, DevLoopTypeOK, GateType
<1>2. CASE Enter
  <2>1. stage \in Stages \ {"preflight"} /\ "head" \in StepsOf(stage)
    BY <1>2 DEF Enter, Stages, StepsOf
  <2> QED BY <1>1, <1>2, <2>1, TypeStops, TypeMoves DEF Enter, Decisions
<1>3. CASE GateHead
  <2>1. PICK ok \in BOOLEAN : gate' = [gate EXCEPT !.at = "changed", !.ok = ok]
    BY <1>3 DEF GateHead
  <2>2. /\ gate' \in GateType /\ gate'.at = "changed"
    BY <1>1, <2>1 DEF GateType, Steps
  <2> QED BY <1>1, <1>3, <2>2, GateSteps, TypeStays DEF GateHead
<1>4. CASE GateChanged
  <2>1. PICK ok \in BOOLEAN :
          gate' = [gate EXCEPT !.at = "digest", !.changed = ChangedIn(tree),
                               !.ok = ok]
    BY <1>1, <1>4 DEF GateChanged, GateType
  <2>2. /\ gate' \in GateType /\ gate'.at = "digest"
    BY <1>1, <2>1 DEF GateType, Steps, ChangedIn
  <2> QED BY <1>1, <1>4, <2>2, GateSteps, TypeStays DEF GateChanged
<1>5. CASE GateRefuses \/ GateFails
  <2>1. worktree_diff_digest \in Digest BY DigestType DEF TypeInv
  <2>2. gate.changed \in SUBSET Paths BY <1>1 DEF GateType
  <2> QED BY <1>5, <2>1, <2>2, TypeStopsWith
          DEF GateRefuses, GateFails, Decisions
<1>6. CASE Proceed
  <2>1. stage \in {"planner", "implementer", "verify", "reviewer"}
    BY <1>6, GateSteps DEF Proceed, Passed
  <2>2. CASE stage = "verify"
    <3>1. run' = [run EXCEPT !.receipts = <<>>] BY <1>6, <2>2 DEF Proceed
    <3>2. <<>> \in Seq(Receipt) OBVIOUS
    <3>3. run' \in Run BY <1>1, <3>1, <3>2 DEF Run
    <3>4. "verify" \in Stages \ {"preflight"} /\ "start" \in StepsOf("verify")
      BY DEF Stages, StepsOf
    <3> QED BY <1>1, <1>6, <2>2, <3>3, <3>4, TypeMoves DEF Proceed
  <2>3. CASE stage # "verify"
    <3>1. stage \in Stages \ {"preflight"} /\ "call" \in StepsOf(stage)
      BY <2>1, <2>3 DEF Stages, StepsOf
    <3> QED BY <1>1, <1>6, <2>3, <3>1, TypeMoves DEF Proceed
  <2> QED BY <2>2, <2>3
<1> QED BY <1>2, <1>3, <1>4, <1>5, <1>6 DEF Gate

\* What is left of a gate is its second pass.
LEMMA RecheckType ==
  ASSUME TypeInv, gate.at \in {"call", "open", "silent"}, Recheck
  PROVE  /\ gate' \in GateType /\ gate'.at = "head" /\ gate'.after = TRUE
         /\ "head" \in StepsOf(stage)
<1>1. gate \in GateType BY DEF TypeInv, DevLoopTypeOK, GateType
<1>2. gate' \in GateType /\ gate'.at = "head" /\ gate'.after = TRUE
  BY <1>1 DEF Recheck, GateType, Steps
<1> QED BY <1>2, GateSteps DEF StepsOf

\* what a callback returns,
LEMMA ReturnTypeStep ==
  ASSUME TypeInv, NEW value \in Answer, Return(value)
  PROVE  TypeInv'
<1>1. /\ run \in Run /\ tree \in Tree /\ head \in Heads
      /\ approved \in (Tree \X Heads) \cup {NULL}
  BY DEF TypeInv, DevLoopTypeOK
<1>2. run' = [run EXCEPT !.calls = run.calls + 1] BY DEF Return
<1>3. run' \in Run BY <1>1, <1>2 DEF Run
<1>4. approved' \in (Tree \X Heads) \cup {NULL} BY <1>1 DEF Return
<1>5. /\ gate' \in GateType /\ gate'.at = "head" /\ "head" \in StepsOf(stage)
  BY RecheckType DEF Return
<1> QED BY <1>3, <1>4, <1>5, TypeStays DEF Return

\* the agents' answers,
LEMMA AgentTypeStep ==
  ASSUME TypeInv, AgentReturns
  PROVE  TypeInv'
<1>1. PICK value \in Answer : Return(value)
  BY DEF AgentReturns, PlannerReturns, ImplementerReturns, ReviewerReturns,
     Status, Answer
<1> QED BY <1>1, ReturnTypeStep

\* what the nodes do with them,
LEMMA ContinueTypeStep ==
  ASSUME TypeInv, Continue
  PROVE  TypeInv'
<1>1. run \in Run /\ answer \in Answer \cup {NULL} /\ gate \in GateType
  BY DEF TypeInv, DevLoopTypeOK, GateType
<1>2. /\ {"implementer", "verify", "reviewer", "decide", "end"}
           \subseteq Stages \ {"preflight"}
      /\ "enter" \in StepsOf("implementer") /\ "enter" \in StepsOf("reviewer")
      /\ "enter" \in StepsOf("decide") /\ "enter" \in StepsOf("end")
      /\ "head" \in StepsOf("verify") /\ "start" \in StepsOf("verify")
  BY DEF Stages, StepsOf
<1>3. CASE Planned
  <2>1. gate.changed \in SUBSET Paths /\ run.digest \in Digest \cup {NULL}
    BY <1>1 DEF GateType, Run
  <2>2. CASE StopWith("HUMAN_REVIEW", gate.changed, run.digest)
    BY <1>3, <2>1, <2>2, TypeStopsWith DEF Planned, Decisions
  <2>3. CASE Stop("HUMAN_REVIEW")
    BY <1>3, <2>3, TypeStops DEF Planned, Decisions
  <2>4. CASE GoTo("implementer", "enter") /\ answer' = NULL /\ UNCHANGED run
    BY <1>1, <1>2, <1>3, <2>4, TypeMoves DEF Planned
  <2> QED BY <1>3, <2>2, <2>3, <2>4 DEF Planned
<1>4. CASE Implemented
  <2> DEFINE read == [run EXCEPT !.changed = gate.changed,
                                 !.previous = run.digest,
                                 !.digest = worktree_diff_digest]
  <2>1. worktree_diff_digest \in Digest BY DigestType DEF TypeInv
  <2>2. read \in Run BY <1>1, <2>1 DEF Run, GateType
  <2>3. CASE run' = read /\ GoTo("verify", "head")
    <3> HIDE DEF read
    <3> QED BY <1>1, <1>2, <1>4, <2>2, <2>3, TypeMoves DEF Implemented
  <2>4. CASE ~(run' = read /\ GoTo("verify", "head"))
    <3>1. PICK d \in Decisions :
            run' = [read EXCEPT !.decision = d] /\ GoTo("end", "enter")
      BY <1>4, <2>4 DEF Implemented, Decisions
    <3> HIDE DEF read
    <3>2. run' \in Run BY <2>2, <3>1 DEF Run, Decisions
    <3> QED BY <1>1, <1>2, <1>4, <3>1, <3>2, TypeMoves DEF Implemented
  <2> QED BY <2>3, <2>4
<1>5. CASE Verified BY <1>1, <1>2, <1>5, TypeMoves DEF Verified
<1>6. CASE Reviewed
  <2>1. CASE answer \in Verdict
    <3>1. run' = [run EXCEPT !.verdict = answer] BY <1>6, <2>1 DEF Reviewed
    <3>2. run' \in Run BY <1>1, <2>1, <3>1 DEF Run
    <3> QED BY <1>2, <1>6, <2>1, <3>2, TypeMoves DEF Reviewed
  <2>2. CASE answer \notin Verdict
    <3>1. gate.changed \in SUBSET Paths /\ run.digest \in Digest \cup {NULL}
      BY <1>1 DEF GateType, Run
    <3> QED BY <1>6, <2>2, <3>1, TypeStopsWith DEF Reviewed, Decisions
  <2> QED BY <2>1, <2>2
<1>7. CASE Decide
  <2>1. CASE \E d \in Decisions : Stop(d)
    BY <1>7, <2>1, TypeStops DEF Decide
  <2>2. CASE /\ run' = [run EXCEPT !.round = @ + 1]
             /\ GoTo("implementer", "enter") /\ UNCHANGED answer
    <3>1. run' \in Run BY <1>1, <2>2 DEF Run
    <3> QED BY <1>1, <1>2, <1>7, <2>2, <3>1, TypeMoves DEF Decide
  <2> QED BY <1>7, <2>1, <2>2 DEF Decide, Decisions
<1> QED BY <1>3, <1>4, <1>5, <1>6, <1>7 DEF Continue

\* the acceptance commands,
LEMMA CommandTypeStep ==
  ASSUME TypeInv, StartCommand \/ TimeOut \/ Command
  PROVE  TypeInv'
<1>1. /\ run \in Run /\ answer \in Answer \cup {NULL} /\ gate \in GateType
      /\ tree \in Tree /\ approved \in (Tree \X Heads) \cup {NULL}
      /\ run.receipts \in Seq(Receipt)
  BY DEF TypeInv, DevLoopTypeOK, GateType, Run
<1>2. {"open", "silent"} \subseteq StepsOf("verify") BY DEF StepsOf
<1>3. CASE StartCommand
  <2> DEFINE more == Append(run.receipts, [ok |-> FALSE, on |-> tree])
  <2>1. more \in Seq(Receipt) /\ Len(more) > 0 BY <1>1 DEF Receipt
  <2>2. run' = [run EXCEPT !.receipts = more] BY <1>3 DEF StartCommand
  <2> HIDE DEF more
  <2>3. run' \in Run /\ run'.receipts = more BY <1>1, <2>1, <2>2 DEF Run
  <2>4. stage = "verify" BY <1>3, GateSteps DEF StartCommand
  <2>5. gate' = [gate EXCEPT !.at = "open"] BY <1>3 DEF StartCommand
  <2>6. gate' \in GateType /\ gate'.at = "open" /\ gate'.after = gate.after
    BY <1>1, <2>5 DEF GateType, Steps
  <2>7. ~gate.after BY <1>3 DEF StartCommand, TypeInv, Placed
  <2> QED BY <1>1, <1>2, <1>3, <2>1, <2>3, <2>4, <2>6, <2>7, TypeStays
          DEF StartCommand
<1>4. CASE TimeOut
  BY <1>1, <1>4, RecheckType, TypeStays DEF TimeOut
<1>5. CASE CloseOutput
  <2>1. stage = "verify" /\ ~gate.after /\ Len(run.receipts) > 0
    BY <1>5, GateSteps DEF CloseOutput, TypeInv, Placed
  <2>2. gate' = [gate EXCEPT !.at = "silent"] BY <1>5 DEF CloseOutput
  <2>3. gate' \in GateType /\ gate'.at = "silent" /\ gate'.after = gate.after
    BY <1>1, <2>2 DEF GateType, Steps
  <2> QED BY <1>1, <1>2, <1>5, <2>1, <2>3, TypeStays DEF CloseOutput
<1>6. ASSUME NEW ok \in BOOLEAN, Finish(ok) PROVE TypeInv'
  <2> DEFINE n == Len(run.receipts)
             done == [run.receipts EXCEPT ![n] =
                        [run.receipts[n] EXCEPT !.ok = ok]]
  <2>1. n \in 1..Len(run.receipts) BY <1>1, <1>6 DEF Finish, TypeInv
  <2>2. [run.receipts[n] EXCEPT !.ok = ok] \in Receipt
    <3>1. run.receipts[n] \in Receipt BY <1>1, <2>1
    <3> QED BY <3>1 DEF Receipt
  <2>3. done \in Seq(Receipt) BY <1>1, <2>1, <2>2
  <2>4. run' = [run EXCEPT !.receipts = done] BY <1>6 DEF Finish
  <2> HIDE DEF done
  <2>5. run' \in Run BY <1>1, <2>3, <2>4 DEF Run
  <2> QED BY <1>1, <1>6, <2>5, RecheckType, TypeStays DEF Finish
<1> QED BY <1>3, <1>4, <1>5, <1>6 DEF Command

\* and the implementer's writes and the outsiders' deeds.
LEMMA WorldTypeStep ==
  ASSUME TypeInv,
         \/ Outsiders
         \/ \E p \in Paths, v \in Drafts \cup {Clean} : ImplementerWrites(p, v)
  PROVE  TypeInv'
<1>1. /\ tree \in Tree /\ mischief \in 0..MaxMischief /\ MaxMischief \in Nat
      /\ base.snapshot \in [Paths -> (Versions \ Drafts) \cup {NULL}]
  BY DevLoopAssumption DEF TypeInv, DevLoopTypeOK
<1>2. ASSUME NEW p \in Paths, NEW v \in Drafts \cup {Clean},
             ImplementerWrites(p, v)
      PROVE  TypeInv'
  <2>1. tree' \in Tree BY <1>1, <1>2 DEF ImplementerWrites, Tree, Versions
  <2>2. stage = "implementer" BY <1>2 DEF ImplementerWrites, At
  <2> QED BY <1>2, <2>1, <2>2
          DEF ImplementerWrites, TypeInv, DevLoopTypeOK, Placed
<1>3. ASSUME NEW p \in Paths, NEW v \in Versions \ Drafts, Overwrite(p, v)
      PROVE  TypeInv'
  <2>1. /\ tree' \in Tree /\ \A q \in Paths : tree'[q] \in {tree[q], v}
    BY <1>1, <1>3 DEF Overwrite, Tree
  <2>2. mischief' \in 0..MaxMischief BY <1>1, <1>3 DEF Overwrite, Meddle
  <2>3. undone' \in BOOLEAN BY <1>3 DEF Overwrite, TypeInv, DevLoopTypeOK
  <2>4. UNCHANGED <<stage, gate, answer, run, base, budget, approved, head>>
    BY <1>3 DEF Overwrite, Meddle
  <2> QED BY <2>1, <2>2, <2>3, <2>4 DEF TypeInv, DevLoopTypeOK, Placed
<1>4. ASSUME NEW p \in Paths, Scribble(p) PROVE TypeInv'
  BY <1>3, <1>4, VersionsAssumption DEF Scribble, Versions
<1>5. ASSUME NEW p \in Paths, PutBack(p) PROVE TypeInv'
  <2>1. (IF base.snapshot[p] = NULL THEN Clean ELSE base.snapshot[p])
           \in Versions \ Drafts
    BY <1>1, VersionsAssumption DEF Versions
  <2> QED BY <1>3, <1>5, <2>1 DEF PutBack
<1>6. CASE MoveHead
  <2>1. mischief' \in 0..MaxMischief BY <1>1, <1>6 DEF MoveHead, Meddle
  <2>2. head' \in Heads BY <1>6 DEF MoveHead, Heads
  <2>3. UNCHANGED <<stage, gate, answer, run, base, budget, approved, tree,
                    undone>>
    BY <1>6 DEF MoveHead, Meddle
  <2> QED BY <2>1, <2>2, <2>3 DEF TypeInv, DevLoopTypeOK, Placed
<1> QED BY <1>2, <1>4, <1>5, <1>6 DEF Outsiders

\* Type correctness, and that the loop is at a step of its stage.
THEOREM TypeInvCorrect == DevLoopSpec => []TypeInv
<1>1. DevLoopInit => TypeInv
  <2> SUFFICES ASSUME DevLoopInit PROVE TypeInv
    OBVIOUS
  <2>1. run \in Run BY FreshType DEF DevLoopInit
  <2>2. base \in [snapshot : [Paths -> (Versions \ Drafts) \cup {NULL}],
                  head : Heads]
    BY DEF DevLoopInit, Heads
  <2>3. tree \in Tree /\ \A p \in Paths : tree[p] \notin Drafts
    BY VersionsAssumption DEF DevLoopInit, Tree, Versions
  <2>4. gate \in GateType /\ Placed /\ gate.at = "dirty"
    BY DEF DevLoopInit, GateType, Steps, Placed, StepsOf
  <2>5. mischief \in 0..MaxMischief BY DevLoopAssumption DEF DevLoopInit
  <2> QED BY <2>1, <2>2, <2>3, <2>4, <2>5
          DEF DevLoopInit, TypeInv, DevLoopTypeOK, GateType, Stages, Heads
<1>2. TypeInv /\ [DevLoopNext]_vars => TypeInv'
  <2> SUFFICES ASSUME TypeInv, [DevLoopNext]_vars PROVE TypeInv'
    OBVIOUS
  <2>1. CASE UNCHANGED vars
    BY <2>1 DEF vars, TypeInv, DevLoopTypeOK, Placed
  <2>2. CASE GraphRaises
    <3>1. "end" \in Stages \ {"preflight"} /\ "enter" \in StepsOf("end")
      BY DEF Stages, StepsOf
    <3> QED BY <2>2, <3>1, FreshType, TypeMoves
            DEF GraphRaises, TypeInv, DevLoopTypeOK
  <2> QED BY <2>1, <2>2, PreflightTypeStep, GateTypeStep, ContinueTypeStep,
             CommandTypeStep, AgentTypeStep, WorldTypeStep
          DEF DevLoopNext
<1> QED BY <1>1, <1>2, PTL DEF DevLoopSpec

\* Every reachable state is well typed.
THEOREM DevLoopTypeCorrect == DevLoopSpec => []DevLoopTypeOK
<1>1. TypeInv => DevLoopTypeOK BY DEF TypeInv
<1> QED BY <1>1, TypeInvCorrect, PTL

-----------------------------------------------------------------------------
(* The budget.                                                             *)

\* The calls that the round still owes.
Owed ==
  CASE stage = "implementer" -> IF gate.after THEN 1 ELSE 2
    [] stage = "verify" -> 1
    [] stage = "reviewer" -> IF gate.after THEN 0 ELSE 1
    [] OTHER -> 0

Affordable ==
  /\ run.calls + Owed <= budget[2]
  /\ run.round <= budget[1]
  /\ stage = "preflight" => run.calls = 0
  /\ stage = "planner" => run.calls = IF gate.after THEN 1 ELSE 0

\* What the budget is.
LEMMA BudgetType ==
  ASSUME TypeInv
  PROVE  /\ budget[1] \in Nat /\ budget[1] >= 1
         /\ budget[2] \in Nat /\ budget[2] >= 3
         /\ run.calls \in Nat /\ run.round \in Nat /\ run \in Run
         /\ gate \in GateType
<1>1. budget \in (1..20) \X (3..100)
  BY DevLoopAssumption DEF TypeInv, DevLoopTypeOK
<1>2. budget[1] \in 1..20 /\ budget[2] \in 3..100 BY <1>1
<1>3. run \in Run /\ gate \in GateType
  BY DEF TypeInv, DevLoopTypeOK, GateType
<1>4. run.calls \in Nat /\ run.round \in Nat BY <1>3 DEF Run
<1>5. /\ budget[1] \in Nat /\ budget[1] >= 1
      /\ budget[2] \in Nat /\ budget[2] >= 3
  BY <1>2
<1> QED BY <1>3, <1>4, <1>5

\* A step that spends nothing, and owes no more.
LEMMA BudgetKept ==
  ASSUME TypeInv, Affordable, UNCHANGED budget,
         run'.calls = run.calls, run'.round = run.round,
         Owed' \in Nat, Owed' <= Owed,
         stage' = "preflight" => stage = "preflight",
         stage' = "planner" =>
           \/ stage = "planner" /\ gate'.after = gate.after
           \/ stage = "preflight" /\ ~gate'.after
  PROVE  Affordable'
<1>1. Owed \in Nat BY DEF Owed
<1> QED BY <1>1, BudgetType DEF Affordable

\* When the loop ends, and when it only goes on within a stage.
LEMMA BudgetEnds ==
  ASSUME TypeInv, Affordable, UNCHANGED budget, GoTo("end", "enter"),
         \/ run'.calls = run.calls /\ run'.round = run.round
         \/ run'.calls = 0 /\ run'.round = 1
  PROVE  Affordable'
<1>1. stage' = "end" /\ Owed' = 0 BY DEF GoTo, Owed
<1>2. Owed \in Nat BY DEF Owed
<1> QED BY <1>1, <1>2, BudgetType DEF Affordable

\* A step that leaves stage, round and calls alone owes no more.
LEMMA BudgetStays ==
  ASSUME TypeInv, Affordable, UNCHANGED <<budget, stage>>,
         gate'.after = gate.after,
         run'.calls = run.calls, run'.round = run.round
  PROVE  Affordable'
BY DEF Affordable, Owed

\* No step begins what its budget cannot pay for.
LEMMA AffordableStep ==
  ASSUME TypeInv, Affordable, [DevLoopNext]_vars
  PROVE  Affordable'
<1>0. run \in Run /\ gate \in GateType BY BudgetType
<1>1. CASE UNCHANGED vars BY <1>1 DEF vars, Affordable, Owed
<1>2. ASSUME NEW d, Stop(d), UNCHANGED budget PROVE Affordable'
  <2>1. run'.calls = run.calls /\ run'.round = run.round
    BY <1>0, <1>2 DEF Stop, Run
  <2> QED BY <1>2, <2>1, BudgetEnds DEF Stop
<1>a. ASSUME NEW d, NEW changed, NEW digest, StopWith(d, changed, digest),
             UNCHANGED budget
      PROVE  Affordable'
  <2>1. run'.calls = run.calls /\ run'.round = run.round
    BY <1>0, <1>a DEF StopWith, Run
  <2> QED BY <1>a, <2>1, BudgetEnds DEF StopWith
<1>3. CASE Preflight
  <2>1. /\ run'.calls = run.calls /\ run'.round = run.round
    BY <1>0, <1>3
       DEF Preflight, ReadDirty, TakeSnapshot, ReadBaseDigest, ReadBaseHead,
       Stop, Run
  <2>2. \/ /\ gate' = [gate EXCEPT !.at = "snapshot", !.changed = dirty_paths]
           /\ UNCHANGED stage
        \/ \E d : Stop(d)
        \/ stage' \in {"preflight", "planner"} /\ ~gate'.after
    <3>1. CASE ReadDirty BY <3>1 DEF ReadDirty
    <3>2. CASE TakeSnapshot BY <3>2 DEF TakeSnapshot, GoTo
    <3>3. CASE ReadBaseDigest BY <3>3 DEF ReadBaseDigest, GoTo
    <3>4. CASE ReadBaseHead BY <3>4 DEF ReadBaseHead, GoTo
    <3> QED BY <1>3, <3>1, <3>2, <3>3, <3>4 DEF Preflight
  <2>3. UNCHANGED budget /\ stage = "preflight"
    BY <1>3 DEF Preflight, ReadDirty, TakeSnapshot, ReadBaseDigest,
       ReadBaseHead, At
  <2>4. gate' = [gate EXCEPT !.at = "snapshot", !.changed = dirty_paths] =>
          gate'.after = gate.after
    BY <1>0 DEF GateType
  <2>5. stage' \in {"preflight", "planner"} => Owed' = 0 /\ Owed = 0
    BY <2>3 DEF Owed
  <2> QED BY <1>2, <2>1, <2>2, <2>3, <2>4, <2>5, BudgetStays, BudgetKept
<1>4. CASE PreflightFails \/ GateFails \/ GateRefuses \/ GraphRaises
  <2>1. \/ run'.calls = run.calls /\ run'.round = run.round
        \/ run'.calls = 0 /\ run'.round = 1
    BY <1>0, <1>4 DEF PreflightFails, GateFails, GateRefuses, GraphRaises,
       StopWith, Run, Fresh
  <2> QED BY <1>4, <2>1, BudgetEnds
          DEF PreflightFails, GateFails, GateRefuses, GraphRaises, StopWith
<1>5. CASE Enter
  <2>1. CASE run.calls >= budget[2] BY <1>2, <1>5, <2>1 DEF Enter
  <2>2. CASE ~(run.calls >= budget[2])
    <3>1. ~gate.after BY <1>5 DEF Enter, TypeInv, Placed
    <3>2. stage' = stage /\ gate'.after = FALSE /\ UNCHANGED <<run, budget>>
      BY <1>5, <2>2 DEF Enter, GoTo
    <3> QED BY <1>0, <3>1, <3>2, BudgetStays DEF GateType
  <2> QED BY <2>1, <2>2
<1>6. CASE GateHead \/ GateChanged
  BY <1>0, <1>6, BudgetStays DEF GateHead, GateChanged, GateType
<1>7. CASE Proceed
  <2>1. stage' = stage /\ gate'.after = FALSE /\ UNCHANGED budget
    BY <1>7 DEF Proceed, GoTo
  <2>2. run'.calls = run.calls /\ run'.round = run.round
    BY <1>0, <1>7 DEF Proceed, Run
  <2> QED BY <1>0, <1>7, <2>1, <2>2, BudgetStays DEF Proceed, GateType
<1>8. CASE AgentReturns
  <2>1. /\ stage \in {"planner", "implementer", "reviewer"}
        /\ \E value : Return(value)
    BY <1>8 DEF AgentReturns, PlannerReturns, ImplementerReturns,
       ReviewerReturns
  <2>2. /\ run' = [run EXCEPT !.calls = run.calls + 1]
        /\ gate' = [gate EXCEPT !.at = "head", !.after = TRUE]
        /\ UNCHANGED <<stage, budget>> /\ gate.at = "call"
    BY <2>1 DEF Return, Recheck
  <2>3. ~gate.after BY <2>2 DEF TypeInv, Placed
  <2>4. /\ run'.calls = run.calls + 1 /\ run'.round = run.round
        /\ gate'.after
    BY <1>0, <2>2 DEF Run, GateType
  <2> QED BY <2>1, <2>2, <2>3, <2>4, BudgetType DEF Affordable, Owed
<1>9. CASE Planned
  <2>1. CASE answer.decision = "READY"
    <3>1. /\ stage' = "implementer" /\ ~gate'.after /\ gate.after
          /\ stage = "planner" /\ UNCHANGED <<run, budget>>
      BY <1>9, <2>1 DEF Planned, GoTo
    <3> QED BY <3>1, BudgetType DEF Affordable, Owed
  <2> QED BY <1>2, <1>9, <1>a, <2>1 DEF Planned
<1>10. CASE Implemented
  <2>1. run'.calls = run.calls /\ run'.round = run.round
    BY <1>0, <1>10 DEF Implemented, Run
  <2>2. stage' \in {"verify", "end"} /\ UNCHANGED budget
    BY <1>10 DEF Implemented, GoTo
  <2>3. stage = "implementer" /\ gate.after BY <1>10 DEF Implemented
  <2> QED BY <2>1, <2>2, <2>3, BudgetKept DEF Owed
<1>11. CASE Verified
  <2>1. /\ stage' \in {"verify", "reviewer"} /\ ~gate'.after
        /\ UNCHANGED <<run, budget>> /\ stage = "verify"
    BY <1>11 DEF Verified, GoTo
  <2> QED BY <2>1, BudgetKept DEF Owed
<1>12. CASE Reviewed
  <2>1. CASE answer \in Verdict
    <3>1. run' = [run EXCEPT !.verdict = answer] BY <1>12, <2>1 DEF Reviewed
    <3>2. run'.calls = run.calls /\ run'.round = run.round
      BY <1>0, <3>1 DEF Run
    <3>3. /\ stage' = "decide" /\ UNCHANGED budget
          /\ stage = "reviewer" /\ gate.after
      BY <1>12, <2>1 DEF Reviewed, GoTo
    <3> QED BY <3>2, <3>3, BudgetKept DEF Owed
  <2> QED BY <1>12, <1>a, <2>1 DEF Reviewed
<1>13. CASE Decide
  <2>1. CASE \E d : Stop(d) BY <1>2, <1>13, <2>1 DEF Decide
  <2>2. CASE /\ ~Exhausted /\ run' = [run EXCEPT !.round = @ + 1]
             /\ GoTo("implementer", "enter")
    <3>1. run'.calls = run.calls /\ run'.round = run.round + 1
      BY <1>0, <2>2 DEF Run
    <3>2. /\ stage' = "implementer" /\ ~gate'.after /\ UNCHANGED budget
      BY <1>13, <2>2 DEF GoTo, Decide
    <3>3. run.round < budget[1] /\ run.calls + 2 <= budget[2]
      BY <2>2, BudgetType DEF Exhausted
    <3> QED BY <3>1, <3>2, <3>3, BudgetType DEF Affordable, Owed
  <2> QED BY <1>13, <2>1, <2>2 DEF Decide
<1>14. CASE StartCommand \/ TimeOut \/ Command
  <2>1. run'.calls = run.calls /\ run'.round = run.round
    BY <1>0, <1>14 DEF StartCommand, TimeOut, Command, CloseOutput, Finish, Run
  <2>2. UNCHANGED <<stage, budget>>
    BY <1>14 DEF StartCommand, TimeOut, Command, CloseOutput, Finish
  <2>3. stage = "verify"
    BY <1>14, GateSteps DEF StartCommand, TimeOut, Command, CloseOutput, Finish
  <2> QED BY <2>1, <2>2, <2>3, BudgetKept DEF Owed
<1>15. CASE \/ Outsiders
            \/ \E p \in Paths, v \in Drafts \cup {Clean} :
                 ImplementerWrites(p, v)
  BY <1>15, BudgetStays
     DEF Outsiders, ImplementerWrites, Scribble, PutBack, Overwrite, MoveHead,
     Meddle
<1> QED BY <1>1, <1>3, <1>4, <1>5, <1>6, <1>7, <1>8, <1>9, <1>10, <1>11,
           <1>12, <1>13, <1>14, <1>15
        DEF DevLoopNext, Gate, Continue

\* What a round owes can be paid.
LEMMA AffordableCorrect == DevLoopSpec => []Affordable
<1>1. DevLoopInit /\ TypeInv => Affordable
  BY BudgetType DEF DevLoopInit, Fresh, Affordable, Owed
<1> QED BY <1>1, AffordableStep, TypeInvCorrect, PTL DEF DevLoopSpec

\* A round that begins has the calls that it needs, whatever the budget.
THEOREM RoundsAffordableCorrect == DevLoopSpec => []RoundsAffordable
<1>1. TypeInv /\ Affordable => RoundsAffordable
  <2> SUFFICES ASSUME TypeInv, Affordable PROVE RoundsAffordable
    OBVIOUS
  <2>1. Owed \in Nat /\ (gate.at = "enter" => ~gate.after)
    BY DEF Owed, TypeInv, Placed
  <2> QED BY <2>1, BudgetType DEF Affordable, Owed, RoundsAffordable, At
<1> QED BY <1>1, AffordableCorrect, TypeInvCorrect, PTL

-----------------------------------------------------------------------------
(* What READY_FOR_HUMAN names.                                             *)

\* What the version a of a path may be later, if the implementer is idle.
Fades(a, b) == a = b \/ b = Foreign \/ (a \in Drafts /\ b \notin Drafts)

\* What the commit a may be later.
Leads(a, b) == a = b \/ a = "base"

\* The worktree is still the one that the implementer's gate digested.
Same == tree = run.digest.tree

Digested ==
  stage \in {"verify", "reviewer", "decide"} =>
    /\ run.digest \in Digest
    /\ \A p \in Paths : Fades(run.digest.tree[p], tree[p])
    /\ run.changed # {} => ChangedIn(run.digest.tree) # {} \/ undone

\* Between the last two reads of the implementer's gate.
Changing ==
  At("implementer", "digest") /\ gate.after /\ gate.changed # {} =>
    ChangedIn(tree) # {} \/ undone

\* The receipts are of this round.
Judging ==
  \/ stage \in {"reviewer", "decide"}
  \/ stage = "verify" /\ (gate.after \/ gate.at \in {"start", "open", "silent"})

\* If the worktree is still the same, all commands ran on it.
Commanded ==
  Judging =>
    /\ Same => \A i \in DOMAIN run.receipts : run.receipts[i].on = tree
    /\ gate.at = "start" => Len(run.receipts) < Commands
    /\ IF stage = "verify" THEN Len(run.receipts) <= Commands
                           ELSE Len(run.receipts) = Commands

\* If it is still the same at the end of the reviewer's gate, it is what the
\* reviewer saw, and allowed.
Reviewing ==
  stage = "reviewer" /\ gate.after =>
    /\ approved = <<approved[1], approved[2]>>
    /\ Same => approved[1] = tree
    /\ Leads(base.head, approved[2]) /\ Leads(approved[2], head)
    /\ gate.at \in {"changed", "digest"} /\ gate.ok => approved[2] = base.head
    /\ gate.at = "digest" /\ gate.ok /\ Same =>
         ChangedIn(tree) \subseteq Allowed

Heading == stage \notin {"preflight", "end"} => Leads(base.head, head)

Decided ==
  stage = "decide" =>
    /\ approved = <<run.digest.tree, base.head>>
    /\ \A i \in DOMAIN run.receipts : run.receipts[i].on = run.digest.tree
    /\ ChangedIn(run.digest.tree) \subseteq Allowed
    /\ run.verdict \in Verdict

Undecided == stage # "end" => run.decision = "IN_PROGRESS"

ReadyInv ==
  /\ Digested /\ Changing /\ Commanded /\ Reviewing /\ Heading /\ Decided
  /\ Undecided /\ ReadySound

\* Before the end there is nothing to say of READY_FOR_HUMAN.
LEMMA NotReady ==
  ASSUME run.decision # "READY_FOR_HUMAN"
  PROVE  ReadySound
BY DEF ReadySound

\* A worktree that has faded does not come back.
LEMMA NeverBack ==
  ASSUME NEW t \in Tree, NEW u \in Tree, NEW v \in Tree,
         \A p \in Paths : Fades(t[p], u[p]) /\ Fades(u[p], v[p])
  PROVE  /\ \A p \in Paths : Fades(t[p], v[p])
         /\ v = t => u = t
<1>1. Foreign \notin Drafts BY VersionsAssumption
<1>2. \A p \in Paths : Fades(t[p], v[p]) BY <1>1 DEF Fades
<1>3. ASSUME v = t PROVE u = t
  <2>1. \A p \in Paths : u[p] = t[p] BY <1>1, <1>3 DEF Fades
  <2> QED BY <2>1 DEF Tree
<1> QED BY <1>2, <1>3

\* Others act, and the implementer does not write.
LEMMA WorldReady ==
  ASSUME TypeInv, TypeInv', ReadyInv,
         UNCHANGED <<stage, gate, answer, run, base, budget, approved>>,
         stage # "end",
         \A p \in Paths : Fades(tree[p], tree'[p]),
         Leads(head, head'), undone => undone',
         At("implementer", "digest") /\ ChangedIn(tree') = {} =>
           ChangedIn(tree) = {} \/ undone'
  PROVE  ReadyInv'
<1>1. tree \in Tree /\ tree' \in Tree BY DEF TypeInv, DevLoopTypeOK
<1>2. \A t : ChangedIn(t)' = ChangedIn(t) BY DEF ChangedIn
<1>3. CASE stage \in {"verify", "reviewer", "decide"}
  <2>1. run.digest \in Digest /\ run.digest.tree \in Tree
    BY <1>3 DEF ReadyInv, Digested, Digest
  <2>2. /\ \A p \in Paths : Fades(run.digest.tree[p], tree'[p])
        /\ Same' => Same /\ tree' = tree
    BY <1>1, <1>3, <2>1, NeverBack DEF ReadyInv, Digested, Same
  <2>3. Digested' BY <1>2, <2>2 DEF ReadyInv, Digested, ChangedIn
  <2>4. Commanded' BY <2>2 DEF ReadyInv, Commanded, Judging, Same
  <2>5. Reviewing'
    BY <2>2, <1>2 DEF ReadyInv, Reviewing, Leads, Same, ChangedIn
  <2>6. Changing' BY <1>3 DEF Changing, At
  <2>7. Heading' BY DEF ReadyInv, Heading, Leads
  <2>8. Decided' BY DEF ReadyInv, Decided, ChangedIn
  <2>9. Undecided' /\ ReadySound'
    BY NotReady DEF ReadyInv, Undecided, ReadySound
  <2> QED BY <2>3, <2>4, <2>5, <2>6, <2>7, <2>8, <2>9 DEF ReadyInv
<1>4. CASE stage \notin {"verify", "reviewer", "decide"}
  <2>1. Digested' /\ Commanded' /\ Reviewing' /\ Decided'
    BY <1>4 DEF Digested, Commanded, Judging, Reviewing, Decided
  <2>2. Changing' BY DEF ReadyInv, Changing, At, ChangedIn
  <2>3. Heading' BY DEF ReadyInv, Heading, Leads
  <2>4. Undecided' /\ ReadySound'
    BY DEF ReadyInv, Undecided, ReadySound
  <2> QED BY <2>1, <2>2, <2>3, <2>4 DEF ReadyInv
<1> QED BY <1>3, <1>4

\* The implementer writes.
LEMMA WritesReady ==
  ASSUME ReadyInv, NEW p \in Paths, NEW v, ImplementerWrites(p, v)
  PROVE  ReadyInv'
<1>1. /\ stage = "implementer" /\ gate.at = "call"
      /\ UNCHANGED <<stage, gate, run, base, head>>
  BY DEF ImplementerWrites, At
<1>2. Digested' /\ Commanded' /\ Reviewing' /\ Decided' /\ Changing'
  BY <1>1 DEF Digested, Commanded, Judging, Reviewing, Decided, Changing, At
<1>3. Heading' BY <1>1 DEF ReadyInv, Heading
<1>4. Undecided' /\ ReadySound' BY <1>1 DEF ReadyInv, Undecided, ReadySound
<1> QED BY <1>2, <1>3, <1>4 DEF ReadyInv

\* The loop ends, with another decision.
LEMMA EndsReady ==
  ASSUME GoTo("end", "enter"), run'.decision # "READY_FOR_HUMAN"
  PROVE  ReadyInv'
<1>1. stage' = "end" BY DEF GoTo
<1>2. /\ Digested' /\ Commanded' /\ Reviewing' /\ Decided' /\ Changing'
      /\ Heading' /\ Undecided'
  BY <1>1 DEF Digested, Commanded, Judging, Reviewing, Decided, Changing, At,
     Heading, Undecided
<1> QED BY <1>2 DEF ReadyInv, ReadySound

\* The loop is still before the commands.
LEMMA EarlyReady ==
  ASSUME ReadyInv, stage' \in {"preflight", "planner", "implementer"},
         Changing', run'.decision = "IN_PROGRESS",
         stage' # "preflight" => Leads(base.head, head)'
  PROVE  ReadyInv'
<1>1. /\ Digested' /\ Commanded' /\ Reviewing' /\ Decided' /\ Heading'
      /\ Undecided'
  BY DEF Digested, Commanded, Judging, Reviewing, Decided, Heading, Undecided
<1> QED BY <1>1 DEF ReadyInv, ReadySound

\* It goes on among its gates, its commands and its reviewer.
LEMMA LateReady ==
  ASSUME ReadyInv, stage \in {"verify", "reviewer"},
         stage' \in {"verify", "reviewer"},
         run'.digest = run.digest, run'.changed = run.changed,
         run'.decision = run.decision,
         UNCHANGED <<base, world>>, Commanded', Reviewing'
  PROVE  ReadyInv'
<1>1. UNCHANGED <<tree, head, undone, base>> BY DEF world
<1>2. Digested' BY <1>1 DEF ReadyInv, Digested, ChangedIn
<1>3. Changing' /\ Decided' BY DEF Changing, At, Decided
<1>4. Heading' BY <1>1 DEF ReadyInv, Heading
<1>5. Undecided' /\ ReadySound' BY DEF ReadyInv, Undecided, ReadySound
<1> QED BY <1>2, <1>3, <1>4, <1>5 DEF ReadyInv

\* Facts of a state in which the loop runs.
LEMMA Running ==
  ASSUME TypeInv, ReadyInv, stage # "end"
  PROVE  /\ run.decision = "IN_PROGRESS" /\ run \in Run /\ gate \in GateType
         /\ stage # "preflight" => Leads(base.head, head)
BY DEF TypeInv, DevLoopTypeOK, GateType, ReadyInv, Undecided, Heading

\* A run that ends otherwise than READY_FOR_HUMAN claims nothing.
LEMMA StopReady ==
  ASSUME TypeInv, NEW d, Stop(d), d # "READY_FOR_HUMAN"
  PROVE  ReadyInv'
<1>1. run \in Run BY DEF TypeInv, DevLoopTypeOK
<1>2. run'.decision = d BY <1>1 DEF Stop, Run
<1> QED BY <1>2, EndsReady DEF Stop

\* Nor does one that ends with what its gate has read.
LEMMA StopWithReady ==
  ASSUME TypeInv, NEW d, NEW changed, NEW digest,
         StopWith(d, changed, digest), d # "READY_FOR_HUMAN"
  PROVE  ReadyInv'
<1>1. run \in Run BY DEF TypeInv, DevLoopTypeOK
<1>2. run'.decision = d BY <1>1 DEF StopWith, Run
<1> QED BY <1>2, EndsReady DEF StopWith

\* The steps of preflight.
LEMMA PreflightReady ==
  ASSUME TypeInv, ReadyInv, Preflight
  PROVE  ReadyInv'
<1>1. stage = "preflight"
  BY DEF Preflight, ReadDirty, TakeSnapshot, ReadBaseDigest, ReadBaseHead, At
<1>2. run.decision = "IN_PROGRESS" /\ run \in Run BY <1>1, Running
<1>3. CASE ReadDirty
  <2>1. CASE dirty_paths \subseteq Expected
    <3>1. UNCHANGED <<stage, run>> BY <1>3, <2>1 DEF ReadDirty
    <3> QED BY <1>1, <1>2, <3>1, EarlyReady DEF Changing, At
  <2> QED BY <1>3, <2>1, StopReady DEF ReadDirty
<1>4. CASE TakeSnapshot \/ ReadBaseDigest
  <2>1. stage' = "preflight" BY <1>4 DEF TakeSnapshot, ReadBaseDigest, GoTo
  <2>2. run'.decision = run.decision
    BY <1>2, <1>4 DEF TakeSnapshot, ReadBaseDigest, Run
  <2> QED BY <1>2, <2>1, <2>2, EarlyReady DEF Changing, At
<1>5. CASE ReadBaseHead
  <2>1. stage' = "planner" /\ UNCHANGED <<run, head>>
    BY <1>5 DEF ReadBaseHead, GoTo, world
  <2>2. base'.head = head
    BY <1>5 DEF ReadBaseHead, TypeInv, DevLoopTypeOK
  <2> QED BY <1>2, <2>1, <2>2, EarlyReady DEF Leads, Changing, At
<1> QED BY <1>3, <1>4, <1>5 DEF Preflight

\* The reads of a gate: equal digests have read the same worktree.
LEMMA GateReady ==
  ASSUME TypeInv, ReadyInv, Gate
  PROVE  ReadyInv'
<1>1. /\ stage \in {"planner", "implementer", "verify", "reviewer"}
      /\ gate.at \in {"enter", "head", "changed", "digest"}
  BY GateSteps
     DEF Gate, Enter, GateHead, GateChanged, GateRefuses, Proceed, Passed
<1>2. /\ run.decision = "IN_PROGRESS" /\ run \in Run /\ gate \in GateType
      /\ Leads(base.head, head)
  BY <1>1, Running
<1>3. CASE Enter
  <2>1. CASE run.calls >= budget[2] BY <1>3, <2>1, StopReady DEF Enter
  <2>2. CASE ~(run.calls >= budget[2])
    <3>1. /\ stage' = stage /\ gate'.after = FALSE /\ gate'.at = "head"
          /\ UNCHANGED <<run, base, tree, head, undone, world>>
          /\ stage # "verify"
      BY <1>3, <2>2 DEF Enter, GoTo, world
    <3>2. CASE stage \in {"planner", "implementer"}
      BY <1>2, <3>1, <3>2, EarlyReady DEF Changing, At
    <3>3. CASE stage = "reviewer"
      <4>1. Commanded' BY <3>1, <3>3 DEF ReadyInv, Commanded, Judging, Same
      <4>2. Reviewing' BY <3>1 DEF Reviewing
      <4> QED BY <3>1, <3>3, <4>1, <4>2, LateReady
    <3> QED BY <1>1, <3>1, <3>2, <3>3
  <2> QED BY <2>1, <2>2
<1>4. CASE GateHead
  <2>1. /\ gate.at = "head" /\ gate'.at = "changed" /\ gate'.after = gate.after
        /\ gate'.ok = (head = base.head)
        /\ UNCHANGED <<stage, run, base, approved, tree, head, undone, world>>
    BY <1>2, <1>4 DEF GateHead, GateType, world
  <2>2. CASE stage \in {"planner", "implementer"}
    BY <1>2, <2>1, <2>2, EarlyReady DEF Changing, At
  <2>3. CASE stage \in {"verify", "reviewer"}
    <3>1. Commanded' BY <2>1, <2>3 DEF ReadyInv, Commanded, Judging, Same
    <3>2. Reviewing' BY <1>2, <2>1 DEF ReadyInv, Reviewing, Same, Leads
    <3> QED BY <2>1, <2>3, <3>1, <3>2, LateReady
  <2> QED BY <1>1, <2>2, <2>3
<1>5. CASE GateChanged
  <2>1. /\ gate.at = "changed" /\ gate'.at = "digest"
        /\ gate'.after = gate.after /\ gate'.changed = ChangedIn(tree)
        /\ gate'.ok = (gate.ok /\ ChangedIn(tree) \subseteq Allowed)
        /\ UNCHANGED <<stage, run, base, approved, tree, head, undone, world>>
    BY <1>2, <1>5 DEF GateChanged, GateType, world
  <2>2. ChangedIn(tree)' = ChangedIn(tree) BY <2>1 DEF ChangedIn
  <2>3. CASE stage \in {"planner", "implementer"}
    <3>1. Changing' BY <2>1, <2>2 DEF Changing
    <3> QED BY <1>2, <2>1, <2>3, <3>1, EarlyReady
  <2>4. CASE stage \in {"verify", "reviewer"}
    <3>1. Commanded' BY <2>1, <2>4 DEF ReadyInv, Commanded, Judging, Same
    <3>2. Reviewing' BY <2>1, <2>2 DEF ReadyInv, Reviewing, Same
    <3> QED BY <2>1, <2>4, <3>1, <3>2, LateReady
  <2> QED BY <1>1, <2>3, <2>4
<1>6. CASE GateRefuses
  <2>1. GoTo("end", "enter") BY <1>6 DEF GateRefuses, StopWith
  <2>2. run'.decision = "HUMAN_REVIEW"
    BY <1>2, <1>6 DEF GateRefuses, StopWith, Run
  <2> QED BY <2>1, <2>2, EndsReady
<1>7. CASE Proceed
  <2>1. CASE stage = "verify"
    <3>1. /\ stage' = "verify" /\ gate'.at = "start" /\ gate'.after = FALSE
          /\ run' = [run EXCEPT !.receipts = <<>>]
          /\ UNCHANGED <<base, world>>
      BY <1>7, <2>1 DEF Proceed, GoTo
    <3>2. /\ run'.receipts = <<>> /\ run'.digest = run.digest
          /\ run'.changed = run.changed /\ run'.decision = run.decision
      BY <1>2, <3>1 DEF Run
    <3>3. Commanded'
      BY <3>1, <3>2, DevLoopAssumption DEF Commanded, Judging, Same
    <3>4. Reviewing' BY <3>1 DEF Reviewing
    <3> QED BY <2>1, <3>1, <3>2, <3>3, <3>4, LateReady
  <2>2. CASE stage # "verify"
    <3>1. /\ stage' = stage /\ gate'.at = "call" /\ gate'.after = FALSE
          /\ UNCHANGED <<run, base, tree, head, undone, world>>
      BY <1>7, <2>2 DEF Proceed, GoTo, world
    <3>2. CASE stage \in {"planner", "implementer"}
      BY <1>2, <3>1, <3>2, EarlyReady DEF Changing, At
    <3>3. CASE stage = "reviewer"
      <4>1. Commanded' BY <3>1, <3>3 DEF ReadyInv, Commanded, Judging, Same
      <4>2. Reviewing' BY <3>1 DEF Reviewing
      <4> QED BY <3>1, <3>3, <4>1, <4>2, LateReady
    <3> QED BY <1>1, <2>2, <3>2, <3>3
  <2> QED BY <2>1, <2>2
<1> QED BY <1>3, <1>4, <1>5, <1>6, <1>7 DEF Gate

\* The agents' answers and writes.
LEMMA AgentReady ==
  ASSUME TypeInv, ReadyInv, AgentReturns
  PROVE  ReadyInv'
<1>1. /\ stage \in {"planner", "implementer", "reviewer"}
      /\ \E value : Return(value)
  BY DEF AgentReturns, PlannerReturns, ImplementerReturns, ReviewerReturns
<1>2. /\ run.decision = "IN_PROGRESS" /\ run \in Run /\ gate \in GateType
      /\ Leads(base.head, head)
  BY <1>1, Running
<1>3. /\ run' = [run EXCEPT !.calls = run.calls + 1]
      /\ gate' = [gate EXCEPT !.at = "head", !.after = TRUE]
      /\ approved' = IF stage = "reviewer" THEN <<tree, head>> ELSE approved
      /\ UNCHANGED <<stage, base, tree, head, undone, world>>
  BY <1>1 DEF Return, Recheck, world
<1>4. /\ run'.digest = run.digest /\ run'.changed = run.changed
      /\ run'.decision = run.decision /\ run'.receipts = run.receipts
  BY <1>2, <1>3 DEF Run
<1>5. gate'.at = "head" /\ gate'.after BY <1>2, <1>3 DEF GateType
<1>6. CASE stage \in {"planner", "implementer"}
  BY <1>2, <1>3, <1>4, <1>5, <1>6, EarlyReady DEF Changing, At
<1>7. CASE stage = "reviewer"
  <2>1. Commanded'
    BY <1>3, <1>4, <1>5, <1>7 DEF ReadyInv, Commanded, Judging, Same
  <2>2. approved' = <<tree, head>> BY <1>3, <1>7
  <2>3. Reviewing' BY <1>2, <1>3, <1>5, <2>2 DEF Reviewing, Leads
  <2> QED BY <1>3, <1>4, <1>7, <2>1, <2>3, LateReady
<1> QED BY <1>1, <1>6, <1>7

\* The acceptance commands: a receipt names the worktree at its start.
LEMMA CommandReady ==
  ASSUME TypeInv, ReadyInv, StartCommand \/ TimeOut \/ Command
  PROVE  ReadyInv'
<1>1. /\ stage = "verify" /\ gate.at \in {"start", "open", "silent"}
      /\ UNCHANGED <<stage, base, tree, world>>
  BY GateSteps DEF StartCommand, TimeOut, Command, CloseOutput, Finish, world
<1>2. run \in Run /\ gate \in GateType BY <1>1, Running
<1>3. run.receipts \in Seq(Receipt) BY <1>2 DEF Run
<1>4. Judging BY <1>1 DEF Judging
<1>5. Reviewing' BY <1>1 DEF Reviewing
<1>6. /\ run'.digest = run.digest /\ run'.changed = run.changed
      /\ run'.decision = run.decision
  BY <1>2 DEF StartCommand, TimeOut, Command, CloseOutput, Finish, Run
<1>7. gate'.at \in {"open", "silent", "head"}
  BY <1>2 DEF StartCommand, TimeOut, Command, CloseOutput, Finish, Recheck,
     GateType
<1>8. CASE StartCommand
  <2> DEFINE r == [ok |-> FALSE, on |-> tree]
  <2>1. run'.receipts = Append(run.receipts, r)
    BY <1>2, <1>8 DEF StartCommand, Run
  <2>2. /\ Len(run.receipts) < Commands
        /\ Same => \A i \in DOMAIN run.receipts : run.receipts[i].on = tree
    BY <1>4, <1>8 DEF StartCommand, ReadyInv, Commanded
  <2>3. r \in Receipt /\ r.on = tree
    BY DEF TypeInv, DevLoopTypeOK, Receipt
  <2> HIDE DEF r
  <2>4. /\ Len(run'.receipts) = Len(run.receipts) + 1
        /\ \A i \in DOMAIN run'.receipts :
             \/ i \in DOMAIN run.receipts /\ run'.receipts[i] = run.receipts[i]
             \/ run'.receipts[i] = r
    BY <1>3, <2>1, <2>3
  <2>5. Len(run'.receipts) <= Commands
    BY <1>3, <2>2, <2>4, DevLoopAssumption
  <2>6. Commanded'
    BY <1>1, <1>6, <1>7, <2>2, <2>3, <2>4, <2>5 DEF Commanded, Same
  <2> QED BY <1>1, <1>5, <1>6, <2>6, LateReady
<1>9. CASE TimeOut \/ CloseOutput
  <2>1. run' = run BY <1>9 DEF TimeOut, CloseOutput
  <2>2. Commanded'
    BY <1>1, <1>4, <1>7, <2>1 DEF ReadyInv, Commanded, Same
  <2> QED BY <1>1, <1>5, <1>6, <2>2, LateReady
<1>10. ASSUME NEW ok \in BOOLEAN, Finish(ok) PROVE ReadyInv'
  <2> DEFINE n == Len(run.receipts)
             done == [run.receipts EXCEPT ![n] =
                        [run.receipts[n] EXCEPT !.ok = ok]]
  <2>1. n \in 1..Len(run.receipts) BY <1>3, <1>10 DEF Finish, TypeInv
  <2>2. run' = [run EXCEPT !.receipts = done] BY <1>10 DEF Finish
  <2>3. run.receipts[n] \in Receipt BY <1>3, <2>1
  <2>4. [run.receipts[n] EXCEPT !.ok = ok] \in Receipt
        /\ [run.receipts[n] EXCEPT !.ok = ok].on = run.receipts[n].on
    BY <2>3 DEF Receipt
  <2>5. /\ Len(done) = Len(run.receipts)
        /\ \A i \in DOMAIN done :
             i \in DOMAIN run.receipts /\ done[i].on = run.receipts[i].on
    BY <1>3, <2>1, <2>4
  <2> HIDE DEF done
  <2>6. run'.receipts = done BY <1>2, <2>2 DEF Run
  <2>7. Commanded'
    BY <1>1, <1>4, <1>6, <1>7, <2>5, <2>6 DEF ReadyInv, Commanded, Same
  <2> QED BY <1>1, <1>5, <1>6, <2>7, LateReady
<1> QED BY <1>8, <1>9, <1>10 DEF Command

\* What the last read of a gate has found, after the implementer's gate.
LEMMA PassedSame ==
  ASSUME TypeInv, Passed, stage \in {"verify", "reviewer"}
  PROVE  Same /\ gate.ok
<1>1. worktree_diff_digest = run.digest BY DEF Passed, AsExpected
<1> QED BY <1>1, DigestType DEF TypeInv, Passed, Same

\* The implementer's gate takes a new digest.
LEMMA ImplementedReady ==
  ASSUME TypeInv, ReadyInv, Implemented
  PROVE  ReadyInv'
<1>1. /\ stage = "implementer" /\ gate.after /\ gate.at = "digest"
      /\ UNCHANGED <<base, tree, head, undone>>
  BY DEF Implemented, Passed, world
<1>2. /\ run.decision = "IN_PROGRESS" /\ run \in Run /\ gate \in GateType
      /\ Leads(base.head, head)
  BY <1>1, Running
<1>3. tree \in Tree BY DEF TypeInv, DevLoopTypeOK
<1>4. CASE answer.decision # "IMPLEMENTED"
  <2>1. GoTo("end", "enter") BY <1>4 DEF Implemented
  <2>2. run'.decision \in {"BLOCKED", "HUMAN_REVIEW"}
    BY <1>2, <1>4 DEF Implemented, Run
  <2> QED BY <2>1, <2>2, EndsReady
<1>5. CASE answer.decision = "IMPLEMENTED"
  <2>1. /\ stage' = "verify" /\ gate'.at = "head" /\ gate'.after = FALSE
        /\ run' = [run EXCEPT !.changed = gate.changed,
                              !.previous = run.digest,
                              !.digest = worktree_diff_digest]
    BY <1>5 DEF Implemented, GoTo
  <2>2. /\ run'.changed = gate.changed /\ run'.digest = worktree_diff_digest
        /\ run'.decision = run.decision
    BY <1>2, <2>1 DEF Run
  <2>3. worktree_diff_digest \in Digest /\ worktree_diff_digest.tree = tree
    BY DigestType DEF TypeInv
  <2>4. gate.changed # {} => ChangedIn(tree) # {} \/ undone
    BY <1>1 DEF ReadyInv, Changing, At
  <2>5. \A t : ChangedIn(t)' = ChangedIn(t) BY <1>1 DEF ChangedIn
  <2>6. run'.digest.tree = tree BY <2>2, <2>3
  <2>7. Digested'
    <3>1. run'.digest \in Digest BY <2>2, <2>3
    <3>2. \A p \in Paths : Fades(run'.digest.tree[p], tree'[p])
      BY <1>1, <2>6 DEF Fades
    <3>3. run'.changed # {} => ChangedIn(run'.digest.tree) # {} \/ undone
      BY <2>2, <2>4, <2>6
    <3> QED BY <1>1, <3>1, <3>2, <3>3 DEF Digested, ChangedIn
  <2>8. Commanded' /\ Reviewing' /\ Decided' /\ Changing'
    BY <2>1 DEF Commanded, Judging, Reviewing, Decided, Changing, At
  <2>9. Heading' BY <1>1, <1>2 DEF Heading
  <2>10. Undecided' /\ ReadySound'
    BY <1>2, <2>2 DEF Undecided, ReadySound
  <2> QED BY <2>7, <2>8, <2>9, <2>10 DEF ReadyInv
<1> QED BY <1>4, <1>5

\* The gate after a command compares with it.
LEMMA VerifiedReady ==
  ASSUME TypeInv, ReadyInv, Verified
  PROVE  ReadyInv'
<1>1. /\ stage = "verify" /\ gate.after
      /\ UNCHANGED <<run, base, tree, world>>
  BY DEF Verified, world
<1>2. Judging BY <1>1 DEF Judging
<1>3. /\ Same => \A i \in DOMAIN run.receipts : run.receipts[i].on = tree
      /\ Len(run.receipts) <= Commands /\ Len(run.receipts) \in Nat
  BY <1>1, <1>2 DEF ReadyInv, Commanded, TypeInv, DevLoopTypeOK, Run
<1>4. CASE Len(run.receipts) < Commands
  <2>1. stage' = "verify" /\ gate'.at = "start" BY <1>4 DEF Verified, GoTo
  <2>2. Commanded' BY <1>1, <1>3, <1>4, <2>1 DEF Commanded, Same
  <2>3. Reviewing' BY <2>1 DEF Reviewing
  <2> QED BY <1>1, <2>1, <2>2, <2>3, LateReady
<1>5. CASE ~(Len(run.receipts) < Commands)
  <2>1. stage' = "reviewer" /\ gate'.at = "enter" /\ ~gate'.after
    BY <1>5 DEF Verified, GoTo
  <2>2. Len(run.receipts) = Commands BY <1>3, <1>5, DevLoopAssumption
  <2>3. Commanded' BY <1>1, <1>3, <2>1, <2>2 DEF Commanded, Same
  <2>4. Reviewing' BY <2>1 DEF Reviewing
  <2> QED BY <1>1, <2>1, <2>3, <2>4, LateReady
<1> QED BY <1>4, <1>5

\* So does the gate after the reviewer.
LEMMA ReviewedReady ==
  ASSUME TypeInv, ReadyInv, Reviewed
  PROVE  ReadyInv'
<1>1. /\ stage = "reviewer" /\ gate.after /\ gate.at = "digest"
      /\ UNCHANGED <<base, tree, head, undone, approved>>
  BY DEF Reviewed, Passed, world
<1>2. /\ run.decision = "IN_PROGRESS" /\ run \in Run /\ Leads(base.head, head)
  BY <1>1, Running
<1>3. CASE answer \notin Verdict BY <1>3, StopWithReady DEF Reviewed
<1>4. CASE answer \in Verdict
  <2>1. /\ stage' = "decide" /\ gate'.at = "enter"
        /\ run' = [run EXCEPT !.verdict = answer]
    BY <1>4 DEF Reviewed, GoTo
  <2>2. /\ run'.verdict = answer /\ run'.digest = run.digest
        /\ run'.changed = run.changed /\ run'.receipts = run.receipts
        /\ run'.decision = run.decision
    BY <1>2, <2>1 DEF Run
  <2>3. Same /\ gate.ok BY <1>1, PassedSame DEF Reviewed
  <2>4. /\ approved = <<tree, base.head>>
        /\ ChangedIn(tree) \subseteq Allowed
    BY <1>1, <2>3 DEF ReadyInv, Reviewing
  <2>5. \A i \in DOMAIN run.receipts : run.receipts[i].on = tree
    BY <1>1, <2>3 DEF ReadyInv, Commanded, Judging
  <2>6. Decided'
    BY <1>1, <1>4, <2>2, <2>3, <2>4, <2>5 DEF Decided, Same, ChangedIn
  <2>7. Digested' BY <1>1, <2>2 DEF ReadyInv, Digested, ChangedIn
  <2>8. Commanded'
    BY <1>1, <2>1, <2>2 DEF ReadyInv, Commanded, Judging, Same
  <2>9. Changing' /\ Reviewing' BY <2>1 DEF Changing, At, Reviewing
  <2>10. Heading' BY <1>1, <1>2 DEF Heading
  <2>11. Undecided' /\ ReadySound'
    BY <1>2, <2>2 DEF Undecided, ReadySound
  <2> QED BY <2>6, <2>7, <2>8, <2>9, <2>10, <2>11 DEF ReadyInv
<1> QED BY <1>3, <1>4

\* The decision, which is taken on what the gates compared.
LEMMA DecideReady ==
  ASSUME TypeInv, ReadyInv, Decide
  PROVE  ReadyInv'
<1>1. stage = "decide" /\ UNCHANGED <<base, tree, head, undone, approved>>
  BY DEF Decide, world
<1>2. /\ run.decision = "IN_PROGRESS" /\ run \in Run /\ Leads(base.head, head)
  BY <1>1, Running
<1>3. CASE Stop("HUMAN_REVIEW") BY <1>3, StopReady
<1>4. CASE run' = [run EXCEPT !.round = @ + 1] /\ GoTo("implementer", "enter")
  <2>1. /\ stage' = "implementer" /\ gate'.at = "enter"
        /\ run'.decision = run.decision
    BY <1>2, <1>4 DEF GoTo, Run
  <2> QED BY <1>1, <1>2, <2>1, EarlyReady DEF Changing, At
<1>5. CASE /\ run.verdict.decision = "APPROVE" /\ ~NeedsRevision
           /\ Stop("READY_FOR_HUMAN")
  <2>1. /\ stage' = "end"
        /\ run' = [run EXCEPT !.decision = "READY_FOR_HUMAN"]
    BY <1>5 DEF Stop, GoTo
  <2>2. /\ run'.digest = run.digest /\ run'.receipts = run.receipts
        /\ run'.verdict = run.verdict
    BY <1>2, <2>1 DEF Run
  <2> DEFINE ready == run.digest.tree
  <2>3. /\ approved = <<ready, base.head>>
        /\ \A i \in DOMAIN run.receipts : run.receipts[i].on = ready
        /\ ChangedIn(ready) \subseteq Allowed
        /\ run.verdict \in Verdict
    BY <1>1 DEF ReadyInv, Decided
  <2>4. Len(run.receipts) = Commands
    BY <1>1 DEF ReadyInv, Commanded, Judging
  <2>5. run.receipts \in Seq(Receipt) BY <1>2 DEF Run
  <2>6. \A i \in 1..Commands : run.receipts[i] = [ok |-> TRUE, on |-> ready]
    <3> SUFFICES ASSUME NEW i \in 1..Commands
                 PROVE  run.receipts[i] = [ok |-> TRUE, on |-> ready]
      OBVIOUS
    <3>1. i \in DOMAIN run.receipts /\ run.receipts[i] \in Receipt
      BY <2>4, <2>5
    <3>2. run.receipts[i].ok /\ run.receipts[i].on = ready
      BY <1>5, <2>3, <3>1 DEF NeedsRevision, VerificationPassed
    <3> QED BY <3>1, <3>2 DEF Receipt
  <2>7. ChangedIn(ready) # {} \/ undone
    BY <1>1, <1>5 DEF ReadyInv, Digested, NeedsRevision
  <2>8. run.verdict = [decision |-> "APPROVE", serious |-> FALSE]
    BY <1>5, <2>3 DEF NeedsRevision, Verdict
  <2>9. \A t : ChangedIn(t)' = ChangedIn(t) BY <1>1 DEF ChangedIn
  <2>10. ReadySound'
    BY <1>1, <2>2, <2>3, <2>4, <2>6, <2>7, <2>8, <2>9
       DEF ReadySound, ChangedIn
  <2>11. /\ Digested' /\ Commanded' /\ Reviewing' /\ Decided' /\ Changing'
         /\ Heading' /\ Undecided'
    BY <2>1 DEF Digested, Commanded, Judging, Reviewing, Decided, Changing,
       At, Heading, Undecided
  <2> QED BY <2>10, <2>11 DEF ReadyInv
<1> QED BY <1>3, <1>4, <1>5 DEF Decide

\* Deeds of outsiders: what fades does not come back.
LEMMA OutsidersReady ==
  ASSUME TypeInv, TypeInv', ReadyInv, Outsiders
  PROVE  ReadyInv'
<1>1. tree \in Tree BY DEF TypeInv, DevLoopTypeOK
<1>2. ASSUME NEW p \in Paths, NEW v, Overwrite(p, v), Fades(tree[p], v)
      PROVE  ReadyInv'
  <2>1. /\ UNCHANGED <<stage, gate, answer, run, base, budget, approved, head>>
        /\ stage # "end"
    BY <1>2 DEF Overwrite, Meddle
  <2>2. \A q \in Paths : Fades(tree[q], tree'[q])
    BY <1>1, <1>2 DEF Overwrite, Tree, Fades
  <2>3. undone' = (undone \/ (At("implementer", "digest")
                                /\ ChangedIn(tree') = {}))
    BY <1>2 DEF Overwrite
  <2> QED BY <2>1, <2>2, <2>3, WorldReady DEF Leads
<1>3. ASSUME NEW p \in Paths, Scribble(p) PROVE ReadyInv'
  BY <1>2, <1>3 DEF Scribble, Fades
<1>4. ASSUME NEW p \in Paths, PutBack(p) PROVE ReadyInv'
  <2> DEFINE v == IF base.snapshot[p] = NULL THEN Clean ELSE base.snapshot[p]
  <2>1. base.snapshot \in [Paths -> (Versions \ Drafts) \cup {NULL}]
    BY DEF TypeInv, DevLoopTypeOK
  <2>2. v \notin Drafts BY <2>1, VersionsAssumption
  <2>3. tree[p] \in Drafts /\ Overwrite(p, v) BY <1>4 DEF PutBack
  <2> HIDE DEF v
  <2> QED BY <1>2, <2>2, <2>3 DEF Fades
<1>5. CASE MoveHead
  <2>1. /\ UNCHANGED <<stage, gate, answer, run, base, budget, approved, tree,
                       undone>>
        /\ stage # "end" /\ head = "base"
    BY <1>5 DEF MoveHead, Meddle
  <2>2. ChangedIn(tree') = ChangedIn(tree) BY <2>1
  <2> QED BY <2>1, <2>2, WorldReady DEF Leads, Fades
<1> QED BY <1>3, <1>4, <1>5 DEF Outsiders

\* Readings at different times that are equal are of one worktree.
LEMMA ReadyInvCorrect == DevLoopSpec => []ReadyInv
<1>1. DevLoopInit => ReadyInv
  BY DEF DevLoopInit, Fresh, ReadyInv, Digested, Changing, At, Commanded,
     Judging, Reviewing, Heading, Decided, Undecided, ReadySound
<1>2. TypeInv /\ TypeInv' /\ ReadyInv /\ [DevLoopNext]_vars => ReadyInv'
  <2> SUFFICES ASSUME TypeInv, TypeInv', ReadyInv, [DevLoopNext]_vars
               PROVE  ReadyInv'
    OBVIOUS
  <2>1. CASE UNCHANGED vars
    <3>1. /\ UNCHANGED <<stage, gate, run, base, tree, head, undone, approved>>
          /\ \A t : ChangedIn(t)' = ChangedIn(t)
      BY <2>1 DEF vars, ChangedIn
    <3>2. Digested' BY <3>1 DEF ReadyInv, Digested, ChangedIn
    <3>3. Changing' BY <3>1 DEF ReadyInv, Changing, At, ChangedIn
    <3>4. Commanded' BY <3>1 DEF ReadyInv, Commanded, Judging, Same
    <3>5. Reviewing' BY <3>1 DEF ReadyInv, Reviewing, Same, ChangedIn
    <3>6. Heading' /\ Undecided' BY <3>1 DEF ReadyInv, Heading, Undecided
    <3>7. Decided' BY <3>1 DEF ReadyInv, Decided, ChangedIn
    <3>8. ReadySound' BY <3>1 DEF ReadyInv, ReadySound, ChangedIn
    <3> QED BY <3>2, <3>3, <3>4, <3>5, <3>6, <3>7, <3>8 DEF ReadyInv
  <2>2. CASE PreflightFails \/ GateFails \/ GraphRaises
    <3>1. run \in Run BY DEF TypeInv, DevLoopTypeOK
    <3>2. run'.decision = "HUMAN_REVIEW"
      BY <2>2, <3>1 DEF PreflightFails, GateFails, GraphRaises, StopWith, Run,
         Fresh
    <3> QED BY <2>2, <3>2, EndsReady
            DEF PreflightFails, GateFails, GraphRaises, StopWith
  <2>3. CASE Planned
    <3>1. /\ stage = "planner" /\ UNCHANGED <<base, head>>
      BY <2>3 DEF Planned, world
    <3>2. CASE answer.decision = "READY"
      <4>1. /\ stage' = "implementer" /\ gate'.at = "enter" /\ UNCHANGED run
        BY <2>3, <3>2 DEF Planned, GoTo
      <4> QED BY <3>1, <4>1, Running, EarlyReady DEF Changing, At
    <3> QED BY <2>3, <3>2, StopReady, StopWithReady DEF Planned
  <2> QED BY <2>1, <2>2, <2>3, PreflightReady, GateReady, AgentReady,
             CommandReady, ImplementedReady, VerifiedReady, ReviewedReady,
             DecideReady, OutsidersReady, WritesReady
          DEF DevLoopNext, Continue
<1> QED BY <1>1, <1>2, TypeInvCorrect, PTL DEF DevLoopSpec

\* READY_FOR_HUMAN names one worktree, for any paths, commands, budgets and
\* number of deeds of outsiders.
THEOREM ReadySoundCorrect == DevLoopSpec => []ReadySound
<1>1. ReadyInv => ReadySound BY DEF ReadyInv
<1> QED BY <1>1, ReadyInvCorrect, PTL

-----------------------------------------------------------------------------
(* Progress: how many steps the loop has left.                             *)

\* The reads left of a pass of the gate.
Reads ==
  CASE gate.at = "head" -> 3
    [] gate.at = "changed" -> 2
    [] gate.at = "digest" -> 1
    [] OTHER -> 0

\* What is left of a node that calls an agent,
AgentLeft ==
  CASE gate.after -> Reads
    [] gate.at = "enter" -> 8
    [] OTHER -> 4 + Reads

\* of preflight,
PreflightLeft ==
  CASE gate.at = "dirty" -> 4
    [] gate.at = "snapshot" -> 3
    [] gate.at = "base digest" -> 2
    [] OTHER -> 1

\* of the command that runs, and of all of them, each of which takes six.
CommandLeft ==
  CASE gate.at = "open" -> 5
    [] gate.at = "silent" -> 4
    [] OTHER -> Reads

Cost == 6 * Commands

CommandsLeft ==
  IF gate.at \in {"head", "changed", "digest"} /\ ~gate.after
  THEN Cost + Reads
  ELSE Cost - 6 * Len(run.receipts) + CommandLeft

\* The most steps that are left of the round.
RoundLeft ==
  CASE stage = "preflight" -> Cost + 28 + PreflightLeft
    [] stage = "planner" -> Cost + 20 + AgentLeft
    [] stage = "implementer" -> Cost + 12 + AgentLeft
    [] stage = "verify" -> 9 + CommandsLeft
    [] stage = "reviewer" -> 1 + AgentLeft
    [] OTHER -> 1

\* And of the loop.
StepsLeft ==
  IF stage = "end" THEN 0
  ELSE (budget[1] - run.round) * (Cost + 33) + RoundLeft

\* What the counts are.
Counted ==
  /\ Commands \in Nat /\ Cost \in Nat /\ Cost = 6 * Commands
  /\ Len(run.receipts) \in Nat
  /\ Reads \in 0..3 /\ AgentLeft \in 0..8 /\ PreflightLeft \in 1..4
  /\ CommandLeft \in 0..5 /\ CommandsLeft \in Int

\* In a state of the loop they are that.
LEMMA CountsType == TypeInv => Counted
<1> SUFFICES ASSUME TypeInv PROVE Counted
  OBVIOUS
<1>1. /\ Commands \in Nat /\ Len(run.receipts) \in Nat
      /\ Cost \in Nat /\ Cost = 6 * Commands
  BY DevLoopAssumption DEF TypeInv, DevLoopTypeOK, Run, Cost
<1>2. Reads \in 0..3 BY DEF Reads
<1>3. AgentLeft \in 0..8 BY <1>2 DEF AgentLeft
<1>4. PreflightLeft \in 1..4 BY DEF PreflightLeft
<1>5. CommandLeft \in 0..5 BY <1>2 DEF CommandLeft
<1>6. CommandsLeft \in Int BY <1>1, <1>2, <1>5 DEF CommandsLeft
<1> QED BY <1>1, <1>2, <1>3, <1>4, <1>5, <1>6 DEF Counted

\* What is left of the round, stage by stage.
ByStage ==
  /\ stage = "preflight" => RoundLeft = Cost + 28 + PreflightLeft
  /\ stage = "planner" => RoundLeft = Cost + 20 + AgentLeft
  /\ stage = "implementer" => RoundLeft = Cost + 12 + AgentLeft
  /\ stage = "verify" => RoundLeft = 9 + CommandsLeft
  /\ stage = "reviewer" => RoundLeft = 1 + AgentLeft
  /\ stage = "decide" => RoundLeft = 1

\* So RoundLeft is defined.
LEMMA RoundLeftIs == ByStage
BY DEF ByStage, RoundLeft

\* While the loop runs something is left of its round:
SomeLeft == stage # "end" => RoundLeft \in Nat /\ RoundLeft >= 1

\* no more commands ran than there are (Commanded).
LEMMA RoundLeftType == TypeInv /\ ReadyInv => SomeLeft
<1> SUFFICES ASSUME TypeInv, ReadyInv, stage # "end"
             PROVE  RoundLeft \in Nat /\ RoundLeft >= 1
  BY DEF SomeLeft
<1>1. stage = "verify" => CommandsLeft >= 0
  <2>1. stage = "verify" =>
          \/ gate.at \in {"head", "changed", "digest"} /\ ~gate.after
          \/ Len(run.receipts) <= Commands
    BY DEF ReadyInv, Commanded, Judging, TypeInv, Placed, StepsOf
  <2>2. CASE gate.at \in {"head", "changed", "digest"} /\ ~gate.after
    <3>1. CommandsLeft = Cost + Reads BY <2>2 DEF CommandsLeft
    <3>2. Cost \in Nat /\ Reads \in 0..3 BY CountsType DEF Counted
    <3> QED BY <3>1, <3>2
  <2>3. CASE ~(gate.at \in {"head", "changed", "digest"} /\ ~gate.after)
    <3>1. CommandsLeft = Cost - 6 * Len(run.receipts) + CommandLeft
      BY <2>3 DEF CommandsLeft
    <3>2. /\ Commands \in Nat /\ Cost = 6 * Commands
          /\ Len(run.receipts) \in Nat /\ CommandLeft \in 0..5
      BY CountsType DEF Counted
    <3>3. PICK n \in Nat, c \in 0..5 : n = Len(run.receipts) /\ c = CommandLeft
      BY <3>2, Zenon
    <3>4. CommandsLeft = 6 * Commands - 6 * n + c
      BY <3>1, <3>2, <3>3, Zenon
    <3>5. stage = "verify" => n <= Commands BY <2>1, <2>3, <3>3
    <3> QED BY <3>2, <3>3, <3>4, <3>5
  <2> QED BY <2>2, <2>3
<1>2. stage \in Stages \ {"end"} BY DEF TypeInv, DevLoopTypeOK
<1>3. PICK cost \in Nat, al \in 0..8, pl \in 1..4, cl \in Int :
        /\ cost = Cost /\ al = AgentLeft /\ pl = PreflightLeft
        /\ cl = CommandsLeft
  BY CountsType DEF Counted
<1>4. /\ stage = "preflight" => RoundLeft = cost + 28 + pl
      /\ stage = "planner" => RoundLeft = cost + 20 + al
      /\ stage = "implementer" => RoundLeft = cost + 12 + al
      /\ stage = "verify" => RoundLeft = 9 + cl /\ cl >= 0
      /\ stage = "reviewer" => RoundLeft = 1 + al
      /\ stage = "decide" => RoundLeft = 1
  BY <1>1, <1>3, RoundLeftIs, Zenon DEF ByStage
<1> QED BY <1>2, <1>3, <1>4 DEF Stages

\* What is left is a number of steps, and none only at the end.
LEMMA StepsLeftType ==
  ASSUME TypeInv, Affordable, ReadyInv
  PROVE  StepsLeft \in Nat /\ (stage # "end" => StepsLeft > 0)
<1>1. CASE stage = "end" BY <1>1 DEF StepsLeft
<1>2. CASE stage # "end"
  <2>1. /\ budget[1] - run.round \in Nat /\ Cost + 33 \in Nat
        /\ RoundLeft \in Nat /\ RoundLeft >= 1
    <3>1. budget[1] - run.round \in Nat BY BudgetType DEF Affordable
    <3>2. Cost + 33 \in Nat BY CountsType DEF Counted
    <3> QED BY <1>2, <3>1, <3>2, RoundLeftType DEF SomeLeft
  <2>2. PICK w \in Nat : w = (budget[1] - run.round) * (Cost + 33)
    <3>1. \A a, b \in Nat : a * b \in Nat OBVIOUS
    <3> QED BY <2>1, <3>1
  <2> QED BY <1>2, <2>1, <2>2 DEF StepsLeft
<1> QED BY <1>1, <1>2

\* The loop ends,
LEMMA EndAdvances ==
  ASSUME TypeInv, Affordable, ReadyInv, stage # "end", stage' = "end"
  PROVE  StepsLeft' < StepsLeft
<1>1. StepsLeft' = 0 BY DEF StepsLeft
<1> QED BY <1>1, StepsLeftType

\* or goes on with its round.
LEMMA RoundAdvances ==
  ASSUME TypeInv, Affordable, ReadyInv, stage # "end", stage' # "end",
         UNCHANGED budget, run'.round = run.round,
         RoundLeft' \in Nat, RoundLeft' < RoundLeft
  PROVE  StepsLeft' < StepsLeft
<1>1. PICK w \in Int : w = (budget[1] - run.round) * (Cost + 33)
  <2>1. budget[1] - run.round \in Int /\ Cost + 33 \in Int
    <3>1. budget[1] - run.round \in Int BY BudgetType
    <3>2. Cost + 33 \in Int BY CountsType DEF Counted
    <3> QED BY <3>1, <3>2
  <2>2. \A a, b \in Int : a * b \in Int OBVIOUS
  <2> QED BY <2>1, <2>2
<1>2. StepsLeft = w + RoundLeft /\ StepsLeft' = w + RoundLeft'
  BY <1>1 DEF StepsLeft
<1> QED BY <1>1, <1>2, RoundLeftType DEF SomeLeft

\* Every step of the loop leaves it fewer; agents and outsiders add none.
LEMMA StepAdvances ==
  ASSUME TypeInv, TypeInv', Affordable, ReadyInv, ReadyInv', DevLoopNext
  PROVE  UNCHANGED <<stage, gate, run>> \/ StepsLeft' < StepsLeft
<1>0. /\ run \in Run /\ gate \in GateType /\ run.receipts \in Seq(Receipt)
      /\ Counted /\ ByStage /\ Counted' /\ ByStage'
      /\ Cost' = Cost
      /\ stage' # "end" => RoundLeft' \in Nat
  <2>1. Counted' BY CountsType, PTL
  <2>2. ByStage' BY RoundLeftIs, PTL
  <2>3. SomeLeft' BY RoundLeftType, PTL
  <2> QED BY <2>1, <2>2, <2>3, CountsType, RoundLeftIs
          DEF TypeInv, DevLoopTypeOK, GateType, Run, SomeLeft, Cost
<1>a. PICK al \in 0..8, bl \in 0..8, pl \in 1..4,
           cl \in Int, dl \in Int, ran \in Nat :
        /\ al = AgentLeft /\ bl = AgentLeft'
        /\ pl = PreflightLeft
        /\ cl = CommandsLeft /\ dl = CommandsLeft'
        /\ ran = Len(run.receipts)
  BY <1>0 DEF Counted
<1>b. PICK left, next : left = RoundLeft /\ next = RoundLeft'
  OBVIOUS
<1>c. /\ Cost \in Nat
      /\ stage = "preflight" => left = Cost + 28 + pl
      /\ stage = "planner" => left = Cost + 20 + al
      /\ stage = "implementer" => left = Cost + 12 + al
      /\ stage = "verify" => left = 9 + cl
      /\ stage = "reviewer" => left = 1 + al
      /\ stage' = "planner" => next = Cost + 20 + bl
      /\ stage' = "verify" => next = 9 + dl
      /\ stage' = "implementer" => next = Cost + 12 + bl
      /\ stage' = "reviewer" => next = 1 + bl
      /\ stage' = "decide" => next = 1
  BY <1>0, <1>a, <1>b, Zenon DEF ByStage, Counted
<1>d. ASSUME stage \in {"planner", "implementer", "reviewer"}, stage' = stage,
             bl < al
      PROVE  next < left
  BY <1>c, <1>d
<1>1. ASSUME NEW d, stage # "end", Stop(d) PROVE StepsLeft' < StepsLeft
  BY <1>1, EndAdvances DEF Stop, GoTo
<1>2. CASE Preflight
  <2>1. stage = "preflight" /\ UNCHANGED budget /\ run'.round = run.round
    BY <1>0, <1>2 DEF Preflight, ReadDirty, TakeSnapshot, ReadBaseDigest,
       ReadBaseHead, At, Stop, Run
  <2>2. CASE ReadDirty
    <3>1. CASE dirty_paths \subseteq Expected
      <4>1. gate.at = "dirty" /\ gate'.at = "snapshot" /\ UNCHANGED stage
        BY <1>0, <2>2, <3>1 DEF ReadDirty, At, GateType
      <4>2. PreflightLeft = 4 BY <4>1 DEF PreflightLeft
      <4>3. PreflightLeft' = 3 BY <4>1 DEF PreflightLeft
      <4>4. left = Cost + 28 + 4
        BY <1>0, <1>b, <2>1, <4>2, Zenon DEF ByStage
      <4>5. next = Cost + 28 + 3
        BY <1>0, <1>b, <2>1, <4>1, <4>3, Zenon DEF ByStage
      <4>6. next < left BY <1>c, <4>4, <4>5
      <4> QED BY <1>0, <1>b, <2>1, <4>1, <4>6, RoundAdvances
    <3> QED BY <1>1, <2>1, <2>2, <3>1 DEF ReadDirty
  <2>3. CASE TakeSnapshot \/ ReadBaseDigest \/ ReadBaseHead
    <3>1. \/ /\ gate.at = "snapshot" /\ gate'.at = "base digest"
             /\ stage' = "preflight"
          \/ /\ gate.at = "base digest" /\ gate'.at = "base head"
             /\ stage' = "preflight"
          \/ stage' = "planner"
      <4>1. CASE TakeSnapshot BY <4>1 DEF TakeSnapshot, At, GoTo
      <4>2. CASE ReadBaseDigest BY <4>2 DEF ReadBaseDigest, At, GoTo
      <4>3. CASE ReadBaseHead BY <4>3 DEF ReadBaseHead, GoTo
      <4> QED BY <2>3, <4>1, <4>2, <4>3
    <3>2. /\ gate.at = "snapshot" => PreflightLeft = 3
          /\ gate.at = "base digest" => PreflightLeft = 2
          /\ gate'.at = "base digest" => PreflightLeft' = 2
          /\ gate'.at = "base head" => PreflightLeft' = 1
      <4>1. /\ gate.at = "snapshot" => PreflightLeft = 3
            /\ gate.at = "base digest" => PreflightLeft = 2
        BY DEF PreflightLeft
      <4>2. /\ gate'.at = "base digest" => PreflightLeft' = 2
            /\ gate'.at = "base head" => PreflightLeft' = 1
        BY DEF PreflightLeft
      <4> QED BY <4>1, <4>2
    <3>3. left = Cost + 28 + PreflightLeft
      BY <1>0, <1>b, <2>1, Zenon DEF ByStage
    <3>4. stage' = "preflight" => next = Cost + 28 + PreflightLeft'
      BY <1>0, <1>b, Zenon DEF ByStage
    <3>5. \/ left = Cost + 28 + 3 /\ next = Cost + 28 + 2
          \/ left = Cost + 28 + 2 /\ next = Cost + 28 + 1
          \/ stage' = "planner"
      BY <3>1, <3>2, <3>3, <3>4, Zenon
    <3>6. next < left BY <1>c, <2>1, <3>5
    <3> QED BY <1>0, <1>b, <2>1, <3>1, <3>6, RoundAdvances
  <2> QED BY <1>2, <2>2, <2>3 DEF Preflight
<1>3. CASE PreflightFails \/ GateFails \/ GateRefuses \/ GraphRaises
  <2>1. stage # "end"
    BY <1>3, GateSteps DEF PreflightFails, GateFails, GateRefuses, GraphRaises
  <2> QED BY <1>3, <2>1, EndAdvances
          DEF PreflightFails, GateFails, GateRefuses, GraphRaises, StopWith,
          GoTo
<1>4. CASE Enter
  <2>1. /\ stage \in {"planner", "implementer", "reviewer"}
        /\ gate.at = "enter" /\ ~gate.after /\ UNCHANGED budget
    BY <1>4 DEF Enter, TypeInv, Placed
  <2>2. CASE run.calls >= budget[2] BY <1>1, <1>4, <2>1, <2>2 DEF Enter
  <2>3. CASE ~(run.calls >= budget[2])
    <3>1. stage' = stage /\ gate'.at = "head" /\ ~gate'.after /\ UNCHANGED run
      BY <1>4, <2>3 DEF Enter, GoTo
    <3>2. AgentLeft = 8 BY <2>1 DEF AgentLeft
    <3>3. AgentLeft' = 7 BY <3>1 DEF AgentLeft, Reads
    <3>4. next < left
      <4>1. al = 8 /\ bl = 7 BY <1>a, <3>2, <3>3, Zenon
      <4> QED BY <1>d, <2>1, <3>1, <4>1
    <3> QED BY <1>0, <1>b, <2>1, <3>1, <3>4, RoundAdvances
  <2> QED BY <2>2, <2>3
<1>5. CASE GateHead \/ GateChanged
  <2>1. /\ stage \in {"planner", "implementer", "verify", "reviewer"}
        /\ UNCHANGED <<stage, run, budget>>
    BY <1>5, GateSteps DEF GateHead, GateChanged
  <2>2. /\ gate'.after = gate.after
        /\ \/ gate.at = "head" /\ gate'.at = "changed"
           \/ gate.at = "changed" /\ gate'.at = "digest"
    BY <1>0, <1>5 DEF GateHead, GateChanged, GateType
  <2>3. Reads' < Reads /\ Reads' \in Nat /\ Reads \in Nat BY <2>2 DEF Reads
  <2>4. AgentLeft' < AgentLeft /\ AgentLeft' \in Nat /\ AgentLeft \in Nat
    BY <2>2, <2>3 DEF AgentLeft
  <2>5. CommandsLeft' < CommandsLeft
    <3>1. CommandLeft = Reads /\ CommandLeft' = Reads'
      BY <2>2 DEF CommandLeft
    <3>2. PICK r \in Nat, q \in Nat : r = Reads /\ q = Reads' BY <2>3
    <3>3. q < r BY <2>3, <3>2, Zenon
    <3>4. \/ CommandsLeft = Cost + r /\ CommandsLeft' = Cost + q
          \/ /\ CommandsLeft = Cost - 6 * ran + r
             /\ CommandsLeft' = Cost - 6 * ran + q
      BY <1>0, <1>a, <2>1, <2>2, <3>1, <3>2, Zenon DEF CommandsLeft
    <3> QED BY <1>c, <3>3, <3>4
  <2>6. next < left
    <3>1. bl < al /\ dl < cl BY <1>a, <2>4, <2>5, Zenon
    <3> QED BY <1>c, <2>1, <3>1
  <2> QED BY <1>0, <1>b, <2>1, <2>6, RoundAdvances
<1>6. CASE Proceed
  <2>1. /\ stage \in {"planner", "implementer", "verify", "reviewer"}
        /\ gate.at = "digest" /\ ~gate.after /\ ~gate'.after
        /\ stage' = stage /\ UNCHANGED budget
    BY <1>6, GateSteps DEF Proceed, Passed, GoTo
  <2>2. CASE stage = "verify"
    <3>1. run' = [run EXCEPT !.receipts = <<>>] /\ gate'.at = "start"
      BY <1>6, <2>2 DEF Proceed, GoTo
    <3>2. Len(run'.receipts) = 0 /\ run'.round = run.round
      BY <1>0, <3>1 DEF Run
    <3>3. CommandsLeft = Cost + 1 BY <2>1 DEF CommandsLeft, Reads
    <3>4. CommandLeft' = 0 BY <3>1 DEF CommandLeft, Reads
    <3>5. CommandsLeft' = Cost
      BY <1>0, <3>1, <3>2, <3>4 DEF CommandsLeft, Counted
    <3>6. next < left
      <4>1. cl = Cost + 1 /\ dl = Cost BY <1>a, <3>3, <3>5, Zenon
      <4> QED BY <1>c, <2>1, <2>2, <4>1
    <3> QED BY <1>0, <1>b, <2>1, <2>2, <3>2, <3>6, RoundAdvances
  <2>3. CASE stage # "verify"
    <3>1. gate'.at = "call" /\ UNCHANGED run
      BY <1>6, <2>3 DEF Proceed, GoTo
    <3>2. AgentLeft = 5 BY <2>1 DEF AgentLeft, Reads
    <3>3. AgentLeft' = 4 BY <2>1, <3>1 DEF AgentLeft, Reads
    <3>4. next < left
      <4>1. al = 5 /\ bl = 4 BY <1>a, <3>2, <3>3, Zenon
      <4>2. stage \in {"planner", "implementer", "reviewer"} BY <2>1, <2>3
      <4> QED BY <1>d, <2>1, <4>1, <4>2
    <3> QED BY <1>0, <1>b, <2>1, <2>3, <3>1, <3>4, RoundAdvances
  <2> QED BY <2>2, <2>3
<1>7. CASE AgentReturns
  <2>1. /\ stage \in {"planner", "implementer", "reviewer"}
        /\ \E value : Return(value)
    BY <1>7 DEF AgentReturns, PlannerReturns, ImplementerReturns,
       ReviewerReturns
  <2>2. /\ run' = [run EXCEPT !.calls = run.calls + 1]
        /\ gate' = [gate EXCEPT !.at = "head", !.after = TRUE]
        /\ UNCHANGED <<stage, budget>> /\ gate.at = "call"
    BY <2>1 DEF Return, Recheck
  <2>3. /\ run'.round = run.round /\ gate'.at = "head" /\ gate'.after
        /\ ~gate.after
    BY <1>0, <2>2 DEF Run, GateType, TypeInv, Placed
  <2>4. AgentLeft = 4 BY <2>2, <2>3 DEF AgentLeft, Reads
  <2>5. AgentLeft' = 3 BY <2>3 DEF AgentLeft, Reads
  <2>6. next < left
    <3>1. al = 4 /\ bl = 3 BY <1>a, <2>4, <2>5, Zenon
    <3> QED BY <1>d, <2>1, <2>2, <3>1
  <2> QED BY <1>0, <1>b, <2>1, <2>2, <2>3, <2>6, RoundAdvances
<1>8. CASE Planned \/ Implemented \/ Reviewed
  <2>1. /\ stage \in {"planner", "implementer", "reviewer"} /\ gate.after
        /\ gate.at = "digest" /\ UNCHANGED budget
    BY <1>8 DEF Planned, Implemented, Reviewed, Passed
  <2>2. CASE stage' = "end" BY <2>1, <2>2, EndAdvances
  <2>3. CASE stage' # "end"
    <3>1. \/ /\ stage = "planner" /\ stage' = "implementer"
             /\ gate'.at = "enter" /\ ~gate'.after
          \/ /\ stage = "implementer" /\ stage' = "verify"
             /\ gate'.at = "head" /\ ~gate'.after
          \/ stage = "reviewer" /\ stage' = "decide"
      BY <1>8, <2>3 DEF Planned, Implemented, Reviewed, GoTo, Stop, StopWith
    <3>2. run'.round = run.round
      BY <1>0, <1>8 DEF Planned, Implemented, Reviewed, Stop, StopWith, Run
    <3>3. \/ stage = "planner" /\ AgentLeft = 1 /\ AgentLeft' = 8
          \/ stage = "implementer" /\ AgentLeft = 1 /\ CommandsLeft' = Cost + 3
          \/ stage = "reviewer" /\ AgentLeft = 1
      <4>1. AgentLeft = 1 BY <2>1 DEF AgentLeft, Reads
      <4>2. gate'.at = "enter" /\ ~gate'.after => AgentLeft' = 8
        BY DEF AgentLeft
      <4>3. gate'.at = "head" /\ ~gate'.after => CommandsLeft' = Cost + 3
        BY <1>0 DEF CommandsLeft, Reads
      <4> QED BY <3>1, <4>1, <4>2, <4>3
    <3>4. next < left
      <4>1. \/ stage = "planner" /\ al = 1 /\ bl = 8
            \/ stage = "implementer" /\ al = 1 /\ dl = Cost + 3
            \/ stage = "reviewer" /\ al = 1
        BY <1>a, <3>3, Zenon
      <4> QED BY <1>c, <3>1, <4>1
    <3> QED BY <1>0, <1>b, <2>1, <2>3, <3>2, <3>4, RoundAdvances
  <2> QED BY <2>2, <2>3
<1>9. CASE StartCommand
  <2>1. stage = "verify" /\ gate.at = "start" /\ UNCHANGED <<stage, budget>>
    BY <1>9, GateSteps DEF StartCommand
  <2>2. gate'.at = "open" BY <1>0, <1>9 DEF StartCommand, GateType
  <2>3. ~gate.after BY <2>1 DEF TypeInv, Placed
  <2>4. Len(run'.receipts) = Len(run.receipts) + 1 /\ run'.round = run.round
    BY <1>0, <1>9 DEF StartCommand, Run
  <2>5. CommandLeft = 0 /\ CommandLeft' = 5
    BY <2>1, <2>2 DEF CommandLeft, Reads
  <2>6. /\ CommandsLeft = Cost - 6 * Len(run.receipts)
        /\ CommandsLeft' = Cost - 6 * (Len(run.receipts) + 1) + 5
    BY <1>0, <2>1, <2>2, <2>4, <2>5 DEF CommandsLeft, Counted
  <2>7. next < left
    <3>1. cl = Cost - 6 * ran /\ dl = Cost - 6 * (ran + 1) + 5
      BY <1>a, <2>6, Zenon
    <3> QED BY <1>c, <2>1, <3>1
  <2> QED BY <1>0, <1>b, <2>1, <2>4, <2>7, RoundAdvances
<1>10. CASE TimeOut \/ Command
  <2>1. /\ stage = "verify" /\ gate.at \in {"open", "silent"}
        /\ UNCHANGED <<stage, budget>>
    BY <1>10, GateSteps DEF TimeOut, Command, CloseOutput, Finish
  <2>2. \/ gate'.at = "head" /\ gate'.after
        \/ gate.at = "open" /\ gate'.at = "silent"
    BY <1>0, <1>10
       DEF TimeOut, Command, CloseOutput, Finish, Recheck, GateType
  <2>3. Len(run'.receipts) = Len(run.receipts) /\ run'.round = run.round
    <3>1. CASE TimeOut \/ CloseOutput BY <3>1 DEF TimeOut, CloseOutput
    <3>2. ASSUME NEW ok \in BOOLEAN, Finish(ok)
          PROVE  Len(run'.receipts) = Len(run.receipts)
                 /\ run'.round = run.round
      <4> DEFINE n == Len(run.receipts)
                 done == [run.receipts EXCEPT ![n] =
                            [run.receipts[n] EXCEPT !.ok = ok]]
      <4>1. Len(done) = Len(run.receipts) BY <1>0
      <4>2. run' = [run EXCEPT !.receipts = done] BY <3>2 DEF Finish
      <4> HIDE DEF done
      <4> QED BY <1>0, <4>1, <4>2 DEF Run
    <3> QED BY <1>10, <3>1, <3>2 DEF Command
  <2>4. CommandLeft' < CommandLeft
    <3>1. gate'.at = "head" => CommandLeft' = 3 BY DEF CommandLeft, Reads
    <3>2. gate'.at = "silent" => CommandLeft' = 4 BY DEF CommandLeft
    <3>3. gate.at = "open" => CommandLeft = 5 BY DEF CommandLeft
    <3>4. gate.at = "silent" => CommandLeft = 4 BY DEF CommandLeft
    <3> QED BY <2>1, <2>2, <3>1, <3>2, <3>3, <3>4
  <2>5. /\ CommandsLeft = Cost - 6 * Len(run.receipts) + CommandLeft
        /\ CommandsLeft' = Cost - 6 * Len(run.receipts) + CommandLeft'
    BY <1>0, <2>1, <2>2, <2>3 DEF CommandsLeft
  <2>6. next < left
    <3>1. PICK r \in Int, q \in Int : r = CommandLeft /\ q = CommandLeft'
      BY <1>0 DEF Counted
    <3>2. cl = Cost - 6 * ran + r /\ dl = Cost - 6 * ran + q /\ q < r
      BY <1>a, <2>4, <2>5, <3>1, Zenon
    <3> QED BY <1>c, <2>1, <3>2
  <2> QED BY <1>0, <1>b, <2>1, <2>3, <2>6, RoundAdvances
<1>11. CASE Verified
  <2>1. /\ stage = "verify" /\ gate.after /\ gate.at = "digest"
        /\ UNCHANGED <<run, budget>> /\ ~gate'.after
    BY <1>11 DEF Verified, Passed, GoTo
  <2>2. Len(run.receipts) <= Commands
    BY <2>1 DEF ReadyInv, Commanded, Judging
  <2>3. \/ /\ Len(run.receipts) < Commands
           /\ stage' = "verify" /\ gate'.at = "start"
        \/ stage' = "reviewer" /\ gate'.at = "enter"
    BY <1>11 DEF Verified, GoTo
  <2>4. CommandsLeft = Cost - 6 * Len(run.receipts) + 1
    <3>1. CommandLeft = 1 BY <2>1 DEF CommandLeft, Reads
    <3> QED BY <2>1, <3>1 DEF CommandsLeft
  <2>5. gate'.at = "start" => CommandsLeft' = Cost - 6 * Len(run.receipts)
    <3>1. gate'.at = "start" => CommandLeft' = 0 BY DEF CommandLeft, Reads
    <3> QED BY <1>0, <2>1, <3>1 DEF CommandsLeft, Counted
  <2>6. gate'.at = "enter" => AgentLeft' = 8 BY <2>1 DEF AgentLeft
  <2>7. next < left
    <3>1. /\ cl = Cost - 6 * ran + 1 /\ ran <= Commands
          /\ gate'.at = "start" => dl = Cost - 6 * ran
          /\ gate'.at = "enter" => bl = 8
      BY <1>a, <2>2, <2>4, <2>5, <2>6, Zenon
    <3>2. Cost = 6 * Commands /\ Commands \in Nat BY <1>0 DEF Counted
    <3>3. stage = "verify" BY <2>1
    <3>4. \/ stage' = "verify" /\ gate'.at = "start"
          \/ stage' = "reviewer" /\ gate'.at = "enter"
      BY <2>3
    <3> QED BY <1>c, <3>1, <3>2, <3>3, <3>4
  <2> QED BY <1>0, <1>b, <2>1, <2>3, <2>7, RoundAdvances
<1>12. CASE Decide
  <2>1. stage = "decide" /\ UNCHANGED budget BY <1>12 DEF Decide
  <2>2. CASE \E d : Stop(d) BY <1>1, <2>1, <2>2
  <2>3. CASE /\ ~Exhausted /\ run' = [run EXCEPT !.round = @ + 1]
             /\ GoTo("implementer", "enter")
    <3>1. run'.round = run.round + 1 BY <1>0, <2>3 DEF Run
    <3>2. stage' = "implementer" /\ gate'.at = "enter" /\ ~gate'.after
      BY <2>3 DEF GoTo
    <3>3. RoundLeft = 1 /\ RoundLeft' = Cost + 20
      BY <1>0, <2>1, <3>2 DEF ByStage, Counted, AgentLeft
    <3>4. \A a, b \in Int : (a - 1) * b = a * b - b OBVIOUS
    <3>5. PICK k \in Nat : k = Cost + 33 BY <1>0 DEF Counted
    <3>6. PICK a \in Int : a = budget[1] - run.round BY BudgetType
    <3>7. budget[1]' - run'.round = a - 1 BY <2>1, <3>1, <3>6, BudgetType
    <3>8. StepsLeft = a * k + 1 /\ StepsLeft' = (a - 1) * k + Cost + 20
      BY <1>0, <2>1, <3>2, <3>3, <3>5, <3>6, <3>7 DEF StepsLeft, Counted
    <3>9. PICK w \in Int : w = a * k OBVIOUS
    <3>10. (a - 1) * k = w - k BY <3>4, <3>9
    <3> QED BY <1>0, <3>5, <3>8, <3>9, <3>10 DEF Counted
  <2> QED BY <1>12, <2>2, <2>3 DEF Decide
<1>13. CASE \/ Outsiders
            \/ \E p \in Paths, v \in Drafts \cup {Clean} :
                 ImplementerWrites(p, v)
            \/ stage = "end" /\ UNCHANGED vars
  BY <1>13 DEF Outsiders, ImplementerWrites, Scribble, PutBack, Overwrite,
     MoveHead, Meddle, vars
<1> QED BY <1>2, <1>3, <1>4, <1>5, <1>6, <1>7, <1>8, <1>9, <1>10, <1>11,
           <1>12, <1>13
        DEF DevLoopNext, Gate, Continue

\* The loop's own steps are bounded from the start, whatever agents answer and
\* outsiders do: every one of them leaves fewer.  So a loop that does not end
\* waits for an agent or for a command.
THEOREM LoopAdvances ==
  DevLoopSpec =>
    /\ [](StepsLeft \in Nat)
    /\ [][UNCHANGED <<stage, gate, run>> \/ StepsLeft' < StepsLeft]_vars
<1>1. TypeInv /\ Affordable /\ ReadyInv => StepsLeft \in Nat
  BY StepsLeftType
<1>2. TypeInv /\ TypeInv' /\ Affordable /\ ReadyInv /\ ReadyInv' /\ DevLoopNext
        => UNCHANGED <<stage, gate, run>> \/ StepsLeft' < StepsLeft
  BY StepAdvances
<1>3. TypeInv /\ TypeInv' /\ Affordable /\ ReadyInv /\ ReadyInv'
        /\ [DevLoopNext]_vars
        => [UNCHANGED <<stage, gate, run>> \/ StepsLeft' < StepsLeft]_vars
  BY <1>2
<1> QED BY <1>1, <1>3, TypeInvCorrect, AffordableCorrect, ReadyInvCorrect, PTL
        DEF DevLoopSpec

=============================================================================
