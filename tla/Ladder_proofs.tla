---------------------------- MODULE Ladder_proofs ----------------------------
(***************************************************************************)
(* Theorems about Ladder, for every ladder file, every number of runs at   *)
(* the same time with any switches, and every fault.                       *)
(***************************************************************************)
EXTENDS Ladder, TLAPS

LEMMA StepCases ==
    ASSUME Next, NEW G,
           \A r \in Runner : \A o \in Options[r] : Start(r, o) => G,
           \A r \in Runner : Resolve(r) => G, \A r \in Runner : Reset(r) => G,
           \A r \in Runner : GitFails(r) => G, \A r \in Runner : RefuseRung(r) => G,
           \A r \in Runner : AddWorktree(r) => G, \A r \in Runner : RunCommands(r) => G,
           \A r \in Runner : RejectCommand(r) => G, \A r \in Runner : CommandFails(r) => G,
           \A r \in Runner : CommitRung(r) => G, \A r \in Runner : MoveBranch(r) => G,
           \A r \in Runner : Clean(r) => G, \A r \in Runner : CleanFails(r) => G,
           \A r \in Runner : Complete(r) => G, \A r \in Runner : Caught(r) => G,
           \A r \in Runner : Kill(r) => G
    PROVE  G
BY DEF Next, Script, Pass

LEMMA OptionsType ==
    ASSUME NEW r \in Runner, NEW o \in Options[r] PROVE o \in SUBSET Switch
BY LadderAssumption

LEMMA HeadIsCommit == HEAD \in Commit
BY DEF HEAD, Commit

(* The commit that CommitRung makes. *)
LEMMA AppendRung ==
    ASSUME NEW c \in Commit, NEW k \in Nat \ {0}, NEW v \in BOOLEAN
    PROVE  /\ WithRung(c, k, v) \in Commit /\ Extends(WithRung(c, k, v), c)
           /\ Len(WithRung(c, k, v).rungs) = Len(c.rungs) + 1
           /\ WithRung(c, k, v).rungs[Len(c.rungs) + 1].rung = k
           /\ WithRung(c, k, v).rungs[Len(c.rungs) + 1].validated = v
           /\ \A i \in 1 .. Len(c.rungs) : WithRung(c, k, v).rungs[i] = c.rungs[i]
<1>. DEFINE d == WithRung(c, k, v)
            e == [rung |-> k, validated |-> v]
<1>1. e \in [rung : Nat \ {0}, validated : BOOLEAN]
      /\ c.rungs \in Seq([rung : Nat \ {0}, validated : BOOLEAN])
  BY DEF Commit
<1>2. d.rungs = Append(c.rungs, e) /\ d.base = c.base
  BY DEF WithRung
<1>3. Append(c.rungs, e) \in Seq([rung : Nat \ {0}, validated : BOOLEAN])
  BY <1>1
<1>4. /\ Len(Append(c.rungs, e)) = Len(c.rungs) + 1
      /\ Append(c.rungs, e)[Len(c.rungs) + 1] = e
      /\ \A i \in 1 .. Len(c.rungs) : Append(c.rungs, e)[i] = c.rungs[i]
  BY <1>1
<1>5. d \in Commit
  BY <1>3 DEF Commit, WithRung
<1>. QED  BY <1>1, <1>2, <1>4, <1>5 DEF Extends

LEMMA CommittedRung ==
    ASSUME TypeOK, NEW r \in Runner, CommitRung(r), NEW v \in BOOLEAN, v = (r \in validated)
    PROVE  \/ Goto(r, "passed") /\ checkpoint' = checkpoint
           \/ /\ ~Has(r, "dryrun") /\ Goto(r, "branch")
              /\ checkpoint' = [checkpoint EXCEPT ![r] = WithRung(checkpoint[r], rung[r], v)]
BY DEF CommitRung

LEMMA ExtendsItself == ASSUME NEW c \in Commit PROVE Extends(c, c)
BY DEF Commit, Extends

-------------------------------------------------------------------------------
(* Types *)

LEMMA TypeInit == Init => TypeOK
BY LadderAssumption, HeadIsCommit DEF Init, TypeOK, Pc, Outside

LEMMA TypeStep == ASSUME TypeOK, [Next]_vars PROVE TypeOK'
<1>1. CASE UNCHANGED vars
  BY <1>1 DEF TypeOK, vars, disk, history
<1>2. CASE Next
  <2>1. ASSUME NEW r \in Runner, NEW o \in Options[r], Start(r, o) PROVE TypeOK'
    BY <2>1, OptionsType DEF Start, TypeOK, Goto, Pc, disk, history
  <2>2. ASSUME NEW r \in Runner, Resolve(r) PROVE TypeOK'
    BY <2>2, HeadIsCommit DEF Resolve, Resumes, TypeOK, Goto, Pc, InPass, disk, history
  <2>3. ASSUME NEW r \in Runner, Reset(r) PROVE TypeOK'
    BY <2>3 DEF Reset, Move, TypeOK, Goto, Pc, InPass, disk, history
  <2>4. ASSUME NEW r \in Runner, GitFails(r) PROVE TypeOK'
    BY <2>4 DEF GitFails, Fails, Suffers, TypeOK, Goto, Pc, InPass, InRung, disk, history
  <2>5. ASSUME NEW r \in Runner, RefuseRung(r) PROVE TypeOK'
    BY <2>5 DEF RefuseRung, TypeOK, Goto, Pc, disk, history
  <2>6. ASSUME NEW r \in Runner, AddWorktree(r) PROVE TypeOK'
    BY <2>6 DEF AddWorktree, TypeOK, Goto, Pc, InPass, InRung, disk, history
  <2>7. ASSUME NEW r \in Runner, RunCommands(r) PROVE TypeOK'
    BY <2>7 DEF RunCommands, TypeOK, Goto, Pc, InPass, InRung, disk, history
  <2>8. ASSUME NEW r \in Runner, RejectCommand(r) PROVE TypeOK'
    BY <2>8 DEF RejectCommand, TypeOK, Goto, Pc, InPass, InRung, disk, history
  <2>9. ASSUME NEW r \in Runner, CommandFails(r) PROVE TypeOK'
    BY <2>9 DEF CommandFails, Fails, Suffers, TypeOK, Goto, Pc, InPass, InRung, disk, history
  <2>10. ASSUME NEW r \in Runner, CommitRung(r) PROVE TypeOK'
    <3>9. (r \in validated) \in BOOLEAN
      OBVIOUS
    <3>4. PICK v \in BOOLEAN : v = (r \in validated)
      BY <3>9, Zenon
    <3>. DEFINE d == WithRung(checkpoint[r], rung[r], v)
    <3>5. checkpoint[r] \in Commit /\ rung[r] \in Nat \ {0}
      BY DEF TypeOK
    <3>1. d \in Commit
      BY <3>5, AppendRung
    <3>2. checkpoint' = checkpoint \/ checkpoint' = [checkpoint EXCEPT ![r] = d]
      BY <2>10, <3>4, CommittedRung
    <3>3. checkpoint' \in [Runner -> Commit]
      BY <3>1, <3>2 DEF TypeOK
    <3>. QED  BY <2>10, <3>3 DEF CommitRung, TypeOK, Goto, Pc, InPass, InRung, disk, history
  <2>11. ASSUME NEW r \in Runner, MoveBranch(r) PROVE TypeOK'
    BY <2>11 DEF MoveBranch, Move, TypeOK, Goto, Pc, InPass, InRung, disk, history
  <2>13. ASSUME NEW r \in Runner PROVE LeaveTree(r) \subseteq [by : Runner, passed : BOOLEAN]
    <3>1. (pc[r] = "passed") \in BOOLEAN
      OBVIOUS
    <3>2. [by |-> r, passed |-> pc[r] = "passed"] \in [by : Runner, passed : BOOLEAN]
      BY <3>1
    <3>. QED  BY <3>2 DEF LeaveTree, TypeOK
  <2>14. ASSUME NEW r \in Runner, Clean(r) PROVE TypeOK'
    BY <2>13, <2>14 DEF Clean, Leave, TypeOK, Goto, Pc, InPass, InRung, disk, history
  <2>15. ASSUME NEW r \in Runner, CleanFails(r) PROVE TypeOK'
    <3>3. pc' \in [Runner -> Pc]
      BY <2>15 DEF CleanFails, Leave, TypeOK, Goto, Pc, InPass
    <3>4. rung' \in [Runner -> Nat \ {0}]
      BY <2>15 DEF CleanFails, Leave, TypeOK
    <3>1. stuck' \subseteq Runner /\ trees' \subseteq Runner
      BY <2>15 DEF CleanFails, TypeOK
    <3>2. left' \subseteq [by : Runner, passed : BOOLEAN] /\ faults' \in Nat
      BY <2>13, <2>15 DEF CleanFails, Suffers, TypeOK
    <3>. QED  BY <2>15, <3>1, <3>2, <3>3, <3>4 DEF CleanFails, TypeOK
  <2>16. ASSUME NEW r \in Runner, Complete(r) PROVE TypeOK'
    BY <2>16, HeadIsCommit DEF Complete, Then, Forget, TypeOK, Goto, Pc, Outside, disk, history
  <2>17. ASSUME NEW r \in Runner, Caught(r) PROVE TypeOK'
    BY <2>17, HeadIsCommit DEF Caught, Then, Forget, TypeOK, Goto, Pc, Outside, disk, history
  <2>18. ASSUME NEW r \in Runner, Kill(r) PROVE TypeOK'
    BY <2>13, <2>18, HeadIsCommit DEF Kill, Suffers, Forget, TypeOK, Goto, Pc, Outside, disk, history
  <2>. QED  BY <1>2, <2>1, <2>2, <2>3, <2>4, <2>5, <2>6, <2>7, <2>8, <2>9, <2>10, <2>11,
              <2>14, <2>15, <2>16, <2>17, <2>18, StepCases
<1>. QED  BY <1>1, <1>2

(* Every variable of the script and of the repository keeps its type: the  *)
(* branch a run resumes is there.                                          *)
THEOREM LadderTypeCorrect == Spec => []TypeOK
BY TypeInit, TypeStep, PTL DEF Spec
-------------------------------------------------------------------------------
(* What is committed has passed its validation *)

Sound(c) ==
    \A i \in 1 .. Len(c.rungs) :
        ladder[c.rungs[i].rung] = "vacuous" \/ c.rungs[i].validated

(* The commits of the branch and of all runs are sound, and a rung about   *)
(* to be committed has passed, but in a dry run, which commits nothing.    *)
SoundInv ==
    /\ branch # None => Sound(branch)
    /\ \A r \in Runner :
          /\ Sound(checkpoint[r])
          /\ pc[r] = "commit" /\ ~Has(r, "dryrun") =>
                ladder[rung[r]] = "vacuous" \/ r \in validated

LEMMA HeadIsSound == Sound(HEAD)
BY DEF Sound, HEAD

LEMMA SoundRung ==
    ASSUME NEW c \in Commit, NEW k \in Nat \ {0}, NEW v \in BOOLEAN,
           Sound(c), ladder[k] = "vacuous" \/ v
    PROVE  Sound(WithRung(c, k, v))
<1>. DEFINE d == WithRung(c, k, v)
            n == Len(c.rungs)
<1>1. /\ Len(d.rungs) = n + 1 /\ d.rungs[n + 1].rung = k /\ d.rungs[n + 1].validated = v
      /\ \A i \in 1 .. n : d.rungs[i] = c.rungs[i]
  BY AppendRung
<1>2. n \in Nat
  BY DEF Commit
<1>3. ASSUME NEW i \in 1 .. n + 1
      PROVE  ladder[d.rungs[i].rung] = "vacuous" \/ d.rungs[i].validated
  <2>1. CASE i = n + 1
    BY <1>1, <2>1
  <2>2. CASE i # n + 1
    <3>1. i \in 1 .. n
      BY <1>2, <2>2
    <3>. QED  BY <1>1, <3>1 DEF Sound
  <2>. QED  BY <2>1, <2>2
<1>. QED  BY <1>1, <1>3 DEF Sound

LEMMA SoundInit == Init => SoundInv
BY LadderAssumption, HeadIsSound DEF Init, SoundInv, Sound, Has

LEMMA SoundStep == ASSUME TypeOK, SoundInv, [Next]_vars PROVE SoundInv'
<1>1. CASE UNCHANGED vars
  BY <1>1 DEF SoundInv, Sound, Has, Goto, TypeOK, disk, history, vars, disk, history
<1>2. CASE Next
  <2>1. ASSUME NEW r \in Runner, NEW o \in Options[r], Start(r, o) PROVE SoundInv'
    BY <2>1, HeadIsSound DEF Start, SoundInv, Sound, Has, Goto, TypeOK, disk, history
  <2>2. ASSUME NEW r \in Runner, Resolve(r) PROVE SoundInv'
    BY <2>2, HeadIsSound DEF Resolve, Resumes, SoundInv, Sound, Has, Goto, TypeOK, disk, history
  <2>3. ASSUME NEW r \in Runner, Reset(r) PROVE SoundInv'
    BY <2>3, HeadIsSound DEF Reset, Move, SoundInv, Sound, Has, Goto, TypeOK, disk, history
  <2>4. ASSUME NEW r \in Runner, GitFails(r) PROVE SoundInv'
    BY <2>4, HeadIsSound DEF GitFails, Fails, SoundInv, Sound, Has, Goto, TypeOK, disk, history
  <2>5. ASSUME NEW r \in Runner, RefuseRung(r) PROVE SoundInv'
    BY <2>5, HeadIsSound DEF RefuseRung, SoundInv, Sound, Has, Goto, TypeOK, disk, history
  <2>6. ASSUME NEW r \in Runner, AddWorktree(r) PROVE SoundInv'
    BY <2>6, HeadIsSound DEF AddWorktree, SoundInv, Sound, Has, Goto, TypeOK, disk, history
  <2>7. ASSUME NEW r \in Runner, RunCommands(r) PROVE SoundInv'
    BY <2>7, HeadIsSound DEF RunCommands, SoundInv, Sound, Has, Goto, TypeOK, disk, history
  <2>8. ASSUME NEW r \in Runner, RejectCommand(r) PROVE SoundInv'
    BY <2>8, HeadIsSound DEF RejectCommand, SoundInv, Sound, Has, Goto, TypeOK, disk, history
  <2>9. ASSUME NEW r \in Runner, CommandFails(r) PROVE SoundInv'
    BY <2>9, HeadIsSound DEF CommandFails, Fails, SoundInv, Sound, Has, Goto, TypeOK, disk, history
  <2>10. ASSUME NEW r \in Runner, CommitRung(r) PROVE SoundInv'
    <3>9. (r \in validated) \in BOOLEAN
      OBVIOUS
    <3>8. PICK v \in BOOLEAN : v = (r \in validated)
      BY <3>9, Zenon
    <3>. DEFINE d == WithRung(checkpoint[r], rung[r], v)
    <3>1. checkpoint[r] \in Commit /\ rung[r] \in Nat \ {0}
      BY DEF TypeOK
    <3>2. checkpoint' = checkpoint
          \/ (~Has(r, "dryrun") /\ checkpoint' = [checkpoint EXCEPT ![r] = d])
      BY <2>10, <3>8, CommittedRung
    <3>3. ASSUME checkpoint' = [checkpoint EXCEPT ![r] = d], ~Has(r, "dryrun") PROVE Sound(d)
      <4>1. ladder[rung[r]] = "vacuous" \/ v
        BY <2>10, <3>3, <3>8 DEF CommitRung, SoundInv
      <4>2. Sound(checkpoint[r])
        BY DEF SoundInv
      <4>. QED  BY <3>1, <4>1, <4>2, SoundRung
    <3>4. \A s \in Runner : Sound(checkpoint'[s])
      BY <3>2, <3>3 DEF SoundInv, TypeOK
    <3>. QED  BY <2>10, <3>4 DEF CommitRung, SoundInv, Sound, Has, Goto, TypeOK
  <2>11. ASSUME NEW r \in Runner, MoveBranch(r) PROVE SoundInv'
    BY <2>11, HeadIsSound DEF MoveBranch, Move, SoundInv, Sound, Has, Goto, TypeOK, disk, history
  <2>12. ASSUME NEW r \in Runner, Clean(r) PROVE SoundInv'
    BY <2>12, HeadIsSound DEF Clean, Leave, SoundInv, Sound, Has, Goto, TypeOK, disk, history
  <2>13. ASSUME NEW r \in Runner, CleanFails(r) PROVE SoundInv'
    BY <2>13, HeadIsSound DEF CleanFails, Leave, SoundInv, Sound, Has, Goto, TypeOK, disk, history
  <2>14. ASSUME NEW r \in Runner, Complete(r) PROVE SoundInv'
    BY <2>14, HeadIsSound DEF Complete, Then, Forget, SoundInv, Sound, Has, Goto, TypeOK, disk, history
  <2>15. ASSUME NEW r \in Runner, Caught(r) PROVE SoundInv'
    BY <2>15, HeadIsSound DEF Caught, Then, Forget, SoundInv, Sound, Has, Goto, TypeOK, disk, history
  <2>16. ASSUME NEW r \in Runner, Kill(r) PROVE SoundInv'
    BY <2>16, HeadIsSound DEF Kill, Forget, SoundInv, Sound, Has, Goto, TypeOK, disk, history
  <2>. QED  BY <1>2, <2>1, <2>2, <2>3, <2>4, <2>5, <2>6, <2>7, <2>8, <2>9, <2>10, <2>11,
              <2>12, <2>13, <2>14, <2>15, <2>16, StepCases
<1>. QED  BY <1>1, <1>2

(* "A rung is committed to the checkpoint branch only after all validation *)
(* commands pass": whatever fails, whoever runs at the same time.          *)
THEOREM LadderOnlyValidated == Spec => []OnlyValidated
<1>1. SoundInv => OnlyValidated
  BY DEF SoundInv, Sound, OnlyValidated
<1>. QED  BY <1>1, TypeInit, TypeStep, SoundInit, SoundStep, PTL DEF Spec

-------------------------------------------------------------------------------
(* Progress is kept *)

(* In whose pass nobody else has moved the branch, has it where his        *)
(* checkpoint is, or one commit behind, until he moves it.                 *)
TrackInv ==
    \A r \in Runner \ raced :
        /\ pc[r] = "reset" => restart[r] \/ branch = None
        /\ pc[r] \in {"rung", "commands", "commit", "passed"} => checkpoint[r] = branch
        /\ pc[r] = "branch" => branch # None /\ Extends(checkpoint[r], branch)

LEMMA TrackInit == Init => TrackInv
BY DEF Init, TrackInv

LEMMA TrackStep == ASSUME TypeOK, TrackInv, [Next]_vars PROVE TrackInv'
<1>1. CASE UNCHANGED vars
  BY <1>1 DEF TrackInv, Goto, InPass, InRung, TypeOK, disk, history, vars, disk, history
<1>2. CASE Next
  <2>1. ASSUME NEW r \in Runner, NEW o \in Options[r], Start(r, o) PROVE TrackInv'
    BY <2>1 DEF Start, TrackInv, Goto, InPass, InRung, TypeOK, disk, history
  <2>2. ASSUME NEW r \in Runner, Resolve(r) PROVE TrackInv'
    BY <2>2 DEF Resolve, Resumes, TrackInv, Goto, InPass, InRung, TypeOK, disk, history
  <2>3. ASSUME NEW r \in Runner, Reset(r) PROVE TrackInv'
    BY <2>3 DEF Reset, Move, TrackInv, Goto, InPass, InRung, TypeOK, disk, history
  <2>4. ASSUME NEW r \in Runner, GitFails(r) PROVE TrackInv'
    BY <2>4 DEF GitFails, Fails, TrackInv, Goto, InPass, InRung, TypeOK, disk, history
  <2>5. ASSUME NEW r \in Runner, RefuseRung(r) PROVE TrackInv'
    BY <2>5 DEF RefuseRung, TrackInv, Goto, InPass, InRung, TypeOK, disk, history
  <2>6. ASSUME NEW r \in Runner, AddWorktree(r) PROVE TrackInv'
    BY <2>6 DEF AddWorktree, TrackInv, Goto, InPass, InRung, TypeOK, disk, history
  <2>7. ASSUME NEW r \in Runner, RunCommands(r) PROVE TrackInv'
    BY <2>7 DEF RunCommands, TrackInv, Goto, InPass, InRung, TypeOK, disk, history
  <2>8. ASSUME NEW r \in Runner, RejectCommand(r) PROVE TrackInv'
    BY <2>8 DEF RejectCommand, TrackInv, Goto, InPass, InRung, TypeOK, disk, history
  <2>9. ASSUME NEW r \in Runner, CommandFails(r) PROVE TrackInv'
    BY <2>9 DEF CommandFails, Fails, TrackInv, Goto, InPass, InRung, TypeOK, disk, history
  <2>10. ASSUME NEW r \in Runner, CommitRung(r) PROVE TrackInv'
    <3>9. (r \in validated) \in BOOLEAN
      OBVIOUS
    <3>8. PICK v \in BOOLEAN : v = (r \in validated)
      BY <3>9, Zenon
    <3>. DEFINE d == WithRung(checkpoint[r], rung[r], v)
    <3>1. checkpoint[r] \in Commit /\ rung[r] \in Nat \ {0}
      BY DEF TypeOK
    <3>2. Extends(d, checkpoint[r])
      BY <3>1, AppendRung
    <3>7. \/ Goto(r, "passed") /\ checkpoint' = checkpoint
          \/ Goto(r, "branch") /\ checkpoint' = [checkpoint EXCEPT ![r] = d]
      BY <2>10, <3>8, CommittedRung
    <3>3. \/ pc'[r] = "passed" /\ checkpoint' = checkpoint
          \/ pc'[r] = "branch" /\ checkpoint' = [checkpoint EXCEPT ![r] = d]
      BY <3>7 DEF Goto, TypeOK
    <3>4. \A s \in Runner \ {r} : pc'[s] = pc[s] /\ checkpoint'[s] = checkpoint[s]
      BY <3>7 DEF Goto, TypeOK
    <3>5. r \notin raced => branch # None /\ branch = checkpoint[r]
      BY <2>10, <3>1, LadderAssumption DEF CommitRung, TrackInv
    <3>6. r \notin raced => (pc'[r] = "branch" => Extends(checkpoint'[r], branch))
      BY <3>2, <3>3, <3>5 DEF TypeOK
    <3>. QED  BY <2>10, <3>3, <3>4, <3>5, <3>6 DEF CommitRung, TrackInv, TypeOK
  <2>11. ASSUME NEW r \in Runner, MoveBranch(r) PROVE TrackInv'
    BY <2>11 DEF MoveBranch, Move, TrackInv, Goto, InPass, InRung, TypeOK, disk, history
  <2>12. ASSUME NEW r \in Runner, Clean(r) PROVE TrackInv'
    BY <2>12 DEF Clean, Leave, TrackInv, Goto, InPass, InRung, TypeOK, disk, history
  <2>13. ASSUME NEW r \in Runner, CleanFails(r) PROVE TrackInv'
    BY <2>13 DEF CleanFails, Leave, TrackInv, Goto, InPass, InRung, TypeOK, disk, history
  <2>14. ASSUME NEW r \in Runner, Complete(r) PROVE TrackInv'
    BY <2>14 DEF Complete, Then, Forget, TrackInv, Goto, InPass, InRung, TypeOK, disk, history
  <2>15. ASSUME NEW r \in Runner, Caught(r) PROVE TrackInv'
    BY <2>15 DEF Caught, Then, Forget, TrackInv, Goto, InPass, InRung, TypeOK, disk, history
  <2>16. ASSUME NEW r \in Runner, Kill(r) PROVE TrackInv'
    BY <2>16 DEF Kill, Forget, TrackInv, Goto, InPass, InRung, TypeOK, disk, history
  <2>. QED  BY <1>2, <2>1, <2>2, <2>3, <2>4, <2>5, <2>6, <2>7, <2>8, <2>9, <2>10, <2>11,
              <2>12, <2>13, <2>14, <2>15, <2>16, StepCases
<1>. QED  BY <1>1, <1>2

(* After any failure a rung is tried on the commit the branch is at.       *)
THEOREM LadderResumesKnownGood == Spec => []ResumesKnownGood
<1>1. TrackInv => ResumesKnownGood
  BY DEF TrackInv, ResumesKnownGood
<1>. QED  BY <1>1, TypeInit, TypeStep, TrackInit, TrackStep, PTL DEF Spec

(* The step of KeepsProgress. *)
Progress ==
    \/ branch = None \/ Extends(branch', branch)
    \/ \E r \in Runner :
          /\ pc'[r] # pc[r]
          /\ r \in raced \/ (restart[r] /\ pc[r] = "reset")

LEMMA ProgressStep == ASSUME TypeOK, TrackInv, [Next]_vars PROVE [Progress]_branch
<1>1. CASE branch' = branch
  BY <1>1
<1>2. CASE Next /\ branch' # branch
  <2>1. PICK r \in Runner : Reset(r) \/ MoveBranch(r)
    BY <1>2 DEF Next, Script, Pass, Start, Resolve, GitFails, Fails, RefuseRung, AddWorktree,
           RunCommands, RejectCommand, CommandFails, CommitRung, Clean, CleanFails, Complete,
           Caught, Kill
  <2>2. CASE Reset(r)
    BY <2>2 DEF Reset, Goto, TrackInv, Progress, TypeOK
  <2>3. CASE MoveBranch(r)
    BY <2>3 DEF MoveBranch, Move, Goto, TrackInv, Progress, TypeOK
  <2>. QED  BY <2>1, <2>2, <2>3
<1>. QED  BY <1>1, <1>2 DEF vars

(* No failure, kill or dry run takes a rung from the branch.               *)
THEOREM LadderKeepsProgress == Spec => KeepsProgress
<1>1. TypeOK /\ TrackInv /\ [Next]_vars =>
        [branch = None \/ Extends(branch', branch)
           \/ \E r \in Runner :
                 /\ pc'[r] # pc[r]
                 /\ r \in raced \/ (restart[r] /\ pc[r] = "reset")]_branch
  BY ProgressStep DEF Progress
<1>. QED  BY <1>1, TypeInit, TypeStep, TrackInit, TrackStep, PTL DEF Spec, KeepsProgress

-------------------------------------------------------------------------------
(* A restart starts from HEAD *)

Alone(r) == \A s \in Runner \ {r} : pc[s] = "idle"
Based == branch # None /\ branch.base = HEAD.base

(* Before its first reset a run alone with -Restart still has the restart  *)
(* to do; from then on the branch is built on HEAD.                        *)
BaseInv ==
    \A r \in Runner \ forgot :
        Has(r, "restart") /\ Alone(r) =>
            /\ pc[r] = "resolve" => restart[r] \/ Based
            /\ pc[r] = "reset" => restart[r] /\ checkpoint[r] = HEAD
            /\ pc[r] \in InRung \cup {"rung"} =>
                  Based /\ checkpoint[r].base = HEAD.base
            /\ pc[r] = "caught" => Based

LEMMA BaseInit == Init => BaseInv
BY DEF Init, BaseInv, InRung

LEMMA BaseStep == ASSUME TypeOK, BaseInv, [Next]_vars PROVE BaseInv'
<1>1. CASE UNCHANGED vars
  BY <1>1 DEF BaseInv, Based, Alone, Has, Goto, InRung, TypeOK, disk, history, vars, disk, history
<1>2. CASE Next
  <2>1. ASSUME NEW r \in Runner, NEW o \in Options[r], Start(r, o) PROVE BaseInv'
    BY <2>1, HeadIsCommit, LadderAssumption DEF Start, BaseInv, Based, Alone, Has, Goto, InRung, TypeOK, disk, history
  <2>2. ASSUME NEW r \in Runner, Resolve(r) PROVE BaseInv'
    BY <2>2, HeadIsCommit, LadderAssumption DEF Resolve, Resumes, BaseInv, Based, Alone, Has, Goto, InRung, TypeOK, disk, history
  <2>3. ASSUME NEW r \in Runner, Reset(r) PROVE BaseInv'
    BY <2>3, HeadIsCommit, LadderAssumption DEF Reset, Move, BaseInv, Based, Alone, Has, Goto, InRung, TypeOK, disk, history
  <2>4. ASSUME NEW r \in Runner, GitFails(r) PROVE BaseInv'
    BY <2>4, HeadIsCommit, LadderAssumption DEF GitFails, Fails, BaseInv, Based, Alone, Has, Goto, InRung, TypeOK, disk, history
  <2>5. ASSUME NEW r \in Runner, RefuseRung(r) PROVE BaseInv'
    BY <2>5, HeadIsCommit, LadderAssumption DEF RefuseRung, BaseInv, Based, Alone, Has, Goto, InRung, TypeOK, disk, history
  <2>6. ASSUME NEW r \in Runner, AddWorktree(r) PROVE BaseInv'
    BY <2>6, HeadIsCommit, LadderAssumption DEF AddWorktree, BaseInv, Based, Alone, Has, Goto, InRung, TypeOK, disk, history
  <2>7. ASSUME NEW r \in Runner, RunCommands(r) PROVE BaseInv'
    BY <2>7, HeadIsCommit, LadderAssumption DEF RunCommands, BaseInv, Based, Alone, Has, Goto, InRung, TypeOK, disk, history
  <2>8. ASSUME NEW r \in Runner, RejectCommand(r) PROVE BaseInv'
    BY <2>8, HeadIsCommit, LadderAssumption DEF RejectCommand, BaseInv, Based, Alone, Has, Goto, InRung, TypeOK, disk, history
  <2>9. ASSUME NEW r \in Runner, CommandFails(r) PROVE BaseInv'
    BY <2>9, HeadIsCommit, LadderAssumption DEF CommandFails, Fails, BaseInv, Based, Alone, Has, Goto, InRung, TypeOK, disk, history
  <2>10. ASSUME NEW r \in Runner, CommitRung(r) PROVE BaseInv'
    <3>1. PICK v \in BOOLEAN : v = (r \in validated)
      <4>1. (r \in validated) \in BOOLEAN
        OBVIOUS
      <4>. QED  BY <4>1, Zenon
    <3>2. WithRung(checkpoint[r], rung[r], v).base = checkpoint[r].base
      BY DEF WithRung
    <3>3. \/ Goto(r, "passed") /\ checkpoint' = checkpoint
          \/ /\ Goto(r, "branch")
             /\ checkpoint' = [checkpoint EXCEPT ![r] = WithRung(checkpoint[r], rung[r], v)]
      BY <2>10, <3>1, CommittedRung
    <3>4. checkpoint'[r].base = checkpoint[r].base
          /\ \A s \in Runner \ {r} : checkpoint'[s] = checkpoint[s]
      BY <3>2, <3>3 DEF TypeOK
    <3>5. pc[r] = "commit" /\ pc' = [pc EXCEPT ![r] = pc'[r]] /\ pc'[r] \in {"passed", "branch"}
      BY <2>10, <3>3 DEF CommitRung, Goto, TypeOK
    <3>6. branch' = branch /\ opts' = opts /\ restart' = restart /\ forgot' = forgot
      BY <2>10 DEF CommitRung, history
    <3>7. ASSUME NEW s \in Runner \ forgot', Has(s, "restart")', Alone(s)'
          PROVE  /\ pc'[s] = "resolve" => restart'[s] \/ Based'
                 /\ pc'[s] = "reset" => restart'[s] /\ checkpoint'[s] = HEAD
                 /\ pc'[s] \in InRung \cup {"rung"} =>
                       Based' /\ checkpoint'[s].base = HEAD.base
                 /\ pc'[s] = "caught" => Based'
      <4>1. s = r
        BY <3>5, <3>7 DEF Alone, TypeOK
      <4>2. Has(r, "restart") /\ Alone(r) /\ r \in Runner \ forgot
        BY <3>5, <3>6, <3>7, <4>1 DEF Alone, Has, TypeOK
      <4>3. Based /\ checkpoint[r].base = HEAD.base
        BY <3>5, <4>2 DEF BaseInv, InRung
      <4>4. Based' /\ checkpoint'[r].base = HEAD.base
        BY <3>4, <3>6, <4>3 DEF Based
      <4>. QED  BY <3>5, <4>1, <4>4
    <3>. QED  BY <3>7 DEF BaseInv
  <2>11. ASSUME NEW r \in Runner, MoveBranch(r) PROVE BaseInv'
    BY <2>11, HeadIsCommit, LadderAssumption DEF MoveBranch, Move, BaseInv, Based, Alone, Has, Goto, InRung, TypeOK, disk, history
  <2>12. ASSUME NEW r \in Runner, Clean(r) PROVE BaseInv'
    BY <2>12, HeadIsCommit, LadderAssumption DEF Clean, Leave, BaseInv, Based, Alone, Has, Goto, InRung, TypeOK, disk, history
  <2>13. ASSUME NEW r \in Runner, CleanFails(r) PROVE BaseInv'
    BY <2>13, HeadIsCommit, LadderAssumption DEF CleanFails, Leave, BaseInv, Based, Alone, Has, Goto, InRung, TypeOK, disk, history
  <2>14. ASSUME NEW r \in Runner, Complete(r) PROVE BaseInv'
    BY <2>14, HeadIsCommit, LadderAssumption DEF Complete, AtTop, Then, Forget, BaseInv, Based, Alone, Has, Goto, InRung, TypeOK, disk, history
  <2>15. ASSUME NEW r \in Runner, Caught(r) PROVE BaseInv'
    BY <2>15, HeadIsCommit, LadderAssumption DEF Caught, Then, Forget, BaseInv, Based, Alone, Has, Goto, InRung, TypeOK, disk, history
  <2>16. ASSUME NEW r \in Runner, Kill(r) PROVE BaseInv'
    BY <2>16, HeadIsCommit, LadderAssumption DEF Kill, Forget, BaseInv, Based, Alone, Has, Goto, InRung, TypeOK, disk, history
  <2>. QED  BY <1>2, <2>1, <2>2, <2>3, <2>4, <2>5, <2>6, <2>7, <2>8, <2>9, <2>10, <2>11,
              <2>12, <2>13, <2>14, <2>15, <2>16, StepCases
<1>. QED  BY <1>1, <1>2

(* A run with -Restart builds on HEAD in all its passes, unless its first  *)
(* pass failed before the reset.                                           *)
THEOREM LadderRestartHonoured == Spec => []RestartHonoured
<1>1. BaseInv => RestartHonoured
  BY DEF BaseInv, RestartHonoured, Alone
<1>. QED  BY <1>1, TypeInit, TypeStep, BaseInit, BaseStep, PTL DEF Spec

-------------------------------------------------------------------------------
(* What is left on the disk *)

(* A run that has left a worktree has started: its switches are fixed.     *)
LeftInv == LeftoversExplained /\ \A w \in left : pc[w.by] # "idle"

LEMMA LeftInit == Init => LeftInv
BY DEF Init, LeftInv, LeftoversExplained

LEMMA LeftStep == ASSUME TypeOK, LeftInv, [Next]_vars PROVE LeftInv'
<1>1. CASE UNCHANGED vars
  BY <1>1 DEF LeftInv, LeftoversExplained, LeaveTree, Kept, Has, Goto, Outside, InRung, TypeOK, disk, history, vars, disk, history
<1>2. CASE Next
  <2>1. ASSUME NEW r \in Runner, NEW o \in Options[r], Start(r, o) PROVE LeftInv'
    BY <2>1 DEF Start, LeftInv, LeftoversExplained, LeaveTree, Kept, Has, Goto, Outside, InRung, TypeOK, disk, history
  <2>2. ASSUME NEW r \in Runner, Resolve(r) PROVE LeftInv'
    BY <2>2 DEF Resolve, Resumes, LeftInv, LeftoversExplained, LeaveTree, Kept, Has, Goto, Outside, InRung, TypeOK, disk, history
  <2>3. ASSUME NEW r \in Runner, Reset(r) PROVE LeftInv'
    BY <2>3 DEF Reset, Move, LeftInv, LeftoversExplained, LeaveTree, Kept, Has, Goto, Outside, InRung, TypeOK, disk, history
  <2>4. ASSUME NEW r \in Runner, GitFails(r) PROVE LeftInv'
    BY <2>4 DEF GitFails, Fails, LeftInv, LeftoversExplained, LeaveTree, Kept, Has, Goto, Outside, InRung, TypeOK, disk, history
  <2>5. ASSUME NEW r \in Runner, RefuseRung(r) PROVE LeftInv'
    BY <2>5 DEF RefuseRung, LeftInv, LeftoversExplained, LeaveTree, Kept, Has, Goto, Outside, InRung, TypeOK, disk, history
  <2>6. ASSUME NEW r \in Runner, AddWorktree(r) PROVE LeftInv'
    BY <2>6 DEF AddWorktree, LeftInv, LeftoversExplained, LeaveTree, Kept, Has, Goto, Outside, InRung, TypeOK, disk, history
  <2>7. ASSUME NEW r \in Runner, RunCommands(r) PROVE LeftInv'
    BY <2>7 DEF RunCommands, LeftInv, LeftoversExplained, LeaveTree, Kept, Has, Goto, Outside, InRung, TypeOK, disk, history
  <2>8. ASSUME NEW r \in Runner, RejectCommand(r) PROVE LeftInv'
    BY <2>8 DEF RejectCommand, LeftInv, LeftoversExplained, LeaveTree, Kept, Has, Goto, Outside, InRung, TypeOK, disk, history
  <2>9. ASSUME NEW r \in Runner, CommandFails(r) PROVE LeftInv'
    BY <2>9 DEF CommandFails, Fails, LeftInv, LeftoversExplained, LeaveTree, Kept, Has, Goto, Outside, InRung, TypeOK, disk, history
  <2>10. ASSUME NEW r \in Runner, CommitRung(r) PROVE LeftInv'
    BY <2>10 DEF CommitRung, LeftInv, LeftoversExplained, LeaveTree, Kept, Has, Goto, Outside, InRung, TypeOK, disk, history
  <2>11. ASSUME NEW r \in Runner, MoveBranch(r) PROVE LeftInv'
    BY <2>11 DEF MoveBranch, Move, LeftInv, LeftoversExplained, LeaveTree, Kept, Has, Goto, Outside, InRung, TypeOK, disk, history
  <2>12. ASSUME NEW r \in Runner, Clean(r) PROVE LeftInv'
    <3>1. /\ \A s \in Runner \ {r} : pc'[s] = pc[s]
          /\ pc'[r] \in {"rung", "caught"} /\ pc[r] \in {"passed", "failed"}
      BY <2>12 DEF Clean, Leave, Goto, TypeOK
    <3>2. \A t \in trees' : pc'[t] \in InRung
      BY <2>12, <3>1 DEF Clean, LeftInv, LeftoversExplained, TypeOK
    <3>3. ASSUME NEW w \in left'
          PROVE  /\ pc'[w.by] # "idle"
                 /\ w.by \in stuck \/ pc'[w.by] = "killed" \/ (Has(w.by, "keep") /\ ~w.passed)
      <4>1. CASE w \in left
        BY <3>1, <4>1 DEF LeftInv, LeftoversExplained, TypeOK
      <4>2. CASE w \notin left
        <5>1. Kept(r) /\ w = [by |-> r, passed |-> pc[r] = "passed"]
          BY <2>12, <4>2 DEF Clean, LeaveTree
        <5>2. w.by = r /\ ~w.passed /\ Has(r, "keep")
          BY <5>1 DEF Kept
        <5>. QED  BY <3>1, <5>2
      <4>. QED  BY <4>1, <4>2
    <3>4. stuck' = stuck /\ opts' = opts
      BY <2>12 DEF Clean, history
    <3>. QED  BY <3>2, <3>3, <3>4 DEF LeftInv, LeftoversExplained, Has
  <2>13. ASSUME NEW r \in Runner, CleanFails(r) PROVE LeftInv'
    BY <2>13 DEF CleanFails, Leave, LeftInv, LeftoversExplained, LeaveTree, Kept, Has, Goto, Outside, InRung, TypeOK, disk, history
  <2>14. ASSUME NEW r \in Runner, Complete(r) PROVE LeftInv'
    BY <2>14 DEF Complete, AtTop, Then, Forget, LeftInv, LeftoversExplained, LeaveTree, Kept, Has, Goto, Outside, InRung, TypeOK, disk, history
  <2>15. ASSUME NEW r \in Runner, Caught(r) PROVE LeftInv'
    BY <2>15 DEF Caught, Then, Forget, LeftInv, LeftoversExplained, LeaveTree, Kept, Has, Goto, Outside, InRung, TypeOK, disk, history
  <2>16. ASSUME NEW r \in Runner, Kill(r) PROVE LeftInv'
    BY <2>16 DEF Kill, Forget, LeftInv, LeftoversExplained, LeaveTree, Kept, Has, Goto, Outside, InRung, TypeOK, disk, history
  <2>. QED  BY <1>2, <2>1, <2>2, <2>3, <2>4, <2>5, <2>6, <2>7, <2>8, <2>9, <2>10, <2>11,
              <2>12, <2>13, <2>14, <2>15, <2>16, StepCases
<1>. QED  BY <1>1, <1>2

(* A worktree that no run uses any more has a reason to be on the disk.    *)
THEOREM LadderLeftovers == Spec => []LeftoversExplained
<1>1. LeftInv => LeftoversExplained
  BY DEF LeftInv
<1>. QED  BY <1>1, TypeInit, TypeStep, LeftInit, LeftStep, PTL DEF Spec
==============================================================================
