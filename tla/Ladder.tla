------------------------------- MODULE Ladder -------------------------------
(***************************************************************************)
(* upgrade-aelion-ladder.ps1: passes over the rungs of a ladder, each in a *)
(* worktree of its own, and the checkpoint branch they move.               *)
(*                                                                         *)
(* A commit is its history: the number of the HEAD it started from, then   *)
(* its rungs, each with a note whether its validation commands have passed *)
(* on the commit before it.  Several runs of the script, one after the     *)
(* other or at the same time, share the repository.                        *)
(***************************************************************************)
EXTENDS Naturals, Sequences

CONSTANTS
    Runner,      \* the runs of the script
    Ladders,     \* the ladder files it may be given
    Options,     \* Options[r]: the sets of switches run r may be given
    Faults,      \* subset of {"command", "git", "remove", "kill"}
    Branches,    \* the commits the branch may be at before the first run
    None,        \* no such branch
    MaxFaults,   \* bound: faults
    MaxRungs     \* bound: rungs of a commit

(* A rung is "refused" when it has no name or an empty list of validation  *)
(* commands, "network" when a command of it looks like one that uses the   *)
(* network, and "vacuous" when it has no validate key: @($null) has the    *)
(* Count 1, and its one command is empty.                                  *)
Kind == {"plain", "refused", "network", "vacuous"}
Switch == {"restart", "keep", "dryrun", "loop"}
Commit == [base : Nat, rungs : Seq([rung : Nat \ {0}, validated : BOOLEAN])]
HEAD == [base |-> 1, rungs |-> <<>>]
Extends(c, d) ==
    /\ c.base = d.base /\ Len(d.rungs) <= Len(c.rungs)
    /\ \A i \in 1 .. Len(d.rungs) : c.rungs[i] = d.rungs[i]

WithRung(c, k, v) ==
    [base |-> c.base, rungs |-> Append(c.rungs, [rung |-> k, validated |-> v])]

ASSUME LadderAssumption ==
    /\ Ladders \subseteq Seq(Kind)
    /\ Options \in [Runner -> SUBSET SUBSET Switch]
    /\ None \notin Commit /\ Branches \subseteq Commit \cup {None}
    /\ \A b \in Branches \ {None} : \A i \in 1 .. Len(b.rungs) : b.rungs[i].validated
    /\ MaxFaults \in Nat /\ MaxRungs \in Nat

VARIABLES
    ladder,      \* the rungs of the ladder file
    branch,      \* the checkpoint branch
    pc,          \* pc[r]: where run r is
    opts,        \* opts[r]: its switches
    restart,     \* restart[r]: $restartFromHead
    checkpoint,  \* checkpoint[r]: $checkpoint
    rung,        \* rung[r]: the rung it is at
    trees,       \* the runs whose worktree of this rung is on the disk
    left,        \* the worktrees left behind: whose, and whether the rung passed
    faults,      \* how many faults there have been
    validated,   \* history: the runs whose validation commands have passed, in this rung
    raced,       \* history: the runs in whose pass another moved the branch
    forgot,      \* history: the runs that failed before their restart
    stuck        \* history: the runs whose "worktree remove" failed

disk == <<trees, left>>
history == <<forgot, stuck>>
vars == <<ladder, branch, pc, opts, restart, checkpoint, rung, disk, faults,
          validated, raced, history>>

Outside == {"idle", "ended", "threw", "killed"}
InRung == {"commands", "commit", "branch", "passed", "failed"}
InPass == InRung \cup {"reset", "rung"}
Pc == Outside \cup InPass \cup {"resolve", "caught"}

Has(r, switch) == switch \in opts[r]
Goto(r, p) == pc' = [pc EXCEPT ![r] = p]

Init ==
    /\ ladder \in Ladders /\ branch \in Branches
    /\ pc = [r \in Runner |-> "idle"] /\ opts = [r \in Runner |-> {}]
    /\ restart = [r \in Runner |-> FALSE]
    /\ checkpoint = [r \in Runner |-> HEAD] /\ rung = [r \in Runner |-> 1]
    /\ trees = {} /\ left = {} /\ faults = 0
    /\ validated = {} /\ raced = {}
    /\ forgot = {} /\ stuck = {}

Start(r, o) ==
    /\ pc[r] = "idle" /\ Goto(r, "resolve")
    /\ opts' = [opts EXCEPT ![r] = o]
    /\ restart' = [restart EXCEPT ![r] = "restart" \in o]
    /\ UNCHANGED <<ladder, branch, checkpoint, rung, disk, faults, validated, raced, history>>

-------------------------------------------------------------------------------
(* A pass: Invoke-LadderPass *)

Suffers(fault) == fault \in Faults /\ faults < MaxFaults /\ faults' = faults + 1

(* A command or a call of git fails.  From the worktree on this is inside  *)
(* the try, whose finally comes first.                                     *)
Fails(r, fault) ==
    /\ Suffers(fault)
    /\ Goto(r, IF pc[r] \in {"resolve", "reset"} THEN "caught" ELSE "failed")
    /\ forgot' = IF pc[r] \in {"resolve", "reset"} /\ restart[r]
                 THEN forgot \cup {r} ELSE forgot
    /\ UNCHANGED <<ladder, branch, opts, restart, checkpoint, rung, disk, validated, raced>>
    /\ UNCHANGED stuck

GitFails(r) ==
    /\ \/ pc[r] \in {"resolve", "reset", "branch"}
       \/ pc[r] = "commit" /\ ~Has(r, "dryrun")
       \/ pc[r] = "rung" /\ rung[r] <= Len(ladder) /\ ladder[rung[r]] # "refused"
    /\ Fails(r, "git")

(* Mutants of Resumes: every pass starts from HEAD; the restart is not     *)
(* looked at.                                                              *)
ResumesNever(r) == FALSE
ResumesAlways(r) == branch # None

(* The branch is resumed, if it is there. *)
Resumes(r) == ~restart[r] /\ branch # None

Resolve(r) ==
    /\ pc[r] = "resolve" /\ Goto(r, IF Resumes(r) THEN "rung" ELSE "reset")
    /\ checkpoint' = [checkpoint EXCEPT ![r] = IF Resumes(r) THEN branch ELSE HEAD]
    /\ UNCHANGED <<ladder, branch, opts, restart, rung, disk, faults, validated, raced, history>>

(* "git branch -f": the others do not notice. *)
Move(r) ==
    /\ branch' = checkpoint[r]
    /\ raced' = raced \cup {s \in Runner \ {r} : pc[s] \in InPass}

(* A dry run resets the branch too. *)
Reset(r) ==
    /\ pc[r] = "reset" /\ Goto(r, "rung") /\ Move(r)
    /\ UNCHANGED <<ladder, opts, restart, checkpoint, rung, disk, faults, validated, history>>

(* Lines 113-114 throw before there is a worktree, and outside the try. *)
RefuseRung(r) ==
    /\ pc[r] = "rung" /\ rung[r] <= Len(ladder) /\ ladder[rung[r]] = "refused"
    /\ Goto(r, "caught")
    /\ UNCHANGED <<ladder, branch, opts, restart, checkpoint, rung, disk, faults,
                   validated, raced, history>>

AddWorktree(r) ==
    /\ pc[r] = "rung" /\ rung[r] <= Len(ladder) /\ ladder[rung[r]] # "refused"
    /\ Goto(r, "commands") /\ trees' = trees \cup {r} /\ validated' = validated \ {r}
    /\ UNCHANGED <<ladder, branch, opts, restart, checkpoint, rung, left, faults, raced, history>>

(* All commands of the rung pass; those of a dry run are only looked at. *)
RunCommands(r) ==
    /\ pc[r] = "commands" /\ Goto(r, "commit") /\ ladder[rung[r]] # "network"
    /\ validated' = IF Has(r, "dryrun") \/ ladder[rung[r]] = "vacuous" THEN validated
                    ELSE validated \cup {r}
    /\ UNCHANGED <<ladder, branch, opts, restart, checkpoint, rung, disk, faults, raced, history>>

RejectCommand(r) ==
    /\ pc[r] = "commands" /\ ladder[rung[r]] = "network"
    /\ Goto(r, "failed")
    /\ UNCHANGED <<ladder, branch, opts, restart, checkpoint, rung, disk, faults,
                   validated, raced, history>>

(* A mutant of CommandFails: the exit code is not looked at. *)
CommandIgnored(r) ==
    /\ pc[r] = "commands" /\ ~Has(r, "dryrun") /\ Goto(r, "commit")
    /\ UNCHANGED <<ladder, branch, opts, restart, checkpoint, rung, disk, faults,
                   validated, raced, history>>

CommandFails(r) ==
    /\ pc[r] = "commands" /\ ~Has(r, "dryrun")
    /\ Fails(r, "command")

(* The worktree is as it was, or what has changed is committed in it. *)
CommitRung(r) ==
    /\ pc[r] = "commit"
    /\ \/ Goto(r, "passed") /\ UNCHANGED checkpoint
       \/ /\ ~Has(r, "dryrun") /\ Len(checkpoint[r].rungs) < MaxRungs
          /\ checkpoint' = [checkpoint EXCEPT ![r] = WithRung(@, rung[r], r \in validated)]
          /\ Goto(r, "branch")
    /\ UNCHANGED <<ladder, branch, opts, restart, rung, disk, faults, validated, raced, history>>

(* A mutant of MoveBranch: a move that fails goes unnoticed. *)
MoveOrNot(r) ==
    /\ pc[r] = "branch" /\ Goto(r, "passed")
    /\ Move(r) \/ UNCHANGED <<branch, raced>>
    /\ UNCHANGED <<ladder, opts, restart, checkpoint, rung, disk, faults, validated, history>>

MoveBranch(r) ==
    /\ pc[r] = "branch" /\ Goto(r, "passed") /\ Move(r)
    /\ UNCHANGED <<ladder, opts, restart, checkpoint, rung, disk, faults, validated, history>>

(* Behind the finally: the next rung, or out of the pass. *)
Leave(r) ==
    /\ rung' = IF pc[r] = "passed" THEN [rung EXCEPT ![r] = @ + 1] ELSE rung
    /\ Goto(r, IF pc[r] = "passed" THEN "rung" ELSE "caught")

Kept(r) == pc[r] = "failed" /\ Has(r, "keep")
LeaveTree(r) == left \cup {[by |-> r, passed |-> pc[r] = "passed"] : t \in trees \cap {r}}

(* A mutant of Clean: only the worktree of a rung that passed is removed. *)
CleanPassed(r) ==
    /\ pc[r] \in {"passed", "failed"} /\ Leave(r) /\ trees' = trees \ {r}
    /\ left' = IF pc[r] = "failed" THEN LeaveTree(r) ELSE left
    /\ UNCHANGED <<ladder, branch, opts, restart, checkpoint, faults, validated, raced, history>>

Clean(r) ==
    /\ pc[r] \in {"passed", "failed"} /\ Leave(r) /\ trees' = trees \ {r}
    /\ left' = IF Kept(r) THEN LeaveTree(r) ELSE left
    /\ UNCHANGED <<ladder, branch, opts, restart, checkpoint, faults, validated, raced, history>>

(* "git worktree remove" fails.  The script does not look at its exit      *)
(* code; Windows PowerShell throws at what it prints.                      *)
CleanFails(r) ==
    /\ pc[r] \in {"passed", "failed"} /\ r \in trees /\ ~Kept(r) /\ Suffers("remove")
    /\ Leave(r) \/ (Goto(r, "caught") /\ UNCHANGED rung)
    /\ trees' = trees \ {r} /\ left' = LeaveTree(r) /\ stuck' = stuck \cup {r}
    /\ UNCHANGED <<ladder, branch, opts, restart, checkpoint, validated, raced, forgot>>

-------------------------------------------------------------------------------
(* The loop around the passes *)

(* The variables of Invoke-LadderPass are gone with it. *)
Forget(r) ==
    /\ checkpoint' = [checkpoint EXCEPT ![r] = HEAD] /\ rung' = [rung EXCEPT ![r] = 1]
    /\ validated' = validated \ {r} /\ raced' = raced \ {r}

(* Where a run goes behind a pass: to the next one, or to its end at p. *)
Then(r, p) == IF Has(r, "loop") THEN "resolve" ELSE p

AtTop(r) == pc[r] = "rung" /\ rung[r] > Len(ladder)

Complete(r) ==
    /\ AtTop(r) /\ Goto(r, Then(r, "ended"))
    /\ restart' = [restart EXCEPT ![r] = FALSE]
    /\ Forget(r) /\ UNCHANGED <<ladder, branch, opts, disk, faults, history>>

(* A mutant of Caught: a failure ends the loop. *)
CaughtThrows(r) ==
    /\ pc[r] = "caught" /\ Goto(r, "threw")
    /\ restart' = [restart EXCEPT ![r] = FALSE]
    /\ Forget(r) /\ UNCHANGED <<ladder, branch, opts, disk, faults, history>>

Caught(r) ==
    /\ pc[r] = "caught" /\ Goto(r, Then(r, "threw"))
    /\ restart' = [restart EXCEPT ![r] = FALSE]
    /\ Forget(r) /\ UNCHANGED <<ladder, branch, opts, disk, faults, history>>

(* The process is ended: no finally runs. *)
Kill(r) ==
    /\ Suffers("kill") /\ pc[r] \notin Outside /\ Goto(r, "killed")
    /\ left' = LeaveTree(r) /\ trees' = trees \ {r}
    /\ Forget(r) /\ UNCHANGED <<ladder, branch, opts, restart, history>>

Pass(r) ==
    \/ Resolve(r) \/ Reset(r) \/ GitFails(r)
    \/ RefuseRung(r) \/ AddWorktree(r) \/ RunCommands(r)
    \/ RejectCommand(r) \/ CommandFails(r) \/ CommitRung(r) \/ MoveBranch(r)
    \/ Clean(r) \/ CleanFails(r)

Script(r) == Pass(r) \/ Complete(r) \/ Caught(r)

Next ==
    \E r \in Runner : Script(r) \/ Kill(r) \/ \E o \in Options[r] : Start(r, o)

Spec == Init /\ [][Next]_vars /\ \A r \in Runner : WF_vars(Script(r))

-------------------------------------------------------------------------------
(* Properties *)

TypeOK ==
    /\ ladder \in Seq(Kind) /\ branch \in Commit \cup {None}
    /\ pc \in [Runner -> Pc] /\ opts \in [Runner -> SUBSET Switch]
    /\ restart \in [Runner -> BOOLEAN] /\ checkpoint \in [Runner -> Commit]
    /\ rung \in [Runner -> Nat \ {0}] /\ faults \in Nat
    /\ trees \subseteq Runner /\ left \subseteq [by : Runner, passed : BOOLEAN]
    /\ validated \subseteq Runner /\ raced \subseteq Runner
    /\ forgot \subseteq Runner /\ stuck \subseteq Runner

(* "A rung is committed to the checkpoint branch only after all validation *)
(* commands pass" (upgrade-aelion-ladder.ps1:6-7): every rung of the       *)
(* branch was validated on top of the rungs before it, by some run, but    *)
(* for the rungs without a validate key, which line 114 lets through.      *)
OnlyValidated ==
    branch # None =>
        \A i \in 1 .. Len(branch.rungs) :
            ladder[branch.rungs[i].rung] = "vacuous" \/ branch.rungs[i].validated

(* No failure, kill or dry run takes a rung from the branch: it goes back  *)
(* only in the reset that -Restart asks for, or when it was moved by       *)
(* another run since this run's pass began.                                *)
KeepsProgress ==
    [][branch = None \/ Extends(branch', branch)
         \/ \E r \in Runner :
               /\ pc'[r] # pc[r]
               /\ r \in raced \/ (restart[r] /\ pc[r] = "reset")]_branch

(* "the next run resumes at the last known-good commit"                    *)
(* (upgrade-aelion-ladder.ps1:8): a rung is tried on the commit the branch *)
(* is at, after any failure of an earlier rung, pass or run.               *)
ResumesKnownGood ==
    \A r \in Runner \ raced :
        pc[r] \in {"commands", "commit"} => checkpoint[r] = branch

(* A run with -Restart builds on HEAD, not on an older one, in all passes, *)
(* unless its first pass failed before the reset: line 173 drops the       *)
(* restart all the same, and the loop resumes the old branch.              *)
RestartHonoured ==
    \A r \in Runner \ forgot :
        /\ Has(r, "restart") /\ pc[r] \in InRung
        /\ \A s \in Runner \ {r} : pc[s] = "idle"
        => checkpoint[r].base = HEAD.base

(* A worktree that no run uses any more has a reason to be on the disk:    *)
(* -KeepFailedWorktree and a rung that failed, a removal that failed, or   *)
(* the end of the process.                                                 *)
LeftoversExplained ==
    /\ \A r \in trees : pc[r] \in InRung
    /\ \A w \in left : \/ w.by \in stuck \/ pc[w.by] = "killed"
                       \/ (Has(w.by, "keep") /\ ~w.passed)

Passable == \A k \in 1 .. Len(ladder) : ladder[k] \in {"plain", "vacuous"}

(* Every run comes to its end; with -Loop it goes on after failures, and   *)
(* when nothing fails any more it completes a ladder that can be passed.   *)
LadderCompletes ==
    \A r \in Runner :
        pc[r] = "resolve" ~> \/ AtTop(r) \/ pc[r] = "killed"
                             \/ (pc[r] = "threw" /\ ~Has(r, "loop"))
                             \/ (pc[r] = "caught" /\ ~Passable)
==============================================================================
